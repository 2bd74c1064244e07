------------------------- MODULE QuotaWindows_proofs ------------------------
(* Proofs about QuotaWindows: a window is always one that a snapshot may   *)
(* hold, its periods share their boundary, no revocation is forgotten, and *)
(* no reset is lost by dropping samples, for any observations in any order *)
(* and any drift of their deadlines.                                       *)
(* The order is bottom up: samples, periods and what is shown of them, by  *)
(* induction over the samples; windows under each operation; the replay,   *)
(* by induction over the journal; the steps.                               *)
EXTENDS QuotaWindows, Inductions, FiniteSetTheorems, SequenceTheorems

-----------------------------------------------------------------------------
(* Samples.                                                                *)

(* Samples of a window of this length, in order and none of them twice.    *)
GoodSample(o, length) == ValidObservation(o) /\ ~o.revoked /\ o.length = length

GoodSamples(s, length) ==
    /\ s \in Seq(Observations) /\ Sorted(s) /\ IsInjective(s)
    /\ \A i \in 1 .. Len(s) : GoodSample(s[i], length)

(* t is the last part of s.                                                *)
Suffix(t, s) ==
    /\ t \in Seq(Observations) /\ Len(t) <= Len(s)
    /\ \A i \in 1 .. Len(t) : t[i] = s[Len(s) - Len(t) + i]

(* The fields of an observation.                                           *)
LEMMA ObservationFields ==
    ASSUME NEW o \in Observations
    PROVE  o.at \in Int /\ o.reset \in Int /\ o.length \in Int /\ o.used \in Int /\ o.revoked \in BOOLEAN
BY ObservationsAssumption

(* The fields of a sample.                                                 *)
LEMMA SamplesAt ==
    ASSUME NEW s \in Seq(Observations), NEW i \in 1 .. Len(s)
    PROVE  s[i] \in Observations /\ s[i].at \in Int /\ s[i].reset \in Int /\ s[i].used \in Int
<1>1. s[i] \in Observations
  BY ElementOfSeq
<1> QED BY <1>1, ObservationFields

(* The last part of good samples is good.                                  *)
LEMMA SuffixOfGood ==
    ASSUME NEW length, NEW s, GoodSamples(s, length), NEW t, Suffix(t, s)
    PROVE  GoodSamples(t, length)
<1>1. t \in Seq(Observations) /\ Len(t) \in Nat /\ Len(s) \in Nat /\ DOMAIN t = 1 .. Len(t) /\ DOMAIN s = 1 .. Len(s)
  BY LenProperties DEF Suffix, GoodSamples
<1>2. \A i \in 1 .. Len(t) : t[i] = s[Len(s) - Len(t) + i] /\ Len(s) - Len(t) + i \in 1 .. Len(s)
  BY <1>1 DEF Suffix
<1>3. \A i \in 1 .. Len(t) : GoodSample(t[i], length)
  BY <1>2 DEF GoodSamples
<1>4. ASSUME NEW i \in 1 .. Len(t), NEW j \in 1 .. Len(t), i < j PROVE t[i].at <= t[j].at
  <2> DEFINE a == Len(s) - Len(t) + i
             b == Len(s) - Len(t) + j
  <2>1. a \in 1 .. Len(s) /\ b \in 1 .. Len(s) /\ a < b
    BY <1>1, <1>2, <1>4
  <2> HIDE DEF a, b
  <2>2. s[a].at <= s[b].at
    BY <1>1, <2>1 DEF GoodSamples, Sorted
  <2> QED BY <1>2, <2>2 DEF a, b
<1>5. ASSUME NEW i \in 1 .. Len(t), NEW j \in 1 .. Len(t), t[i] = t[j] PROVE i = j
  <2>1. s[Len(s) - Len(t) + i] = s[Len(s) - Len(t) + j]
    BY <1>2, <1>5
  <2>2. Len(s) - Len(t) + i = Len(s) - Len(t) + j
    BY <1>1, <1>2, <2>1 DEF GoodSamples, IsInjective
  <2> QED BY <1>1, <2>2
<1> QED BY <1>1, <1>3, <1>4, <1>5 DEF GoodSamples, Sorted, IsInjective

(* All of it is a last part.                                               *)
LEMMA SuffixItself ==
    ASSUME NEW s \in Seq(Observations)
    PROVE  Suffix(s, s)
<1>1. Len(s) \in Nat
  BY LenProperties
<1> QED BY <1>1 DEF Suffix

(* The last part of a last part is one.                                    *)
LEMMA SuffixOn ==
    ASSUME NEW s \in Seq(Observations), NEW t, Suffix(t, s), NEW u, Suffix(u, t)
    PROVE  Suffix(u, s)
<1>1. Len(s) \in Nat /\ Len(t) \in Nat /\ Len(u) \in Nat
  BY LenProperties DEF Suffix
<1>2. ASSUME NEW i \in 1 .. Len(u) PROVE u[i] = s[Len(s) - Len(u) + i]
  <2> DEFINE j == Len(t) - Len(u) + i
  <2>1. j \in 1 .. Len(t) /\ u[i] = t[j]
    BY <1>1 DEF Suffix
  <2>2. t[j] = s[Len(s) - Len(t) + j]
    BY <2>1 DEF Suffix
  <2>3. Len(s) - Len(t) + j = Len(s) - Len(u) + i
    BY <1>1
  <2> QED BY <2>1, <2>2, <2>3
<1> QED BY <1>1, <1>2 DEF Suffix

(* What follows the first k samples.                                       *)
LEMMA TailIsSuffix ==
    ASSUME NEW s \in Seq(Observations), NEW k \in 0 .. Len(s)
    PROVE  /\ Suffix(SubSeq(s, k + 1, Len(s)), s)
           /\ Len(SubSeq(s, k + 1, Len(s))) = Len(s) - k
<1>1. Len(s) \in Nat
  BY LenProperties
<1>2. \A i \in k + 1 .. Len(s) : s[i] \in Observations
  BY <1>1, ElementOfSeq
<1> DEFINE t == SubSeq(s, k + 1, Len(s))
<1>3. t = [i \in 1 .. (Len(s) - k) |-> s[k + i]]
  BY <1>1
<1>4. t \in Seq(Observations)
  BY <1>1, <1>2, <1>3
<1>5. Len(t) = Len(s) - k
  BY <1>1, <1>3
<1> HIDE DEF t
<1>6. \A i \in 1 .. Len(t) : t[i] = s[Len(s) - Len(t) + i]
  BY <1>1, <1>3, <1>5
<1>7. Suffix(t, s)
  BY <1>1, <1>4, <1>5, <1>6 DEF Suffix
<1> QED BY <1>5, <1>7 DEF t

(* The first samples.                                                      *)
LEMMA PrefixFacts ==
    ASSUME NEW s \in Seq(Observations), NEW n \in 0 .. Len(s)
    PROVE  /\ SubSeq(s, 1, n) \in Seq(Observations) /\ Len(SubSeq(s, 1, n)) = n
           /\ \A i \in 1 .. n : SubSeq(s, 1, n)[i] = s[i]
<1>1. Len(s) \in Nat
  BY LenProperties
<1>2. \A i \in 1 .. n : s[i] \in Observations
  BY <1>1, ElementOfSeq
<1>3. SubSeq(s, 1, n) = [i \in 1 .. n |-> s[i]]
  <2>1. SubSeq(s, 1, n) = [i \in 1 .. (1 + n - 1) |-> s[1 + i - 1]]
    BY <1>1
  <2> QED BY <2>1
<1> QED BY <1>1, <1>2, <1>3

(* The first part of good samples is good.                                 *)
LEMMA PrefixOfGood ==
    ASSUME NEW length, NEW s, GoodSamples(s, length), NEW n \in 0 .. Len(s)
    PROVE  GoodSamples(SubSeq(s, 1, n), length)
<1>1. s \in Seq(Observations) /\ Len(s) \in Nat /\ DOMAIN s = 1 .. Len(s)
  BY LenProperties DEF GoodSamples
<1> DEFINE t == SubSeq(s, 1, n)
<1>2. t \in Seq(Observations) /\ Len(t) = n /\ \A i \in 1 .. n : t[i] = s[i]
  BY <1>1, PrefixFacts
<1> HIDE DEF t
<1>3. DOMAIN t = 1 .. n
  BY <1>2, LenProperties
<1>4. \A i \in 1 .. n : i \in 1 .. Len(s)
  BY <1>1
<1>5. \A i \in 1 .. Len(t) : GoodSample(t[i], length)
  BY <1>2, <1>4 DEF GoodSamples
<1>6. Sorted(t)
  BY <1>1, <1>2, <1>3, <1>4 DEF GoodSamples, Sorted
<1>7. IsInjective(t)
  BY <1>1, <1>2, <1>3, <1>4 DEF GoodSamples, IsInjective
<1>8. GoodSamples(t, length)
  BY <1>2, <1>5, <1>6, <1>7 DEF GoodSamples
<1> QED BY <1>8 DEF t

(* The end of a first part, and what follows that part.                    *)
LEMMA SuffixJoined ==
    ASSUME NEW s \in Seq(Observations), NEW k \in 0 .. Len(s), NEW t, Suffix(t, SubSeq(s, 1, k))
    PROVE  Suffix(t \o SubSeq(s, k + 1, Len(s)), s)
<1> DEFINE b == SubSeq(s, 1, k)
           a == SubSeq(s, k + 1, Len(s))
           u == t \o a
<1>1. Len(s) \in Nat
  BY LenProperties
<1>2. b \in Seq(Observations) /\ Len(b) = k /\ \A i \in 1 .. k : b[i] = s[i]
  BY PrefixFacts
<1>3. Suffix(a, s) /\ Len(a) = Len(s) - k
  BY TailIsSuffix
<1> HIDE DEF b, a
<1>4. t \in Seq(Observations) /\ Len(t) \in Nat /\ Len(t) <= k /\ \A i \in 1 .. Len(t) : t[i] = b[k - Len(t) + i]
  BY <1>2, LenProperties DEF Suffix, b
<1>5. a \in Seq(Observations) /\ \A i \in 1 .. Len(s) - k : a[i] = s[k + i]
  <2>1. a \in Seq(Observations) /\ \A i \in 1 .. Len(a) : a[i] = s[Len(s) - Len(a) + i]
    BY <1>3 DEF Suffix
  <2>2. Len(s) - Len(a) = k
    BY <1>1, <1>3
  <2> QED BY <1>3, <2>1, <2>2
<1>c. u \in Seq(Observations) /\ Len(u) = Len(t) + Len(a)
      /\ \A i \in 1 .. Len(t) + Len(a) : u[i] = IF i <= Len(t) THEN t[i] ELSE a[i - Len(t)]
  BY <1>4, <1>5, ConcatProperties
<1> HIDE DEF u
<1>6. u \in Seq(Observations) /\ Len(u) = Len(t) + (Len(s) - k)
  BY <1>c, <1>3
<1>7. \A i \in 1 .. Len(u) : u[i] = IF i <= Len(t) THEN t[i] ELSE a[i - Len(t)]
  BY <1>c
<1>8. ASSUME NEW i \in 1 .. Len(u) PROVE u[i] = s[Len(s) - Len(u) + i]
  <2>1. CASE i <= Len(t)
    <3>1. k - Len(t) + i \in 1 .. k /\ Len(s) - Len(u) + i = k - Len(t) + i
      BY <1>1, <1>4, <1>6, <2>1
    <3>2. u[i] = b[k - Len(t) + i]
      BY <1>4, <1>7, <2>1
    <3> QED BY <1>2, <3>1, <3>2
  <2>2. CASE ~(i <= Len(t))
    <3>1. i - Len(t) \in 1 .. Len(s) - k /\ Len(s) - Len(u) + i = k + (i - Len(t))
      BY <1>1, <1>4, <1>6, <2>2
    <3> QED BY <1>5, <1>7, <2>2, <3>1
  <2> QED BY <2>1, <2>2
<1>9. Suffix(u, s)
  BY <1>1, <1>4, <1>6, <1>8 DEF Suffix
<1> QED BY <1>9 DEF u, a

-----------------------------------------------------------------------------
(* Periods: their fields, and samples chosen from them.                    *)

(* A period a snapshot may hold, of a window of this length.               *)
GoodPeriod(p, length) ==
    /\ p \in Periods /\ p.start < p.end /\ (p.byReset \/ p.end - p.start = length)
    /\ GoodSamples(p.samples, length)

(* q is p with other samples.                                              *)
Resampled(p, q) ==
    q.start = p.start /\ q.end = p.end /\ q.byReset = p.byReset /\ q.estimated = p.estimated

(* The fields of a period.                                                 *)
LEMMA PeriodFields ==
    ASSUME NEW p \in Periods
    PROVE  /\ p.start \in Int /\ p.end \in Int /\ p.since \in Int /\ p.samples \in Seq(Observations)
           /\ p.byReset \in BOOLEAN /\ p.estimated \in BOOLEAN
           /\ p = [start |-> p.start, end |-> p.end, since |-> p.since, samples |-> p.samples,
                   byReset |-> p.byReset, estimated |-> p.estimated]
BY DEF Periods

(* A period is made of its fields.                                         *)
LEMMA PeriodType ==
    ASSUME NEW start \in Int, NEW end \in Int, NEW since \in Int, NEW samples \in Seq(Observations),
           NEW byReset \in BOOLEAN, NEW estimated \in BOOLEAN,
           NEW p, p = [start |-> start, end |-> end, since |-> since, samples |-> samples,
                       byReset |-> byReset, estimated |-> estimated]
    PROVE  p \in Periods
BY DEF Periods

(* A period with other samples and another baseline.                       *)
LEMMA ResampledGood ==
    ASSUME NEW length, NEW p, GoodPeriod(p, length), NEW samples, GoodSamples(samples, length),
           NEW since \in Int,
           NEW q, q = [start |-> p.start, end |-> p.end, since |-> since, samples |-> samples,
                       byReset |-> p.byReset, estimated |-> p.estimated]
    PROVE  GoodPeriod(q, length) /\ Resampled(p, q) /\ q.samples = samples
<1>1. /\ p.start \in Int /\ p.end \in Int /\ p.byReset \in BOOLEAN /\ p.estimated \in BOOLEAN
      /\ samples \in Seq(Observations)
  BY PeriodFields DEF GoodPeriod, GoodSamples
<1>2. q \in Periods
  BY <1>1, PeriodType, Zenon
<1>3. /\ q.start = p.start /\ q.end = p.end /\ q.byReset = p.byReset /\ q.estimated = p.estimated
      /\ q.samples = samples
  OBVIOUS
<1>4. Resampled(p, q)
  BY <1>3, Zenon DEF Resampled
<1>5. p.start < p.end /\ (p.byReset \/ p.end - p.start = length)
  BY DEF GoodPeriod
<1>6. q.start < q.end /\ (q.byReset \/ q.end - q.start = length)
  BY <1>3, <1>5, Zenon
<1>7. GoodSamples(q.samples, length)
  BY <1>3
<1> QED BY <1>2, <1>3, <1>4, <1>6, <1>7, Zenon DEF GoodPeriod

(* A period whose samples are replaced by good ones stays good.            *)
LEMMA SamplesReplaced ==
    ASSUME NEW length, NEW p, GoodPeriod(p, length), NEW samples, GoodSamples(samples, length),
           NEW q, q = [p EXCEPT !.samples = samples]
    PROVE  GoodPeriod(q, length) /\ Resampled(p, q) /\ q.samples = samples
<1>1. /\ p.since \in Int
      /\ p = [start |-> p.start, end |-> p.end, since |-> p.since, samples |-> p.samples,
              byReset |-> p.byReset, estimated |-> p.estimated]
  BY PeriodFields DEF GoodPeriod
<1>2. q = [start |-> p.start, end |-> p.end, since |-> p.since, samples |-> samples,
           byReset |-> p.byReset, estimated |-> p.estimated]
  BY <1>1
<1> QED BY <1>1, <1>2, ResampledGood

(* x holds, in order, the samples at those of the first n positions that   *)
(* are in the set; g says where each of them was.                          *)
Placed(g, x, s, places, n) ==
    /\ x \in Seq(Observations) /\ g \in [1 .. Len(x) -> 1 .. n]
    /\ \A i, j \in 1 .. Len(x) : i < j => g[i] < g[j]
    /\ \A i \in 1 .. Len(x) : g[i] \in places /\ x[i] = s[g[i]]
    /\ \A k \in 1 .. n : k \in places => \E i \in 1 .. Len(x) : g[i] = k

(* The next sample is taken, or not.                                       *)
LEMMA PlacedOn ==
    ASSUME NEW s \in Seq(Observations), NEW places, NEW n \in Nat, n + 1 \in 1 .. Len(s),
           NEW g, NEW x, Placed(g, x, s, places, n),
           NEW y, y = IF n + 1 \in places THEN Append(x, s[n + 1]) ELSE x
    PROVE  \E h : Placed(h, y, s, places, n + 1)
<1>1. x \in Seq(Observations) /\ Len(x) \in Nat /\ g \in [1 .. Len(x) -> 1 .. n]
  BY LenProperties DEF Placed
<1>2. \A k \in 1 .. n + 1 : k \in 1 .. n \/ k = n + 1
  OBVIOUS
<1>3. CASE n + 1 \notin places
  <2>1. y = x
    BY <1>3
  <2>2. g \in [1 .. Len(x) -> 1 .. n + 1]
    BY <1>1
  <2>3. Placed(g, x, s, places, n + 1)
    BY <1>2, <1>3, <2>2 DEF Placed
  <2> QED BY <2>1, <2>3
<1>4. CASE n + 1 \in places
  <2> DEFINE L == Len(x)
             h == [i \in 1 .. L + 1 |-> IF i = L + 1 THEN n + 1 ELSE g[i]]
  <2>1. y = Append(x, s[n + 1]) /\ s[n + 1] \in Observations
    BY <1>4, ElementOfSeq
  <2>2. y \in Seq(Observations) /\ Len(y) = L + 1 /\ y[L + 1] = s[n + 1] /\ \A i \in 1 .. L : y[i] = x[i]
    BY <1>1, <2>1, AppendProperties
  <2>3. \A i \in 1 .. L + 1 : i \in 1 .. L \/ i = L + 1
    BY <1>1
  <2>4. \A i \in 1 .. L : i # L + 1 /\ i \in 1 .. L + 1 /\ g[i] \in 1 .. n
    BY <1>1
  <2>5. h[L + 1] = n + 1 /\ \A i \in 1 .. L : h[i] = g[i]
    <3>1. L + 1 \in 1 .. L + 1
      BY <1>1
    <3> QED BY <2>4, <3>1
  <2>6. h \in [1 .. Len(y) -> 1 .. n + 1]
    BY <2>2, <2>3, <2>4
  <2> HIDE DEF h
  <2>7. \A i, j \in 1 .. Len(y) : i < j => h[i] < h[j]
    <3> SUFFICES ASSUME NEW i \in 1 .. L + 1, NEW j \in 1 .. L + 1, i < j PROVE h[i] < h[j]
      BY <2>2
    <3>1. i \in 1 .. L
      BY <1>1
    <3>2. CASE j \in 1 .. L
      BY <2>5, <3>1, <3>2 DEF Placed
    <3>3. CASE j = L + 1
      BY <2>4, <2>5, <3>1, <3>3
    <3> QED BY <2>3, <3>2, <3>3
  <2>8. \A i \in 1 .. Len(y) : h[i] \in places /\ y[i] = s[h[i]]
    <3>1. \A i \in 1 .. L : g[i] \in places /\ x[i] = s[g[i]]
      BY DEF Placed
    <3> QED BY <1>4, <2>2, <2>3, <2>5, <3>1
  <2>9. ASSUME NEW k \in 1 .. n + 1, k \in places PROVE \E i \in 1 .. Len(y) : h[i] = k
    <3>1. CASE k \in 1 .. n
      <4>1. PICK i \in 1 .. L : g[i] = k
        BY <2>9, <3>1 DEF Placed
      <4> QED BY <2>2, <2>4, <2>5, <4>1
    <3>2. CASE k = n + 1
      <4>1. L + 1 \in 1 .. Len(y)
        BY <1>1, <2>2
      <4> QED BY <2>5, <3>2, <4>1
    <3> QED BY <1>2, <3>1, <3>2
  <2>10. Placed(h, y, s, places, n + 1)
    BY <2>2, <2>6, <2>7, <2>8, <2>9 DEF Placed
  <2> QED BY <2>10
<1> QED BY <1>3, <1>4

(* The samples chosen are at the positions of the set, by induction over   *)
(* the samples.                                                            *)
LEMMA ChosenPlaces ==
    ASSUME NEW s \in Seq(Observations), NEW places
    PROVE  \E g : Placed(g, Chosen(s, places), s, places, Len(s))
<1> DEFINE N == Len(s)
           f == CHOOSE f : f = [n \in 0 .. N |-> IF n = 0 THEN <<>>
                                  ELSE IF n \in places THEN Append(f[n - 1], s[n]) ELSE f[n - 1]]
           D == Seq(Observations)
           F == [e \in D \X (1 .. N) |-> IF e[2] \in places THEN Append(e[1], s[e[2]]) ELSE e[1]]
<1>1. Chosen(s, places) = f[N]
  BY DEF Chosen
<1>2. N \in Nat
  BY LenProperties
<1>3. \A n \in 1 .. N : s[n] \in Observations
  BY <1>2, ElementOfSeq
<1>4. F \in [D \X (1 .. N) -> D]
  <2>1. ASSUME NEW x \in D, NEW n \in 1 .. N PROVE Append(x, s[n]) \in D
    BY <1>3, AppendProperties
  <2> QED BY <2>1
<1>5. ASSUME NEW x \in D, NEW n \in 1 .. N
      PROVE  F[<<x, n>>] = IF n \in places THEN Append(x, s[n]) ELSE x
  OBVIOUS
<1> DEFINE none == <<>>
<1>6. none \in D /\ N \in Nat
  BY <1>2
<1> HIDE DEF F, D, N, none
<1>7. PICK g \in [0 .. N -> D] : RoundsOf(g, none, N, F)
  BY <1>4, <1>6, RoundsExist
<1>8. \A n \in 1 .. N : g[n] = IF n \in places THEN Append(g[n - 1], s[n]) ELSE g[n - 1]
  <2>1. \A n \in 1 .. N : n - 1 \in 0 .. N
    BY <1>2
  <2> QED BY <1>5, <1>7, <2>1 DEF RoundsOf
<1>9. g = [n \in 0 .. N |-> IF n = 0 THEN <<>>
             ELSE IF n \in places THEN Append(g[n - 1], s[n]) ELSE g[n - 1]]
  <2>1. g = [n \in 0 .. N |-> g[n]]
    OBVIOUS
  <2>2. \A n \in 0 .. N : n # 0 => n \in 1 .. N
    BY <1>2
  <2> QED BY <1>7, <1>8, <2>1, <2>2 DEF none, RoundsOf
<1>10. f = [n \in 0 .. N |-> IF n = 0 THEN <<>>
              ELSE IF n \in places THEN Append(f[n - 1], s[n]) ELSE f[n - 1]]
  BY <1>9
<1> HIDE DEF f
<1>11. f[0] = <<>>
  BY <1>2, <1>10
<1>12. ASSUME NEW n \in 1 .. N
       PROVE  f[n] = IF n \in places THEN Append(f[n - 1], s[n]) ELSE f[n - 1]
  <2>1. n \in 0 .. N /\ n # 0
    BY <1>2
  <2> QED BY <1>10, <2>1
<1> USE DEF N
<1> DEFINE T == {n \in Nat : \E h : Placed(h, f[n], s, places, n)}
<1>13. 0 \in T
  <2>1. PICK x : x = f[0]
    OBVIOUS
  <2>2. x \in Seq(Observations) /\ Len(x) = 0
    BY <1>11, <2>1
  <2>3. [i \in 1 .. 0 |-> i] \in [1 .. Len(x) -> 1 .. 0]
    BY <2>2
  <2>4. Placed([i \in 1 .. 0 |-> i], x, s, places, 0)
    BY <2>2, <2>3 DEF Placed
  <2>5. \E h : Placed(h, x, s, places, 0)
    BY <2>4
  <2> QED BY <2>1, <2>5
<1>14. ASSUME NEW n \in 0 .. N - 1, n \in T PROVE n + 1 \in T
  <2>1. n + 1 \in 1 .. N /\ n \in Nat /\ n + 1 \in Nat /\ (n + 1) - 1 = n
    BY <1>2
  <2>2. f[n + 1] = IF n + 1 \in places THEN Append(f[n], s[n + 1]) ELSE f[n]
    BY <1>12, <2>1
  <2>3. PICK h : Placed(h, f[n], s, places, n)
    BY <1>14
  <2>4. \E k : Placed(k, f[n + 1], s, places, n + 1)
    BY <2>1, <2>2, <2>3, PlacedOn
  <2> QED BY <2>1, <2>4
<1> HIDE DEF T, N
<1>15. \A n \in 0 .. N - 1 : n \in T => n + 1 \in T
  BY <1>14
<1>16. \A n \in 0 .. N : n \in T
  BY <1>2, <1>13, <1>15, RoundInduction
<1>17. N \in T
  BY <1>2, <1>16
<1>18. \E h : Placed(h, f[N], s, places, N)
  BY <1>17 DEF T
<1> QED BY <1>1, <1>18 DEF N

(* Choosing samples keeps their order, and repeats none.                   *)
LEMMA ChosenGood ==
    ASSUME NEW length, NEW s, GoodSamples(s, length), NEW places
    PROVE  GoodSamples(Chosen(s, places), length)
<1>1. s \in Seq(Observations) /\ DOMAIN s = 1 .. Len(s) /\ Len(s) \in Nat
  BY LenProperties DEF GoodSamples
<1>2. PICK x : x = Chosen(s, places)
  OBVIOUS
<1>3. PICK g : Placed(g, x, s, places, Len(s))
  BY <1>1, <1>2, ChosenPlaces
<1>4. x \in Seq(Observations) /\ DOMAIN x = 1 .. Len(x) /\ Len(x) \in Nat
  BY <1>3, LenProperties DEF Placed
<1>5. \A i \in 1 .. Len(x) : g[i] \in 1 .. Len(s) /\ x[i] = s[g[i]]
  BY <1>3 DEF Placed
<1>6. \A i, j \in 1 .. Len(x) : i < j => g[i] < g[j]
  BY <1>3 DEF Placed
<1>7. Sorted(x)
  BY <1>1, <1>4, <1>5, <1>6 DEF Sorted, GoodSamples
<1>8. IsInjective(x)
  <2> SUFFICES ASSUME NEW i \in 1 .. Len(x), NEW j \in 1 .. Len(x), x[i] = x[j] PROVE i = j
    BY <1>4 DEF IsInjective
  <2>1. g[i] = g[j]
    BY <1>1, <1>5 DEF GoodSamples, IsInjective
  <2>2. ~(i < j) /\ ~(j < i)
    BY <1>4, <1>5, <1>6, <2>1
  <2> QED BY <1>4, <2>2
<1>9. \A i \in 1 .. Len(x) : GoodSample(x[i], length)
  BY <1>5 DEF GoodSamples
<1>10. GoodSamples(x, length)
  BY <1>4, <1>7, <1>8, <1>9 DEF GoodSamples
<1> QED BY <1>2, <1>10

(* Compaction (quotaCompactSamples) keeps a period good, whichever samples *)
(* it drops.                                                               *)
LEMMA CompactGood ==
    ASSUME NEW length, NEW p, GoodPeriod(p, length)
    PROVE  GoodPeriod(Compact(p), length) /\ Resampled(p, Compact(p))
<1>1. ASSUME NEW spare
      PROVE  GoodPeriod(Dropping(p, spare), length) /\ Resampled(p, Dropping(p, spare))
  <2> DEFINE places == DOMAIN p.samples \ {i \in spare : Cardinality({j \in spare : j <= i})
                                                             <= Len(p.samples) - MaxSamples}
             samples == Chosen(p.samples, places)
             q == [p EXCEPT !.samples = samples]
  <2>1. Dropping(p, spare) = q
    BY DEF Dropping
  <2>2. GoodSamples(samples, length)
    BY ChosenGood DEF GoodPeriod
  <2> HIDE DEF samples
  <2>3. GoodPeriod(q, length) /\ Resampled(p, q)
    BY <2>2, SamplesReplaced
  <2> QED BY <2>1, <2>3
<1> QED BY <1>1 DEF Compact, Resampled

-----------------------------------------------------------------------------
(* Periods that take samples.                                              *)

(* There are g numbers up to g.                                            *)
LEMMA UpToCardinality ==
    ASSUME NEW g \in Nat
    PROVE  Cardinality(1 .. g) = g
<1>1. PICK p : p = 1
  OBVIOUS
<1>2. p \in Int /\ g \in Int
  BY <1>1
<1>3. Cardinality(p .. g) = IF p > g THEN 0 ELSE g - p + 1
  BY <1>2, FS_Interval
<1> QED BY <1>1, <1>3

(* How many samples were taken up to a time, and that they come first.     *)
LEMMA TakenBy ==
    ASSUME NEW length, NEW s, GoodSamples(s, length), NEW at \in Int,
           NEW n, n = Cardinality({i \in DOMAIN s : s[i].at <= at})
    PROVE  /\ n \in 0 .. Len(s)
           /\ \A i \in 1 .. Len(s) : s[i].at <= at <=> i <= n
<1> DEFINE S == {i \in DOMAIN s : s[i].at <= at}
<1>1. s \in Seq(Observations) /\ Len(s) \in Nat /\ DOMAIN s = 1 .. Len(s)
  BY LenProperties DEF GoodSamples
<1>2. \A i \in 1 .. Len(s) : s[i].at \in Int
  BY <1>1, SamplesAt
<1>3. \A i, j \in 1 .. Len(s) : i < j => s[i].at <= s[j].at
  BY <1>1 DEF GoodSamples, Sorted
<1>4. S \subseteq 0 .. Len(s) /\ S \subseteq 1 .. Len(s)
  BY <1>1
<1>5. CASE S = {}
  <2>1. n = 0
    BY <1>5, FS_EmptySet
  <2>2. \A i \in 1 .. Len(s) : ~(s[i].at <= at) /\ ~(i <= n)
    BY <1>1, <1>5, <2>1
  <2> QED BY <1>1, <2>1, <2>2
<1>6. CASE S # {}
  <2> HIDE DEF S
  <2>1. PICK g \in S : \A h \in S : h <= g
    BY <1>1, <1>4, <1>6, GreatestElement
  <2>2. g \in 1 .. Len(s) /\ s[g].at <= at
    BY <1>1, <2>1 DEF S
  <2>3. ASSUME NEW i \in 1 .. Len(s) PROVE s[i].at <= at <=> i <= g
    <3>1. ASSUME s[i].at <= at PROVE i <= g
      <4>1. i \in S
        BY <1>1, <3>1 DEF S
      <4> QED BY <2>1, <4>1
    <3>2. ASSUME i < g PROVE s[i].at <= at
      BY <1>2, <1>3, <2>2, <3>2
    <3> QED BY <2>2, <3>1, <3>2
  <2>4. S = 1 .. g
    <3>1. \A i \in S : i \in 1 .. Len(s) /\ i <= g
      BY <1>4, <2>1
    <3>2. \A i \in 1 .. g : i \in S
      BY <1>1, <2>2, <2>3 DEF S
    <3>3. S \subseteq 1 .. g
      BY <2>2, <3>1
    <3> QED BY <3>2, <3>3
  <2>5. Cardinality(1 .. g) = g
    BY <2>2, UpToCardinality
  <2>6. n = g
    BY <2>4, <2>5 DEF S
  <2>7. n \in 0 .. Len(s)
    BY <1>1, <2>2, <2>6
  <2>8. \A i \in 1 .. Len(s) : s[i].at <= at <=> i <= n
    BY <2>3, <2>6
  <2> QED BY <2>7, <2>8
<1> QED BY <1>5, <1>6

(* u is a, then o, then b.                                                 *)
Between(u, a, o, b) ==
    /\ u \in Seq(Observations) /\ Len(u) = Len(a) + 1 + Len(b)
    /\ \A i \in 1 .. Len(a) : u[i] = a[i]
    /\ u[Len(a) + 1] = o
    /\ \A i \in 1 .. Len(b) : u[Len(a) + 1 + i] = b[i]

(* Joining a first part, a sample and a last part.                         *)
LEMMA ThreeParts ==
    ASSUME NEW a \in Seq(Observations), NEW o \in Observations, NEW b \in Seq(Observations)
    PROVE  Between((a \o <<o>>) \o b, a, o, b)
<1>0. PICK u : u = (a \o <<o>>) \o b
  OBVIOUS
<1>1. Len(a) \in Nat /\ Len(b) \in Nat
  BY LenProperties
<1>2. PICK c : c = a \o <<o>>
  OBVIOUS
<1>3. c = Append(a, o)
  BY <1>2, SeqDef
<1>4. c \in Seq(Observations) /\ Len(c) = Len(a) + 1 /\ c[Len(a) + 1] = o
      /\ \A i \in 1 .. Len(a) : c[i] = a[i]
  BY <1>3, AppendProperties
<1>5. u = c \o b
  BY <1>0, <1>2
<1>6. u \in Seq(Observations) /\ Len(u) = Len(c) + Len(b)
  BY <1>4, <1>5, ConcatProperties
<1>7. \A i \in 1 .. Len(c) + Len(b) : u[i] = IF i <= Len(c) THEN c[i] ELSE b[i - Len(c)]
  BY <1>4, <1>5, ConcatProperties
<1>8. \A i \in 1 .. Len(a) : i \in 1 .. Len(c) + Len(b) /\ i <= Len(c)
  BY <1>1, <1>4
<1>9. Len(a) + 1 \in 1 .. Len(c) + Len(b) /\ Len(a) + 1 <= Len(c)
  BY <1>1, <1>4
<1>10. \A i \in 1 .. Len(b) : /\ Len(a) + 1 + i \in 1 .. Len(c) + Len(b)
                              /\ ~(Len(a) + 1 + i <= Len(c)) /\ (Len(a) + 1 + i) - Len(c) = i
  BY <1>1, <1>4
<1>11. \A i \in 1 .. Len(a) : u[i] = a[i]
  BY <1>4, <1>7, <1>8
<1>12. u[Len(a) + 1] = o
  BY <1>4, <1>7, <1>9
<1>13. \A i \in 1 .. Len(b) : u[Len(a) + 1 + i] = b[i]
  BY <1>7, <1>10
<1>14. Len(u) = Len(a) + 1 + Len(b)
  BY <1>4, <1>6
<1> QED BY <1>0, <1>6, <1>11, <1>12, <1>13, <1>14 DEF Between

(* u is s with o after its first n samples.                                *)
InsertedAfter(u, s, n, o) ==
    /\ u \in Seq(Observations) /\ Len(u) = Len(s) + 1
    /\ \A i \in 1 .. n : u[i] = s[i]
    /\ u[n + 1] = o
    /\ \A i \in n + 2 .. Len(s) + 1 : u[i] = s[i - 1]

(* InsertAt puts the sample after the first n.                             *)
LEMMA Inserted ==
    ASSUME NEW s \in Seq(Observations), NEW o \in Observations, NEW n \in 0 .. Len(s)
    PROVE  InsertedAfter(InsertAt(s, n + 1, o), s, n, o)
<1>0. PICK u : u = InsertAt(s, n + 1, o)
  OBVIOUS
<1>1. Len(s) \in Nat
  BY LenProperties
<1>2. PICK a : a = SubSeq(s, 1, n)
  OBVIOUS
<1>3. PICK b : b = SubSeq(s, n + 1, Len(s))
  OBVIOUS
<1>4. a \in Seq(Observations) /\ Len(a) = n /\ \A i \in 1 .. n : a[i] = s[i]
  BY <1>2, PrefixFacts
<1>5. Suffix(b, s) /\ Len(b) = Len(s) - n
  BY <1>3, TailIsSuffix
<1>6. b \in Seq(Observations) /\ \A i \in 1 .. Len(b) : b[i] = s[n + i]
  BY <1>1, <1>5 DEF Suffix
<1>7. (n + 1) - 1 = n
  OBVIOUS
<1>8. u = (a \o <<o>>) \o b
  BY <1>0, <1>2, <1>3, <1>7 DEF InsertAt
<1>9. /\ u \in Seq(Observations) /\ Len(u) = Len(a) + 1 + Len(b)
      /\ \A i \in 1 .. Len(a) : u[i] = a[i]
      /\ u[Len(a) + 1] = o
      /\ \A i \in 1 .. Len(b) : u[Len(a) + 1 + i] = b[i]
  <2>1. Between((a \o <<o>>) \o b, a, o, b)
    BY <1>4, <1>6, ThreeParts
  <2>2. Between(u, a, o, b)
    BY <1>8, <2>1
  <2> QED BY <2>2 DEF Between
<1>10. Len(u) = Len(s) + 1
  BY <1>1, <1>4, <1>5, <1>9
<1>11. \A i \in 1 .. n : u[i] = s[i]
  BY <1>4, <1>9
<1>12. u[n + 1] = o
  BY <1>4, <1>9
<1>13. \A i \in n + 2 .. Len(s) + 1 : u[i] = s[i - 1]
  <2>1. \A i \in n + 2 .. Len(s) + 1 : i - (n + 1) \in 1 .. Len(b) /\ n + 1 + (i - (n + 1)) = i /\ n + (i - (n + 1)) = i - 1
    BY <1>1, <1>5
  <2> SUFFICES ASSUME NEW i \in n + 2 .. Len(s) + 1 PROVE u[i] = s[i - 1]
    OBVIOUS
  <2>2. u[n + 1 + (i - (n + 1))] = b[i - (n + 1)]
    BY <1>4, <1>9, <2>1
  <2>3. b[i - (n + 1)] = s[n + (i - (n + 1))]
    BY <1>6, <2>1
  <2> QED BY <2>1, <2>2, <2>3
<1> QED BY <1>0, <1>9, <1>10, <1>11, <1>12, <1>13 DEF InsertedAfter

(* A new sample inserted after those at most as new leaves them in order.  *)
LEMMA InsertedSamples ==
    ASSUME NEW length, NEW s, GoodSamples(s, length), NEW o \in Observations, GoodSample(o, length),
           o \notin ToSet(s)
    PROVE  GoodSamples(InsertAt(s, Cardinality({i \in DOMAIN s : s[i].at <= o.at}) + 1, o), length)
<1>1. s \in Seq(Observations) /\ Len(s) \in Nat /\ DOMAIN s = 1 .. Len(s)
  BY LenProperties DEF GoodSamples
<1>2. PICK n : n = Cardinality({i \in DOMAIN s : s[i].at <= o.at})
  OBVIOUS
<1>3. o.at \in Int
  BY ObservationFields
<1>4. n \in 0 .. Len(s) /\ \A i \in 1 .. Len(s) : s[i].at <= o.at <=> i <= n
  BY <1>2, <1>3, TakenBy
<1>5. PICK u : u = InsertAt(s, n + 1, o)
  OBVIOUS
<1>6. /\ u \in Seq(Observations) /\ Len(u) = Len(s) + 1
      /\ \A i \in 1 .. n : u[i] = s[i]
      /\ u[n + 1] = o
      /\ \A i \in n + 2 .. Len(s) + 1 : u[i] = s[i - 1]
  <2>1. InsertedAfter(InsertAt(s, n + 1, o), s, n, o)
    BY <1>1, <1>4, Inserted
  <2> QED BY <1>5, <2>1 DEF InsertedAfter
<1>7. DOMAIN u = 1 .. Len(s) + 1
  BY <1>6, LenProperties
<1>8. \A i \in 1 .. n : i \in 1 .. Len(s)
  BY <1>1, <1>4
<1>9. \A i \in n + 2 .. Len(s) + 1 : i - 1 \in 1 .. Len(s) /\ ~(i - 1 <= n)
  BY <1>1, <1>4
<1>10. \A i \in 1 .. Len(s) + 1 : i \in 1 .. n \/ i = n + 1 \/ i \in n + 2 .. Len(s) + 1
  BY <1>1, <1>4
<1>11. \A i \in 1 .. Len(s) : s[i].at \in Int /\ GoodSample(s[i], length)
  BY <1>1, SamplesAt DEF GoodSamples
<1>12. \A i \in 1 .. Len(u) : GoodSample(u[i], length)
  <2> SUFFICES ASSUME NEW i \in 1 .. Len(u) PROVE GoodSample(u[i], length)
    OBVIOUS
  <2>1. CASE i \in 1 .. n
    BY <1>6, <1>8, <1>11, <2>1
  <2>2. CASE i = n + 1
    BY <1>6, <2>2
  <2>3. CASE i \in n + 2 .. Len(s) + 1
    BY <1>6, <1>9, <1>11, <2>3
  <2> QED BY <1>6, <1>10, <2>1, <2>2, <2>3
<1>13. \A k, m \in 1 .. Len(s) : k < m => s[k].at <= s[m].at
  BY <1>1 DEF GoodSamples, Sorted
<1>14. ASSUME NEW i \in DOMAIN u, NEW j \in DOMAIN u, i < j PROVE u[i].at <= u[j].at
  <2>1. CASE j \in 1 .. n
    <3>1. i \in 1 .. n
      BY <1>1, <1>4, <1>7, <1>14, <2>1
    <3>2. u[i] = s[i] /\ u[j] = s[j] /\ i \in 1 .. Len(s) /\ j \in 1 .. Len(s)
      BY <1>6, <1>8, <2>1, <3>1
    <3> QED BY <1>13, <1>14, <3>2
  <2>2. CASE j = n + 1
    <3>1. i \in 1 .. n
      BY <1>4, <1>7, <1>14, <2>2
    <3> QED BY <1>4, <1>6, <1>8, <2>2, <3>1
  <2>3. CASE j \in n + 2 .. Len(s) + 1
    <3>1. u[j] = s[j - 1] /\ j - 1 \in 1 .. Len(s) /\ ~(s[j - 1].at <= o.at)
      BY <1>4, <1>6, <1>9, <2>3
    <3>2. CASE i \in 1 .. n
      <4>1. u[i] = s[i] /\ i \in 1 .. Len(s) /\ i < j - 1
        BY <1>4, <1>6, <1>8, <2>3, <3>2
      <4> QED BY <1>13, <3>1, <4>1
    <3>3. CASE i = n + 1
      <4>1. u[i] = o
        BY <1>6, <3>3
      <4>2. s[j - 1].at \in Int
        BY <1>11, <3>1
      <4> QED BY <1>3, <3>1, <4>1, <4>2
    <3>4. CASE i \in n + 2 .. Len(s) + 1
      <4>1. u[i] = s[i - 1] /\ i - 1 \in 1 .. Len(s) /\ i - 1 < j - 1
        BY <1>1, <1>4, <1>6, <1>9, <1>14, <2>3, <3>4
      <4> QED BY <1>13, <3>1, <4>1
    <3> QED BY <1>7, <1>10, <3>2, <3>3, <3>4
  <2> QED BY <1>7, <1>10, <2>1, <2>2, <2>3
<1>15. Sorted(u)
  BY <1>14 DEF Sorted
<1>16. \A i \in 1 .. Len(s) : s[i] # o
  BY <1>1 DEF ToSet
<1>17. \A k, m \in 1 .. Len(s) : s[k] = s[m] => k = m
  BY <1>1 DEF GoodSamples, IsInjective
<1>18. ASSUME NEW i \in DOMAIN u, i # n + 1
       PROVE  \E k \in 1 .. Len(s) : u[i] = s[k] /\ i = IF k <= n THEN k ELSE k + 1
  <2>1. CASE i \in 1 .. n
    BY <1>6, <1>8, <2>1
  <2>2. CASE i \in n + 2 .. Len(s) + 1
    <3>1. u[i] = s[i - 1] /\ i - 1 \in 1 .. Len(s) /\ ~(i - 1 <= n) /\ i = (i - 1) + 1
      BY <1>6, <1>9, <2>2
    <3> QED BY <3>1
  <2> QED BY <1>7, <1>10, <1>18, <2>1, <2>2
<1>19. ASSUME NEW i \in DOMAIN u, NEW j \in DOMAIN u, u[i] = u[j] PROVE i = j
  <2>1. CASE i = n + 1
    BY <1>6, <1>16, <1>18, <1>19, <2>1
  <2>2. CASE j = n + 1
    BY <1>6, <1>16, <1>18, <1>19, <2>2
  <2>3. CASE i # n + 1 /\ j # n + 1
    BY <1>17, <1>18, <1>19, <2>3
  <2> QED BY <2>1, <2>2, <2>3
<1>20. GoodSamples(u, length)
  BY <1>6, <1>12, <1>15, <1>19 DEF GoodSamples, IsInjective
<1> QED BY <1>2, <1>5, <1>20

(* A period, two of whose fields change.                                   *)
LEMMA Resetting ==
    ASSUME NEW p \in Periods, NEW others, NEW baseline,
           NEW q, q = [p EXCEPT !.samples = others, !.since = baseline]
    PROVE  q = [start |-> p.start, end |-> p.end, since |-> baseline, samples |-> others,
                byReset |-> p.byReset, estimated |-> p.estimated]
<1>1. p = [start |-> p.start, end |-> p.end, since |-> p.since, samples |-> p.samples,
           byReset |-> p.byReset, estimated |-> p.estimated]
  BY PeriodFields
<1>2. DOMAIN q = {"start", "end", "since", "samples", "byReset", "estimated"}
  BY <1>1
<1>3. /\ q.start = p.start /\ q.end = p.end /\ q.since = baseline /\ q.samples = others
      /\ q.byReset = p.byReset /\ q.estimated = p.estimated
  BY <1>1
<1>4. q = [x \in DOMAIN q |-> q[x]]
  BY <1>1
<1> QED BY <1>2, <1>3, <1>4

(* A sample that a period takes (quotaAppendSample) leaves the period good *)
(* and where it was.                                                       *)
LEMMA InsertGood ==
    ASSUME NEW length, NEW p, GoodPeriod(p, length), NEW o \in Observations, GoodSample(o, length),
           ~Has(p, o), NEW since \in Int
    PROVE  GoodPeriod(Insert(p, o, since), length) /\ Resampled(p, Insert(p, o, since))
<1> DEFINE n == Cardinality({i \in DOMAIN p.samples : p.samples[i].at <= o.at})
           baseline == IF p.since = 0 \/ (o.at >= since /\ since > p.since) THEN since ELSE p.since
           samples == InsertAt(p.samples, n + 1, o)
           q == [p EXCEPT !.samples = samples, !.since = baseline]
<1>1. Insert(p, o, since) = Compact(q)
  BY DEF Insert
<1>2. GoodSamples(samples, length)
  BY InsertedSamples DEF GoodPeriod, Has
<1>3. baseline \in Int
  BY PeriodFields DEF GoodPeriod
<1> HIDE DEF samples, baseline
<1>4. q = [start |-> p.start, end |-> p.end, since |-> baseline, samples |-> samples,
           byReset |-> p.byReset, estimated |-> p.estimated]
  BY Resetting DEF GoodPeriod
<1> HIDE DEF q
<1>5. GoodPeriod(q, length) /\ Resampled(p, q)
  BY <1>2, <1>3, <1>4, ResampledGood
<1>6. GoodPeriod(Compact(q), length) /\ Resampled(q, Compact(q))
  BY <1>5, CompactGood
<1> QED BY <1>1, <1>5, <1>6 DEF Resampled

(* The same where the period may have the sample already.                  *)
LEMMA WithGood ==
    ASSUME NEW length, NEW p, GoodPeriod(p, length), NEW o \in Observations, GoodSample(o, length),
           NEW since \in Int
    PROVE  GoodPeriod(With(p, o, since), length) /\ Resampled(p, With(p, o, since))
BY InsertGood DEF With, Resampled

(* The same for the samples of another period, by induction over their     *)
(* number.                                                                 *)
LEMMA WithAllGood ==
    ASSUME NEW length, NEW p, GoodPeriod(p, length), NEW s, GoodSamples(s, length), NEW since \in Int
    PROVE  GoodPeriod(WithAll(p, s, since), length) /\ Resampled(p, WithAll(p, s, since))
<1> DEFINE N == Len(s)
           f == CHOOSE f : f = [n \in 0 .. N |-> IF n = 0 THEN p ELSE With(f[n - 1], s[n], since)]
           D == {q \in Periods : GoodPeriod(q, length) /\ Resampled(p, q)}
           F == [e \in D \X (1 .. N) |-> With(e[1], s[e[2]], since)]
<1>1. WithAll(p, s, since) = f[N]
  BY DEF WithAll
<1>2. s \in Seq(Observations) /\ N \in Nat
  BY LenProperties DEF GoodSamples
<1>3. \A n \in 1 .. N : s[n] \in Observations /\ GoodSample(s[n], length)
  BY <1>2, ElementOfSeq DEF GoodSamples
<1>4. \A x \in D, n \in 1 .. N : With(x, s[n], since) \in D
  <2> SUFFICES ASSUME NEW x \in D, NEW n \in 1 .. N PROVE With(x, s[n], since) \in D
    OBVIOUS
  <2>1. GoodPeriod(With(x, s[n], since), length) /\ Resampled(x, With(x, s[n], since))
    BY <1>3, WithGood
  <2> QED BY <2>1 DEF GoodPeriod, Resampled
<1>5. p \in D
  BY DEF GoodPeriod, Resampled
<1> HIDE DEF D, N
<1>6. F \in [D \X (1 .. N) -> D]
  BY <1>4
<1>7. \A x \in D, n \in 1 .. N : F[<<x, n>>] = With(x, s[n], since)
  OBVIOUS
<1> HIDE DEF F
<1>8. PICK g \in [0 .. N -> D] : RoundsOf(g, p, N, F)
  BY <1>2, <1>5, <1>6, RoundsExist
<1>9. \A n \in 1 .. N : g[n] = With(g[n - 1], s[n], since)
  <2>1. \A n \in 1 .. N : n - 1 \in 0 .. N
    BY <1>2
  <2> QED BY <1>7, <1>8, <2>1 DEF RoundsOf
<1>10. g = [n \in 0 .. N |-> IF n = 0 THEN p ELSE With(g[n - 1], s[n], since)]
  <2>1. g = [n \in 0 .. N |-> g[n]]
    OBVIOUS
  <2>2. \A n \in 0 .. N : n # 0 => n \in 1 .. N
    BY <1>2
  <2> QED BY <1>8, <1>9, <2>1, <2>2 DEF RoundsOf
<1>11. f = [n \in 0 .. N |-> IF n = 0 THEN p ELSE With(f[n - 1], s[n], since)]
  BY <1>10
<1> HIDE DEF f
<1>12. f[0] = p
  BY <1>2, <1>11
<1>13. ASSUME NEW n \in 1 .. N PROVE f[n] = With(f[n - 1], s[n], since)
  <2>1. n \in 0 .. N /\ n # 0
    BY <1>2
  <2> QED BY <1>11, <2>1
<1> DEFINE T == {n \in Nat : f[n] \in D}
<1>14. 0 \in T
  BY <1>5, <1>12
<1>15. \A n \in 0 .. N - 1 : n \in T => n + 1 \in T
  <2> SUFFICES ASSUME NEW n \in 0 .. N - 1, n \in T PROVE n + 1 \in T
    OBVIOUS
  <2>1. n + 1 \in 1 .. N /\ (n + 1) - 1 = n /\ n + 1 \in Nat
    BY <1>2
  <2>2. f[n + 1] = With(f[n], s[n + 1], since)
    BY <1>13, <2>1
  <2>3. f[n] \in D
    OBVIOUS
  <2> QED BY <1>4, <2>1, <2>2, <2>3
<1> HIDE DEF T
<1>16. \A n \in 0 .. N : n \in T
  BY <1>2, <1>14, <1>15, RoundInduction
<1>17. f[N] \in D
  BY <1>2, <1>16 DEF T
<1> QED BY <1>1, <1>17 DEF D

-----------------------------------------------------------------------------
(* What is shown of a period: one segment.                                 *)

(* What a search over these samples may have found.                        *)
Findings(s) == [peak : 0 .. Len(s), drop : 0 .. Len(s), top : 0 .. Len(s)]

(* f is the search, sample by sample.                                      *)
Search(f, s, end) ==
    /\ f[0] = [peak |-> 0, drop |-> 0, top |-> 0]
    /\ \A n \in 1 .. Len(s) : f[n] = Looked(s, end, f[n - 1], n)
    /\ \A n \in 0 .. Len(s) : f[n] \in Findings(s)

(* The search for a drop names samples of the period.                      *)
LEMMA LookedBounded ==
    ASSUME NEW s, NEW end, Len(s) \in Nat, NEW i \in 1 .. Len(s), NEW found \in Findings(s)
    PROVE  Looked(s, end, found, i) \in Findings(s)
<1>1. i \in 0 .. Len(s) /\ found.top \in 0 .. Len(s)
  BY DEF Findings
<1>2. [peak |-> found.top, drop |-> i, top |-> i] \in Findings(s)
  BY <1>1 DEF Findings
<1>3. [found EXCEPT !.top = i] \in Findings(s)
  BY <1>1 DEF Findings
<1> QED BY <1>2, <1>3 DEF Looked

(* The search that Look defines, by induction over the samples looked at.  *)
LEMMA LookSearches ==
    ASSUME NEW s \in Seq(Observations), NEW end
    PROVE  Search(Look(s, end), s, end)
<1> DEFINE N == Len(s)
           o == [peak |-> 0, drop |-> 0, top |-> 0]
           f == CHOOSE f : f = [n \in 0 .. N |-> IF n = 0 THEN [peak |-> 0, drop |-> 0, top |-> 0]
                                                 ELSE Looked(s, end, f[n - 1], n)]
           D == Findings(s)
           F == [e \in D \X (1 .. N) |-> Looked(s, end, e[1], e[2])]
<1>1. Look(s, end) = f
  BY DEF Look
<1>2. N \in Nat
  BY LenProperties
<1>3. \A x \in D, n \in 1 .. N : Looked(s, end, x, n) \in D
  BY <1>2, LookedBounded
<1>4. o \in D
  <2>1. 0 \in 0 .. N
    BY <1>2
  <2> QED BY <2>1 DEF Findings
<1> HIDE DEF D, N
<1>6. F \in [D \X (1 .. N) -> D]
  BY <1>3
<1>7. \A x \in D, n \in 1 .. N : F[<<x, n>>] = Looked(s, end, x, n)
  OBVIOUS
<1> HIDE DEF F, o
<1>8. PICK g \in [0 .. N -> D] : RoundsOf(g, o, N, F)
  BY <1>2, <1>4, <1>6, RoundsExist
<1>9. \A n \in 1 .. N : g[n] = Looked(s, end, g[n - 1], n)
  <2>1. \A n \in 1 .. N : n - 1 \in 0 .. N
    BY <1>2
  <2> QED BY <1>7, <1>8, <2>1 DEF RoundsOf
<1>10. g = [n \in 0 .. N |-> IF n = 0 THEN [peak |-> 0, drop |-> 0, top |-> 0]
                             ELSE Looked(s, end, g[n - 1], n)]
  <2>1. g = [n \in 0 .. N |-> g[n]]
    OBVIOUS
  <2>2. \A n \in 0 .. N : n # 0 => n \in 1 .. N
    BY <1>2
  <2>3. g[0] = [peak |-> 0, drop |-> 0, top |-> 0]
    BY <1>8 DEF RoundsOf, o
  <2> QED BY <1>9, <2>1, <2>2, <2>3
<1>11. f = [n \in 0 .. N |-> IF n = 0 THEN [peak |-> 0, drop |-> 0, top |-> 0]
                             ELSE Looked(s, end, f[n - 1], n)]
  BY <1>10
<1> HIDE DEF f
<1>12. f[0] = o
  BY <1>2, <1>11 DEF o
<1>13. ASSUME NEW n \in 1 .. N PROVE f[n] = Looked(s, end, f[n - 1], n)
  <2>1. n \in 0 .. N /\ n # 0
    BY <1>2
  <2> QED BY <1>11, <2>1
<1>14. \A n \in 1 .. N : f[n - 1] \in D => f[n] \in D
  BY <1>3, <1>13
<1>15. \A n \in 0 .. N : f[n] \in D
  BY <1>2, <1>4, <1>12, <1>14, RoundsKeep
<1> QED BY <1>1, <1>12, <1>13, <1>15 DEF N, D, o, Search

(* A drop is at a sample of the period.                                    *)
LEMMA DropBounded ==
    ASSUME NEW s \in Seq(Observations), NEW end
    PROVE  LatestReset(s, end).drop \in 0 .. Len(s)
<1>1. Len(s) \in Nat /\ Search(Look(s, end), s, end)
  BY LenProperties, LookSearches
<1>2. LatestReset(s, end) \in Findings(s)
  BY <1>1 DEF Search, LatestReset
<1> QED BY <1>2 DEF Findings

(* A reset card is before the sample whose deadline is compared with.      *)
LEMMA CardBounded ==
    ASSUME NEW s \in Seq(Observations), NEW span \in Int, NEW end \in Int
    PROVE  /\ PreReset(s, span, end) \in 0 .. Len(s)
           /\ Len(s) > 0 /\ s[Len(s)].reset = end => PreReset(s, span, end) < Len(s)
<1> DEFINE M == {i \in DOMAIN s : LET d == end - s[i].reset IN d > QMinute /\ 24 * d > span}
<1>1. Len(s) \in Nat /\ DOMAIN s = 1 .. Len(s)
  BY LenProperties
<1>2. M \subseteq 0 .. Len(s) /\ M \subseteq 1 .. Len(s)
  BY <1>1
<1>3. PreReset(s, span, end) = IF M = {} THEN 0 ELSE CHOOSE i \in M : \A j \in M : j <= i
  BY DEF PreReset
<1>4. \A i \in M : s[i].reset = end => FALSE
  BY QuotaLimitsAssumption
<1> HIDE DEF M
<1>5. CASE M = {}
  BY <1>1, <1>3, <1>5
<1>6. CASE M # {}
  <2>1. \E g \in M : \A h \in M : h <= g
    BY <1>1, <1>2, <1>6, GreatestElement
  <2>2. PreReset(s, span, end) \in M
    BY <1>3, <1>6, <2>1
  <2>3. PreReset(s, span, end) \in 1 .. Len(s)
    BY <1>2, <2>2
  <2> QED BY <1>1, <1>4, <2>2, <2>3
<1> QED BY <1>5, <1>6

Segments == [start : Int, samples : Seq(Observations), reset : BOOLEAN, estimated : BOOLEAN]

(* A part of these samples that lasts to their end.                        *)
PartOf(q, s) == q \in Segments /\ Suffix(q.samples, s)

(* A segment is made of its fields.                                        *)
LEMMA SegmentType ==
    ASSUME NEW start \in Int, NEW samples \in Seq(Observations), NEW reset \in BOOLEAN, NEW estimated \in BOOLEAN,
           NEW q, q = [start |-> start, samples |-> samples, reset |-> reset, estimated |-> estimated]
    PROVE  q \in Segments
BY DEF Segments

(* What is left of a period after a reset card is the end of its samples.  *)
LEMMA CardedPart ==
    ASSUME NEW s \in Seq(Observations), NEW whole, PartOf(whole, s), whole.samples = s,
           NEW start \in Int, NEW before \in 0 .. Len(s), NEW earlier,
           before # 0 => PartOf(earlier, SubSeq(s, 1, before))
    PROVE  PartOf(Carded(whole, before, earlier, SubSeq(s, before + 1, Len(s)), start), s)
<1> DEFINE after == SubSeq(s, before + 1, Len(s))
           guessed == start < whole.samples[before].at \/ start > after[1].at
           first == [start |-> IF guessed THEN after[1].at ELSE start, samples |-> after,
                     reset |-> TRUE, estimated |-> whole.estimated \/ guessed]
           joined == [earlier EXCEPT !.samples = @ \o after]
<1>1. Carded(whole, before, earlier, after, start) =
        IF before = 0 \/ after = <<>> THEN whole
        ELSE IF Consumed(earlier.samples) THEN first
        ELSE IF earlier.reset THEN joined
        ELSE whole
  BY DEF Carded
<1>2. Suffix(after, s)
  BY TailIsSuffix
<1>3. ASSUME before # 0, after # <<>> PROVE PartOf(first, s)
  <2>1. after \in Seq(Observations)
    BY <1>2 DEF Suffix
  <2>2. after[1].at \in Int
    <3> HIDE DEF after
    <3>1. Len(after) \in Nat /\ Len(after) # 0
      BY <1>3, <2>1, LenProperties, EmptySeq
    <3>2. 1 \in 1 .. Len(after)
      BY <3>1
    <3> QED BY <2>1, <3>2, SamplesAt
  <2>3. whole.estimated \in BOOLEAN
    BY DEF PartOf, Segments
  <2>4. PICK g \in BOOLEAN : g = guessed
    OBVIOUS
  <2>5. PICK b \in Int : b = IF guessed THEN after[1].at ELSE start
    BY <2>2
  <2>6. PICK e \in BOOLEAN : e = (whole.estimated \/ guessed)
    BY <2>3
  <2>7. first = [start |-> b, samples |-> after, reset |-> TRUE, estimated |-> e]
    BY <2>5, <2>6
  <2> HIDE DEF first, after, guessed
  <2>8. first \in Segments
    BY <2>1, <2>7, SegmentType
  <2>9. first.samples = after
    BY <2>7
  <2> QED BY <1>2, <2>8, <2>9 DEF PartOf
<1>4. ASSUME before # 0 PROVE PartOf(joined, s)
  <2>1. PartOf(earlier, SubSeq(s, 1, before))
    BY <1>4
  <2>2. Suffix(earlier.samples \o after, s)
    BY <2>1, SuffixJoined DEF PartOf
  <2>3. earlier \in Segments
    BY <2>1 DEF PartOf
  <2> HIDE DEF after
  <2>4. joined \in Segments /\ joined.samples = earlier.samples \o after
    BY <2>2, <2>3 DEF Segments, Suffix
  <2> QED BY <2>2, <2>4 DEF PartOf
<1> QED BY <1>1, <1>3, <1>4

(* What is left of it after a drop is, too.                                *)
LEMMA DroppedPart ==
    ASSUME NEW s \in Seq(Observations), NEW q, PartOf(q, s), NEW end
    PROVE  PartOf(AfterDrop(q, end), s)
<1> DEFINE d == LatestReset(q.samples, end).drop
           r == [start |-> q.samples[d].at, reset |-> TRUE, estimated |-> TRUE,
                 samples |-> SubSeq(q.samples, d, Len(q.samples))]
<1>1. AfterDrop(q, end) = IF d = 0 THEN q ELSE r
  BY DEF AfterDrop, Dropped
<1>2. q.samples \in Seq(Observations) /\ Suffix(q.samples, s)
  BY DEF PartOf, Suffix
<1>3. d \in 0 .. Len(q.samples) /\ Len(q.samples) \in Nat
  BY <1>2, DropBounded, LenProperties
<1> HIDE DEF d
<1>4. ASSUME d # 0 PROVE PartOf(r, s)
  <2>1. d \in 1 .. Len(q.samples) /\ d - 1 \in 0 .. Len(q.samples) /\ (d - 1) + 1 = d
    BY <1>3, <1>4
  <2>2. PICK t : t = SubSeq(q.samples, d, Len(q.samples))
    OBVIOUS
  <2>3. Suffix(SubSeq(q.samples, (d - 1) + 1, Len(q.samples)), q.samples)
    BY <1>2, <2>1, TailIsSuffix
  <2>4. Suffix(t, q.samples)
    BY <2>1, <2>2, <2>3
  <2>5. Suffix(t, s)
    BY <1>2, <2>4, SuffixOn
  <2>6. PICK b \in Int : b = q.samples[d].at
    BY <1>2, <2>1, SamplesAt
  <2>7. r = [start |-> b, samples |-> t, reset |-> TRUE, estimated |-> TRUE]
    BY <2>2, <2>6
  <2> HIDE DEF r
  <2>8. t \in Seq(Observations)
    BY <2>4 DEF Suffix
  <2>9. r \in Segments
    BY <2>7, <2>8, SegmentType
  <2>10. r.samples = t
    BY <2>7
  <2> QED BY <2>5, <2>9, <2>10 DEF PartOf
<1> QED BY <1>1, <1>4

(* Both together, if the segment before the card is the end of what came   *)
(* before the card.                                                        *)
LEMMA SegmentPart ==
    ASSUME NEW s \in Seq(Observations), NEW start \in Int, NEW end \in Int, NEW span \in Int,
           NEW estimated \in BOOLEAN, NEW prior,
           PreReset(s, span, end) # 0
             => PartOf(prior[PreReset(s, span, end)], SubSeq(s, 1, PreReset(s, span, end)))
    PROVE  PartOf(Segment(s, start, end, span, estimated, prior), s)
<1>1. PICK before \in 0 .. Len(s) : before = PreReset(s, span, end)
  BY CardBounded
<1>2. PICK whole : whole = [start |-> start, samples |-> s, reset |-> FALSE, estimated |-> estimated]
  OBVIOUS
<1>3. whole \in Segments
  BY <1>2, SegmentType
<1>4. whole.samples = s
  BY <1>2
<1>5. PartOf(whole, s)
  BY <1>3, <1>4, SuffixItself DEF PartOf
<1>6. PICK earlier : earlier = prior[before]
  OBVIOUS
<1>7. before # 0 => PartOf(earlier, SubSeq(s, 1, before))
  BY <1>1, <1>6
<1>8. PICK c : c = Carded(whole, before, earlier, SubSeq(s, before + 1, Len(s)), start)
  OBVIOUS
<1>9. PartOf(c, s)
  BY <1>4, <1>5, <1>7, <1>8, CardedPart
<1>10. Segment(s, start, end, span, estimated, prior) = AfterDrop(c, end)
  BY <1>1, <1>2, <1>6, <1>8 DEF Segment
<1> QED BY <1>9, <1>10, DroppedPart

-----------------------------------------------------------------------------
(* What is shown of a period: the recursion over its samples.              *)

(* The first samples of the first samples.                                 *)
LEMMA PrefixOfPrefix ==
    ASSUME NEW s \in Seq(Observations), NEW k \in 0 .. Len(s), NEW b \in 0 .. k
    PROVE  SubSeq(SubSeq(s, 1, k), 1, b) = SubSeq(s, 1, b)
<1> DEFINE t == SubSeq(s, 1, k)
           u == SubSeq(t, 1, b)
           v == SubSeq(s, 1, b)
<1>1. Len(s) \in Nat /\ b \in 0 .. Len(s)
  BY LenProperties
<1>2. t \in Seq(Observations) /\ Len(t) = k /\ \A i \in 1 .. k : t[i] = s[i]
  BY PrefixFacts
<1>3. v \in Seq(Observations) /\ Len(v) = b /\ \A i \in 1 .. b : v[i] = s[i]
  BY <1>1, PrefixFacts
<1> HIDE DEF t, v
<1>4. u \in Seq(Observations) /\ Len(u) = b /\ \A i \in 1 .. b : u[i] = t[i]
  BY <1>2, PrefixFacts
<1> HIDE DEF u
<1>5. \A i \in 1 .. b : u[i] = v[i]
  BY <1>2, <1>3, <1>4
<1>6. u = [i \in 1 .. b |-> u[i]] /\ v = [i \in 1 .. b |-> v[i]]
  BY <1>3, <1>4, SeqDef, LenProperties
<1>7. u = v
  BY <1>5, <1>6
<1> QED BY <1>7 DEF u, v, t

(* A segment depends on the earlier ones only by the one before its reset  *)
(* card.                                                                   *)
LEMMA SegmentDepends ==
    ASSUME NEW s, NEW start, NEW end, NEW span, NEW estimated, NEW g, NEW h,
           PreReset(s, span, end) # 0 => g[PreReset(s, span, end)] = h[PreReset(s, span, end)]
    PROVE  Segment(s, start, end, span, estimated, g) = Segment(s, start, end, span, estimated, h)
<1>1. PICK before : before = PreReset(s, span, end)
  OBVIOUS
<1>2. CASE before = 0
  <2>1. \A whole, earlier, after : Carded(whole, 0, earlier, after, start) = whole
    BY DEF Carded
  <2> QED BY <1>1, <1>2, <2>1, Zenon DEF Segment
<1>3. CASE before # 0
  <2>1. g[before] = h[before]
    BY <1>1, <1>3
  <2> QED BY <1>1, <2>1, Zenon DEF Segment
<1> QED BY <1>2, <1>3

(* The segments of the first n samples, each found from the one before its *)
(* reset card.                                                             *)
SegmentOf(s, span, n, prior) ==
    Segment(SubSeq(s, 1, n), s[n].reset - span, s[n].reset, span, FALSE, prior)

CardOf(s, span, n) == PreReset(SubSeq(s, 1, n), span, s[n].reset)

(* A reset card of the first n samples is before the last of them.         *)
LEMMA CardEarlier ==
    ASSUME NEW s \in Seq(Observations), NEW span \in Int, NEW n \in 1 .. Len(s)
    PROVE  CardOf(s, span, n) \in 0 .. n - 1
<1>1. Len(s) \in Nat /\ n \in 0 .. Len(s) /\ n \in Nat /\ n > 0
  BY LenProperties
<1>2. PICK t : t = SubSeq(s, 1, n)
  OBVIOUS
<1>3. t \in Seq(Observations) /\ Len(t) = n /\ t[n] = s[n]
  BY <1>1, <1>2, PrefixFacts
<1>4. PICK end \in Int : end = s[n].reset
  BY SamplesAt
<1>5. PreReset(t, span, end) \in 0 .. Len(t) /\ PreReset(t, span, end) < Len(t)
  BY <1>1, <1>3, <1>4, CardBounded
<1>6. CardOf(s, span, n) = PreReset(t, span, end)
  BY <1>2, <1>4 DEF CardOf
<1> QED BY <1>1, <1>3, <1>5, <1>6

SegmentsOf(f, s, span) == f = [n \in 1 .. Len(s) |-> SegmentOf(s, span, n, f)]

(* There are such segments: the recursion ends, since a card is earlier.   *)
LEMMA SegmentsExist ==
    ASSUME NEW s \in Seq(Observations), NEW span \in Int
    PROVE  \E f : SegmentsOf(f, s, span)
<1> DEFINE N == Len(s)
           T == {m \in Nat : \E g : /\ g = [n \in 1 .. N |-> g[n]]
                                    /\ \A n \in 1 .. N : n <= m => g[n] = SegmentOf(s, span, n, g)}
<1>1. N \in Nat
  BY LenProperties
<1>2. \A n \in 1 .. N : CardOf(s, span, n) \in 0 .. n - 1
  BY CardEarlier
<1>3. ASSUME NEW n \in 1 .. N, NEW g, NEW h, \A i \in 1 .. n - 1 : g[i] = h[i]
      PROVE  SegmentOf(s, span, n, g) = SegmentOf(s, span, n, h)
  <2>1. CardOf(s, span, n) # 0 => g[CardOf(s, span, n)] = h[CardOf(s, span, n)]
    BY <1>2, <1>3
  <2>2. PICK t, start, end : t = SubSeq(s, 1, n) /\ start = s[n].reset - span /\ end = s[n].reset
    OBVIOUS
  <2>3. PreReset(t, span, end) # 0 => g[PreReset(t, span, end)] = h[PreReset(t, span, end)]
    BY <2>1, <2>2 DEF CardOf
  <2>4. Segment(t, start, end, span, FALSE, g) = Segment(t, start, end, span, FALSE, h)
    BY <2>3, SegmentDepends, Zenon
  <2> QED BY <2>2, <2>4, Zenon DEF SegmentOf
<1> HIDE DEF N
<1>4. 0 \in T
  <2> DEFINE g == [n \in 1 .. N |-> 0]
  <2>1. g = [n \in 1 .. N |-> g[n]]
    OBVIOUS
  <2>2. \A n \in 1 .. N : n <= 0 => g[n] = SegmentOf(s, span, n, g)
    BY <1>1
  <2>3. \E h : /\ h = [n \in 1 .. N |-> h[n]]
                /\ \A n \in 1 .. N : n <= 0 => h[n] = SegmentOf(s, span, n, h)
    <3> HIDE DEF g
    <3> QED BY <2>1, <2>2, Zenon
  <2> QED BY <2>3
<1>5. ASSUME NEW m \in 0 .. N - 1, m \in T PROVE m + 1 \in T
  <2>1. PICK g : /\ g = [n \in 1 .. N |-> g[n]]
                 /\ \A n \in 1 .. N : n <= m => g[n] = SegmentOf(s, span, n, g)
    BY <1>5
  <2>2. PICK x : x = SegmentOf(s, span, m + 1, g)
    OBVIOUS
  <2> DEFINE h == [n \in 1 .. N |-> IF n = m + 1 THEN x ELSE g[n]]
  <2>3. h = [n \in 1 .. N |-> h[n]]
    OBVIOUS
  <2>4. \A n \in 1 .. N : h[n] = IF n = m + 1 THEN x ELSE g[n]
    OBVIOUS
  <2> HIDE DEF h
  <2>5. ASSUME NEW n \in 1 .. N, n <= m + 1 PROVE h[n] = SegmentOf(s, span, n, h)
    <3>1. \A i \in 1 .. n - 1 : i \in 1 .. N /\ i # m + 1
      BY <1>1, <2>5
    <3>2. \A i \in 1 .. n - 1 : g[i] = h[i]
      BY <2>4, <3>1
    <3>3. SegmentOf(s, span, n, g) = SegmentOf(s, span, n, h)
      BY <1>3, <3>2
    <3>4. CASE n = m + 1
      BY <2>2, <2>4, <3>3, <3>4
    <3>5. CASE n # m + 1
      <4>1. n <= m
        BY <1>1, <2>5, <3>5
      <4> QED BY <2>1, <2>4, <3>3, <3>5, <4>1
    <3> QED BY <3>4, <3>5
  <2>6. m + 1 \in Nat
    OBVIOUS
  <2> QED BY <2>3, <2>5, <2>6
<1> HIDE DEF T
<1>6. \A n \in 0 .. N : n \in T
  BY <1>1, <1>4, <1>5, RoundInduction
<1>7. N \in T
  BY <1>1, <1>6
<1>8. PICK g : /\ g = [n \in 1 .. N |-> g[n]]
               /\ \A n \in 1 .. N : n <= N => g[n] = SegmentOf(s, span, n, g)
  BY <1>7 DEF T
<1>9. \A n \in 1 .. N : g[n] = SegmentOf(s, span, n, g)
  BY <1>1, <1>8
<1>10. g = [n \in 1 .. N |-> SegmentOf(s, span, n, g)]
  BY <1>8, <1>9
<1> QED BY <1>10 DEF SegmentsOf, N

(* Each is the end of its samples, by induction over their number.         *)
LEMMA SegmentsParts ==
    ASSUME NEW s \in Seq(Observations), NEW span \in Int, NEW f, SegmentsOf(f, s, span)
    PROVE  \A n \in 1 .. Len(s) : PartOf(f[n], SubSeq(s, 1, n))
<1> DEFINE N == Len(s)
           T == {m \in Nat : \A n \in 1 .. N : n <= m => PartOf(f[n], SubSeq(s, 1, n))}
<1>1. N \in Nat
  BY LenProperties
<1>2. \A n \in 1 .. N : f[n] = SegmentOf(s, span, n, f)
  BY DEF SegmentsOf
<1>3. ASSUME NEW n \in 1 .. N, \A i \in 1 .. n - 1 : PartOf(f[i], SubSeq(s, 1, i))
      PROVE  PartOf(f[n], SubSeq(s, 1, n))
  <2>1. n \in 0 .. N /\ n \in Nat
    BY <1>1
  <2>2. PICK t : t = SubSeq(s, 1, n)
    OBVIOUS
  <2>3. t \in Seq(Observations)
    BY <2>1, <2>2, PrefixFacts
  <2>4. PICK end \in Int : end = s[n].reset
    BY SamplesAt
  <2>5. PICK b : b = PreReset(t, span, end)
    OBVIOUS
  <2>6. b \in 0 .. n - 1
    BY <2>2, <2>4, <2>5, CardEarlier DEF CardOf
  <2>7. b # 0 => PartOf(f[b], SubSeq(t, 1, b))
    <3> SUFFICES ASSUME b # 0 PROVE PartOf(f[b], SubSeq(t, 1, b))
      OBVIOUS
    <3>1. b \in 1 .. n - 1 /\ b \in 0 .. n
      BY <2>1, <2>6
    <3>2. SubSeq(t, 1, b) = SubSeq(s, 1, b)
      BY <2>1, <2>2, <3>1, PrefixOfPrefix
    <3> QED BY <1>3, <3>1, <3>2
  <2>8. PICK start \in Int : start = end - span
    OBVIOUS
  <2>9. PartOf(Segment(t, start, end, span, FALSE, f), t)
    BY <2>3, <2>5, <2>7, SegmentPart
  <2>10. f[n] = Segment(t, start, end, span, FALSE, f)
    BY <1>2, <2>2, <2>4, <2>8 DEF SegmentOf
  <2> QED BY <2>2, <2>9, <2>10
<1> HIDE DEF N
<1>4. 0 \in T
  <2>1. \A n \in 1 .. N : ~(n <= 0)
    BY <1>1
  <2> QED BY <2>1
<1>5. \A m \in 0 .. N - 1 : m \in T => m + 1 \in T
  <2> SUFFICES ASSUME NEW m \in 0 .. N - 1, m \in T PROVE m + 1 \in T
    OBVIOUS
  <2>1. m + 1 \in Nat /\ m + 1 \in 1 .. N /\ \A i \in 1 .. (m + 1) - 1 : i \in 1 .. N /\ i <= m
    BY <1>1
  <2>2. PartOf(f[m + 1], SubSeq(s, 1, m + 1))
    BY <1>3, <2>1
  <2>3. \A n \in 1 .. N : n <= m + 1 => n <= m \/ n = m + 1
    BY <1>1
  <2> QED BY <2>1, <2>2, <2>3
<1> HIDE DEF T
<1>6. \A n \in 0 .. N : n \in T
  BY <1>1, <1>4, <1>5, RoundInduction
<1>7. N \in T /\ \A n \in 1 .. N : n <= N
  BY <1>1, <1>6
<1> QED BY <1>7 DEF T, N

(* What is shown of a period is the end of its samples.                    *)
LEMMA EffectivePart ==
    ASSUME NEW p \in Periods
    PROVE  PartOf(Effective(p), p.samples)
<1>1. /\ p.start \in Int /\ p.end \in Int /\ p.samples \in Seq(Observations) /\ p.estimated \in BOOLEAN
      /\ Len(p.samples) \in Nat
  BY PeriodFields, LenProperties
<1>2. PICK span \in Int : span = p.end - p.start
  BY <1>1
<1> DEFINE f == CHOOSE f : f = [n \in 1 .. Len(p.samples) |->
                     Segment(SubSeq(p.samples, 1, n), p.samples[n].reset - span, p.samples[n].reset,
                             span, FALSE, f)]
<1>3. Effective(p) = Segment(p.samples, p.start, p.end, span, p.estimated, f)
  BY <1>2 DEF Effective
<1>4. \E g : SegmentsOf(g, p.samples, span)
  BY <1>1, SegmentsExist
<1>5. SegmentsOf(f, p.samples, span)
  BY <1>4 DEF SegmentsOf, SegmentOf
<1> HIDE DEF f
<1>6. \A n \in 1 .. Len(p.samples) : PartOf(f[n], SubSeq(p.samples, 1, n))
  BY <1>1, <1>5, SegmentsParts
<1>7. PreReset(p.samples, span, p.end) \in 0 .. Len(p.samples)
  BY <1>1, CardBounded
<1>8. PreReset(p.samples, span, p.end) # 0
        => PartOf(f[PreReset(p.samples, span, p.end)], SubSeq(p.samples, 1, PreReset(p.samples, span, p.end)))
  BY <1>1, <1>6, <1>7
<1>9. PartOf(Segment(p.samples, p.start, p.end, span, p.estimated, f), p.samples)
  BY <1>1, <1>8, SegmentPart
<1> QED BY <1>3, <1>9

-----------------------------------------------------------------------------
(* What compaction keeps: the search for a drop among the samples kept.    *)

(* Looking at one more sample confirms a drop, raises the top or neither.  *)
LEMMA LookedCases ==
    ASSUME NEW s, NEW end, NEW found \in Findings(s), NEW i \in 1 .. Len(s),
           NEW new, new = Looked(s, end, found, i)
    PROVE  \/ /\ Confirmed(s, end, found.top, i)
              /\ new.peak = found.top /\ new.drop = i /\ new.top = i
           \/ /\ found.top = 0 \/ s[i].used > s[found.top].used
              /\ new.peak = found.peak /\ new.drop = found.drop /\ new.top = i
           \/ /\ found.top # 0 /\ ~(s[i].used > s[found.top].used)
              /\ new = found
<1>1. CASE Confirmed(s, end, found.top, i)
  <2>1. new = [peak |-> found.top, drop |-> i, top |-> i]
    BY <1>1 DEF Looked
  <2> QED BY <1>1, <2>1
<1>2. CASE ~Confirmed(s, end, found.top, i) /\ (found.top = 0 \/ s[i].used > s[found.top].used)
  <2>1. new = [found EXCEPT !.top = i]
    BY <1>2 DEF Looked
  <2>2. new.peak = found.peak /\ new.drop = found.drop /\ new.top = i
    BY <2>1 DEF Findings
  <2> QED BY <1>2, <2>2
<1>3. CASE ~Confirmed(s, end, found.top, i) /\ ~(found.top = 0 \/ s[i].used > s[found.top].used)
  <2>1. new = found
    BY <1>3 DEF Looked
  <2> QED BY <1>3, <2>1
<1> QED BY <1>1, <1>2, <1>3

(* After n samples of a search the top is the highest usage since the      *)
(* latest drop; that drop was found at its sample, from the top before it; *)
(* and drops only move on.                                                 *)
Searched(f, s, end, n) ==
    /\ f[n].drop <= f[n].top /\ f[n].top <= n /\ (n > 0 => f[n].top > 0)
    /\ \A j \in 1 .. n : f[n].drop <= j => s[j].used <= s[f[n].top].used
    /\ \A m \in 0 .. n : f[m].drop <= f[n].drop
    /\ f[n].drop # 0 =>
          /\ f[f[n].drop].drop = f[n].drop
          /\ f[n].peak = f[f[n].drop - 1].top
          /\ Confirmed(s, end, f[n].peak, f[n].drop)

(* One more sample leaves this so.                                         *)
LEMMA SearchedOn ==
    ASSUME NEW s \in Seq(Observations), NEW end, NEW f, Search(f, s, end),
           NEW n \in 0 .. Len(s) - 1, Searched(f, s, end, n)
    PROVE  Searched(f, s, end, n + 1)
<1>1. Len(s) \in Nat /\ n + 1 \in 1 .. Len(s) /\ n \in 0 .. Len(s) /\ (n + 1) - 1 = n
  BY LenProperties
<1>2. PICK k : k = n + 1
  OBVIOUS
<1>3. PICK old : old = f[n]
  OBVIOUS
<1>4. PICK new : new = f[k]
  OBVIOUS
<1>5. new = Looked(s, end, old, k)
  BY <1>1, <1>2, <1>3, <1>4 DEF Search
<1>6. old \in Findings(s)
  BY <1>1, <1>3 DEF Search
<1>7. old.peak \in 0 .. Len(s) /\ old.drop \in 0 .. Len(s) /\ old.top \in 0 .. Len(s)
  BY <1>6 DEF Findings
<1>8. k \in 1 .. Len(s) /\ n = k - 1 /\ k = n + 1 /\ k > 0 /\ \A j \in 1 .. k : j \in 1 .. n \/ j = k
  BY <1>1, <1>2
<1>9. /\ old.drop <= old.top /\ old.top <= n /\ (n > 0 => old.top > 0)
      /\ \A j \in 1 .. n : old.drop <= j => s[j].used <= s[old.top].used
      /\ \A m \in 0 .. n : f[m].drop <= old.drop
      /\ old.drop # 0 => /\ f[old.drop].drop = old.drop
                         /\ old.peak = f[old.drop - 1].top
                         /\ Confirmed(s, end, old.peak, old.drop)
  BY <1>3 DEF Searched
<1>10. \A j \in 1 .. Len(s) : s[j].used \in Int
  BY SamplesAt
<1>11. \A m \in 0 .. n : f[m].drop \in Int
  <2>1. \A m \in 0 .. n : f[m] \in Findings(s)
    BY <1>1 DEF Search
  <2> QED BY <2>1 DEF Findings
<1>12. \A m \in 0 .. k : m \in 0 .. n \/ m = k
  BY <1>1, <1>2
<1>13. SUFFICES /\ new.drop <= new.top /\ new.top <= k /\ new.top > 0
                /\ \A j \in 1 .. k : new.drop <= j => s[j].used <= s[new.top].used
                /\ \A m \in 0 .. k : f[m].drop <= new.drop
                /\ new.drop # 0 => /\ f[new.drop].drop = new.drop
                                   /\ new.peak = f[new.drop - 1].top
                                   /\ Confirmed(s, end, new.peak, new.drop)
  BY <1>2, <1>4 DEF Searched
<1>14. CASE Confirmed(s, end, old.top, k) /\ new.peak = old.top /\ new.drop = k /\ new.top = k
  <2>1. \A j \in 1 .. k : k <= j => s[j].used <= s[k].used
    <3>1. \A j \in 1 .. k : k <= j => j = k
      BY <1>8
    <3> QED BY <1>8, <1>10, <3>1
  <2>2. \A m \in 0 .. k : f[m].drop <= k
    <3>1. \A m \in 0 .. n : f[m].drop <= k
      BY <1>7, <1>8, <1>9, <1>11
    <3> QED BY <1>4, <1>8, <1>12, <1>14, <3>1
  <2>3. f[new.drop].drop = new.drop /\ new.peak = f[new.drop - 1].top
    BY <1>3, <1>4, <1>8, <1>14
  <2>4. Confirmed(s, end, new.peak, new.drop)
    BY <1>14
  <2>5. new.drop <= new.top /\ new.top <= k /\ new.top > 0
    BY <1>8, <1>14
  <2> QED BY <1>14, <2>1, <2>2, <2>3, <2>4, <2>5
<1>15. ASSUME new.drop = old.drop PROVE \A m \in 0 .. k : f[m].drop <= new.drop
  BY <1>4, <1>7, <1>9, <1>12, <1>15
<1>16. CASE (old.top = 0 \/ s[k].used > s[old.top].used)
            /\ new.peak = old.peak /\ new.drop = old.drop /\ new.top = k
  <2>1. ASSUME NEW j \in 1 .. k, old.drop <= j PROVE s[j].used <= s[k].used
    <3>1. CASE j = k
      BY <1>8, <1>10, <3>1
    <3>2. CASE j \in 1 .. n
      <4>1. n > 0 /\ j \in 1 .. Len(s) /\ old.top \in 1 .. Len(s)
        BY <1>1, <1>7, <1>9, <3>2
      <4>2. s[j].used <= s[old.top].used /\ s[k].used > s[old.top].used
        BY <1>9, <1>16, <2>1, <3>2, <4>1
      <4> QED BY <1>8, <1>10, <4>1, <4>2
    <3> QED BY <1>8, <3>1, <3>2
  <2>2. new.drop <= new.top /\ new.top <= k /\ new.top > 0
    BY <1>1, <1>7, <1>8, <1>9, <1>16
  <2> QED BY <1>9, <1>15, <1>16, <2>1, <2>2
<1>17. CASE old.top # 0 /\ ~(s[k].used > s[old.top].used) /\ new = old
  <2>1. old.top \in 1 .. Len(s)
    BY <1>7, <1>17
  <2>2. s[k].used <= s[old.top].used
    BY <1>8, <1>10, <1>17, <2>1
  <2>3. \A j \in 1 .. k : old.drop <= j => s[j].used <= s[old.top].used
    BY <1>8, <1>9, <2>2
  <2>4. old.top <= k /\ old.top > 0
    BY <1>8, <1>9, <2>1
  <2> QED BY <1>9, <1>15, <1>17, <2>3, <2>4
<1> QED BY <1>5, <1>6, <1>8, <1>14, <1>16, <1>17, LookedCases

(* So it is after any number of samples.                                   *)
LEMMA SearchedThrough ==
    ASSUME NEW s \in Seq(Observations), NEW end, NEW f, Search(f, s, end)
    PROVE  \A n \in 0 .. Len(s) : Searched(f, s, end, n)
<1> DEFINE T == {n \in Nat : Searched(f, s, end, n)}
<1>1. Len(s) \in Nat
  BY LenProperties
<1>2. 0 \in T
  <2>1. f[0].peak = 0 /\ f[0].drop = 0 /\ f[0].top = 0
    BY DEF Search
  <2>2. \A m \in 0 .. 0 : m = 0
    OBVIOUS
  <2>3. Searched(f, s, end, 0)
    BY <2>1, <2>2 DEF Searched
  <2> QED BY <2>3
<1>3. \A n \in 0 .. Len(s) - 1 : n \in T => n + 1 \in T
  <2> SUFFICES ASSUME NEW n \in 0 .. Len(s) - 1, Searched(f, s, end, n) PROVE Searched(f, s, end, n + 1)
    BY <1>1
  <2> QED BY SearchedOn
<1> HIDE DEF T
<1>4. \A n \in 0 .. Len(s) : n \in T
  BY <1>1, <1>2, <1>3, RoundInduction
<1> QED BY <1>4 DEF T

(* A drop found at some time is a reset of these samples.                  *)
LEMMA DropIsReset ==
    ASSUME NEW s \in Seq(Observations), NEW end, NEW n \in 1 .. Len(s), Look(s, end)[n].drop # 0
    PROVE  s[Look(s, end)[n].drop] \in Resets(s, end)
<1>1. n \in DOMAIN s
  BY LenProperties
<1> QED BY <1>1 DEF Resets

(* The drops of which the latest is kept with its peak and with the sample *)
(* that confirms it, if no others are found among the samples kept.        *)
LatestKept(x, s, end) ==
    /\ LatestReset(x, end).drop \in 1 .. Len(x)
    /\ x[LatestReset(x, end).drop] = s[LatestReset(s, end).drop]

LEMMA ResetKept ==
    ASSUME NEW length, NEW s, GoodSamples(s, length), NEW end, NEW places,
           LatestReset(s, end).drop # 0,
           {LatestReset(s, end).peak, LatestReset(s, end).drop, LatestReset(s, end).drop + 1}
             \cap (1 .. Len(s)) \subseteq places,
           NEW x, x = Chosen(s, places), Resets(x, end) \subseteq Resets(s, end)
    PROVE  LatestKept(x, s, end)
<1>1. s \in Seq(Observations) /\ Len(s) \in Nat /\ DOMAIN s = 1 .. Len(s)
  BY LenProperties DEF GoodSamples
<1>2. PICK g : Placed(g, x, s, places, Len(s))
  BY <1>1, ChosenPlaces
<1>3. /\ x \in Seq(Observations) /\ Len(x) \in Nat /\ DOMAIN x = 1 .. Len(x)
      /\ g \in [1 .. Len(x) -> 1 .. Len(s)]
  BY <1>2, LenProperties DEF Placed
<1>4. \A i, j \in 1 .. Len(x) : i < j => g[i] < g[j]
  BY <1>2 DEF Placed
<1>5. \A i \in 1 .. Len(x) : x[i] = s[g[i]] /\ g[i] \in 1 .. Len(s)
  BY <1>2, <1>3 DEF Placed
<1>6. \A k \in 1 .. Len(s) : k \in places => \E i \in 1 .. Len(x) : g[i] = k
  BY <1>2 DEF Placed
<1>7. \A i, j \in 1 .. Len(x) : g[i] < g[j] => i < j
  <2> SUFFICES ASSUME NEW i \in 1 .. Len(x), NEW j \in 1 .. Len(x), g[i] < g[j] PROVE i < j
    OBVIOUS
  <2>1. CASE j < i
    BY <1>4, <1>5, <2>1
  <2>2. CASE i = j
    BY <1>5, <2>2
  <2> QED BY <1>3, <2>1, <2>2
<1>8. PICK f : f = Look(s, end)
  OBVIOUS
<1>9. PICK h : h = Look(x, end)
  OBVIOUS
<1>10. Search(f, s, end) /\ Search(h, x, end)
  BY <1>1, <1>3, <1>8, <1>9, LookSearches
<1>11. \A n \in 0 .. Len(s) : Searched(f, s, end, n)
  BY <1>1, <1>10, SearchedThrough
<1>12. \A n \in 0 .. Len(x) : Searched(h, x, end, n)
  BY <1>3, <1>10, SearchedThrough
<1>13. \A n \in 0 .. Len(s) : f[n].drop \in 0 .. Len(s) /\ f[n].top \in 0 .. Len(s) /\ f[n].peak \in 0 .. Len(s)
  BY <1>10 DEF Search, Findings
<1>14. \A n \in 0 .. Len(x) : h[n].drop \in 0 .. Len(x) /\ h[n].top \in 0 .. Len(x)
  BY <1>10 DEF Search, Findings
<1>15. \A m, n \in 0 .. Len(s) : m <= n => f[m].drop <= f[n].drop
  BY <1>1, <1>11 DEF Searched
<1>16. \A m, n \in 0 .. Len(x) : m <= n => h[m].drop <= h[n].drop
  BY <1>3, <1>12 DEF Searched
<1>17. PICK d : d = f[Len(s)].drop
  OBVIOUS
<1>18. PICK peak : peak = f[Len(s)].peak
  OBVIOUS
<1>19. d = LatestReset(s, end).drop /\ peak = LatestReset(s, end).peak
  BY <1>8, <1>17, <1>18 DEF LatestReset
<1>20. d \in 1 .. Len(s)
  <2>1. d \in 0 .. Len(s)
    <3>1. Len(s) \in 0 .. Len(s)
      BY <1>1
    <3> QED BY <1>13, <1>17, <3>1
  <2>2. d # 0
    BY <1>19
  <2> QED BY <1>1, <2>1, <2>2
<1>21. peak = f[d - 1].top /\ Confirmed(s, end, peak, d)
  <2>1. Searched(f, s, end, Len(s))
    BY <1>1, <1>11
  <2> QED BY <1>17, <1>18, <1>20, <2>1 DEF Searched
<1>22. /\ peak > 0 /\ d < Len(s) /\ s[d].at < end
       /\ ResetCandidate(s[peak].used, s[d].used)
       /\ 2 * s[d + 1].used < s[peak].used + s[d].used
  BY <1>21 DEF Confirmed
<1>23. d - 1 \in 0 .. Len(s) /\ peak \in 1 .. Len(s) /\ peak <= d - 1 /\ d + 1 \in 1 .. Len(s)
       /\ f[d - 1].drop <= peak
  <2>1. d - 1 \in 0 .. Len(s) /\ d + 1 \in 1 .. Len(s)
    BY <1>1, <1>20, <1>22
  <2>2. Searched(f, s, end, d - 1)
    BY <1>11, <2>1
  <2>3. f[d - 1].drop <= peak /\ peak <= d - 1
    BY <1>21, <2>2 DEF Searched
  <2> QED BY <1>13, <1>21, <1>22, <2>1, <2>3
<1>24. PICK b \in 1 .. Len(x), e \in 1 .. Len(x), c \in 1 .. Len(x) : g[b] = peak /\ g[e] = d /\ g[c] = d + 1
  <2>1. peak \in places /\ d \in places /\ d + 1 \in places
    BY <1>19, <1>20, <1>23
  <2> QED BY <1>6, <1>20, <1>23, <2>1
<1>25. b <= e - 1 /\ e < c
  <2>1. b < e /\ e < c
    BY <1>7, <1>20, <1>23, <1>24
  <2> QED BY <1>3, <2>1
<1>26. c = e + 1
  <2>1. ASSUME e + 1 < c PROVE FALSE
    <3>1. e + 1 \in 1 .. Len(x)
      BY <1>3, <2>1
    <3>2. e < e + 1
      BY <1>3
    <3>3. g[e] < g[e + 1] /\ g[e + 1] < g[c]
      BY <1>4, <2>1, <3>1, <3>2
    <3> QED BY <1>5, <1>20, <1>24, <3>1, <3>3
  <2> QED BY <1>3, <1>25, <2>1
<1>27. ASSUME NEW n \in 0 .. Len(x), h[n].drop # 0
       PROVE  \E m \in 1 .. Len(s) : g[h[n].drop] = f[m].drop /\ f[m].drop # 0
  <2>1. n # 0
    BY <1>10, <1>27 DEF Search
  <2>2. h[n].drop \in 1 .. Len(x)
    BY <1>3, <1>14, <1>27
  <2>3. x[h[n].drop] \in Resets(s, end)
    BY <1>3, <1>9, <1>27, <2>1, DropIsReset
  <2>4. PICK m \in 1 .. Len(s) : f[m].drop # 0 /\ x[h[n].drop] = s[f[m].drop]
    BY <1>1, <1>8, <2>3 DEF Resets
  <2>5. f[m].drop \in 1 .. Len(s)
    BY <1>1, <1>13, <2>4
  <2>6. s[g[h[n].drop]] = s[f[m].drop] /\ g[h[n].drop] \in 1 .. Len(s)
    BY <1>5, <2>2, <2>4
  <2>7. g[h[n].drop] = f[m].drop
    BY <1>1, <2>5, <2>6 DEF GoodSamples, IsInjective
  <2> QED BY <2>4, <2>7
<1>28. e - 1 \in 0 .. Len(x) /\ e - 1 >= 1 /\ Searched(h, x, end, e - 1)
  <2>1. e - 1 \in 0 .. Len(x) /\ e - 1 >= 1
    BY <1>3, <1>25
  <2> QED BY <1>12, <2>1
<1>29. h[e - 1].drop <= b
  <2>1. CASE h[e - 1].drop = 0
    BY <1>3, <2>1
  <2>2. CASE h[e - 1].drop # 0
    <3>1. PICK i : i = h[e - 1].drop
      OBVIOUS
    <3>2. i \in 1 .. Len(x) /\ i <= e - 1
      BY <1>3, <1>14, <1>28, <2>2, <3>1 DEF Searched
    <3>3. PICK m \in 1 .. Len(s) : g[i] = f[m].drop /\ f[m].drop # 0
      BY <1>27, <1>28, <2>2, <3>1
    <3>4. g[i] < d
      BY <1>4, <1>24, <1>28, <3>2
    <3>5. g[i] \in 1 .. Len(s) /\ g[i] \in 0 .. Len(s) /\ m \in 0 .. Len(s)
      BY <1>1, <1>5, <3>2
    <3>6. f[g[i]].drop = g[i]
      <4>1. Searched(f, s, end, m)
        BY <1>11, <3>5
      <4> QED BY <3>3, <4>1 DEF Searched
    <3>7. f[g[i]].drop <= f[d - 1].drop
      BY <1>15, <1>20, <1>23, <3>4, <3>5
    <3>8. g[i] <= g[b]
      BY <1>13, <1>23, <1>24, <3>5, <3>6, <3>7
    <3>9. ~(b < i)
      BY <1>4, <1>5, <3>2, <3>5, <3>8
    <3> QED BY <1>3, <3>1, <3>2, <3>9
  <2> QED BY <2>1, <2>2
<1>30. PICK top : top = h[e - 1].top
  OBVIOUS
<1>31. top \in 1 .. Len(x) /\ x[b].used <= x[top].used
  <2>1. b \in 1 .. e - 1
    BY <1>3, <1>25
  <2>2. top > 0 /\ x[b].used <= x[top].used
    BY <1>28, <1>29, <1>30, <2>1 DEF Searched
  <2> QED BY <1>3, <1>14, <1>28, <1>30, <2>2
<1>32. Confirmed(x, end, top, e)
  <2>1. x[b] = s[peak] /\ x[e] = s[d] /\ x[e + 1] = s[d + 1]
    BY <1>5, <1>24, <1>26
  <2>2. e < Len(x) /\ top > 0
    BY <1>3, <1>24, <1>26, <1>31
  <2>3. x[top].used \in Int /\ s[peak].used \in Int /\ s[d].used \in Int /\ s[d + 1].used \in Int
    BY <1>1, <1>3, <1>20, <1>23, <1>31, SamplesAt
  <2>4. PICK high \in Int, was \in Int, low \in Int, then \in Int :
          high = x[top].used /\ was = s[peak].used /\ low = s[d].used /\ then = s[d + 1].used
    BY <2>3
  <2>5. was <= high /\ ResetCandidate(was, low) /\ 2 * then < was + low
    BY <1>22, <1>31, <2>1, <2>4
  <2>6. ResetCandidate(high, low) /\ 2 * then < high + low
    <3>1. DropTolerance \in Int
      BY QuotaLimitsAssumption
    <3> QED BY <2>5, <3>1 DEF ResetCandidate
  <2>7. ResetCandidate(x[top].used, x[e].used) /\ 2 * x[e + 1].used < x[top].used + x[e].used
    BY <2>1, <2>4, <2>6
  <2>8. x[e].at < end
    BY <1>22, <2>1
  <2> QED BY <2>2, <2>7, <2>8 DEF Confirmed
<1>33. h[e].drop = e
  <2>1. h[e] = Looked(x, end, h[e - 1], e)
    BY <1>10 DEF Search
  <2>2. h[e] = [peak |-> top, drop |-> e, top |-> e]
    BY <1>30, <1>32, <2>1 DEF Looked
  <2> QED BY <2>2
<1>34. PICK z : z = h[Len(x)].drop
  OBVIOUS
<1>35. z \in 1 .. Len(x) /\ e <= z
  <2>1. e \in 0 .. Len(x) /\ Len(x) \in 0 .. Len(x) /\ e <= Len(x)
    BY <1>3
  <2>2. e <= z
    BY <1>16, <1>33, <1>34, <2>1
  <2> QED BY <1>3, <1>14, <1>34, <2>1, <2>2
<1>36. z = e
  <2>1. PICK m \in 1 .. Len(s) : g[z] = f[m].drop
    BY <1>3, <1>27, <1>34, <1>35
  <2>2. f[m].drop <= d
    <3>1. m \in 0 .. Len(s) /\ Len(s) \in 0 .. Len(s) /\ m <= Len(s)
      BY <1>1
    <3> QED BY <1>15, <1>17, <3>1
  <2>3. ~(e < z)
    BY <1>4, <1>5, <1>24, <1>35, <2>1, <2>2
  <2> QED BY <1>35, <2>3
<1>37. LatestReset(x, end).drop = e
  BY <1>9, <1>34, <1>36 DEF LatestReset
<1>38. x[e] = s[d]
  BY <1>5, <1>24
<1> QED BY <1>19, <1>37, <1>38 DEF LatestKept

(* Where no sample was taken before a reset card, none of those chosen was. *)
LEMMA NoCardKept ==
    ASSUME NEW s \in Seq(Observations), NEW span, NEW end, PreReset(s, span, end) = 0,
           NEW places, NEW x, x = Chosen(s, places)
    PROVE  PreReset(x, span, end) = 0
<1> DEFINE Moved(i, u) == LET d == end - u[i].reset IN d > QMinute /\ 24 * d > span
           M == {i \in DOMAIN s : Moved(i, s)}
<1>1. Len(s) \in Nat /\ DOMAIN s = 1 .. Len(s)
  BY LenProperties
<1>2. M \subseteq 0 .. Len(s) /\ 0 \notin M
  BY <1>1
<1>3. PreReset(s, span, end) = IF M = {} THEN 0 ELSE CHOOSE i \in M : \A j \in M : j <= i
  BY DEF PreReset
<1>4. M = {}
  <2> SUFFICES ASSUME M # {} PROVE FALSE
    OBVIOUS
  <2> HIDE DEF M
  <2>1. \E i \in M : \A j \in M : j <= i
    BY <1>1, <1>2, GreatestElement
  <2>2. PreReset(s, span, end) \in M
    BY <1>3, <2>1
  <2> QED BY <1>2, <2>2
<1>5. PICK g : Placed(g, x, s, places, Len(s))
  BY ChosenPlaces
<1>6. DOMAIN x = 1 .. Len(x)
  BY <1>5, LenProperties DEF Placed
<1>7. \A i \in DOMAIN x : x[i] = s[g[i]] /\ g[i] \in DOMAIN s
  BY <1>1, <1>5, <1>6 DEF Placed
<1>8. \A i \in DOMAIN x : ~Moved(i, x)
  BY <1>4, <1>7
<1> QED BY <1>8 DEF PreReset

(* Where there is no reset card, what is shown begins with the latest drop. *)
LEMMA ShownFromDrop ==
    ASSUME NEW p, PreReset(p.samples, p.end - p.start, p.end) = 0,
           NEW d, d = LatestReset(p.samples, p.end).drop, d # 0
    PROVE  Effective(p).start = p.samples[d].at
<1> DEFINE whole == [start |-> p.start, samples |-> p.samples, reset |-> FALSE, estimated |-> p.estimated]
<1>1. PICK span : span = p.end - p.start
  OBVIOUS
<1>2. \E prior : Effective(p) = Segment(p.samples, p.start, p.end, span, p.estimated, prior)
  BY <1>1 DEF Effective
<1>3. PICK prior : Effective(p) = Segment(p.samples, p.start, p.end, span, p.estimated, prior)
  BY <1>2
<1>4. PreReset(p.samples, span, p.end) = 0
  BY <1>1
<1>5. Effective(p) = AfterDrop(Carded(whole, 0, prior[0], SubSeq(p.samples, 0 + 1, Len(p.samples)), p.start), p.end)
  BY <1>3, <1>4 DEF Segment
<1>6. Effective(p) = AfterDrop(whole, p.end)
  BY <1>5 DEF Carded
<1>7. Effective(p) = Dropped(whole, d)
  BY <1>6 DEF AfterDrop
<1> QED BY <1>7 DEF Dropped

(* Compaction (quotaCompactSamples) does not move where a period begins    *)
(* that a drop cut short, unless the samples kept show another one.        *)
LEMMA CompactKeepsDrop ==
    ASSUME NEW length, NEW p, GoodPeriod(p, length), NEW kept, kept = Compact(p),
           LatestReset(p.samples, p.end).drop # 0,
           PreReset(p.samples, p.end - p.start, p.end) = 0,
           Resets(kept.samples, p.end) \subseteq Resets(p.samples, p.end)
    PROVE  Effective(kept).start = Effective(p).start
<1>1. CASE kept = p
  BY <1>1
<1>2. CASE kept # p
  <2> DEFINE reset == LatestReset(p.samples, p.end)
             card  == PreReset(p.samples, p.end - p.start, p.end)
             vital == Essential(p, reset, card)
             spare == DOMAIN p.samples \ vital
             gone  == {i \in spare : Cardinality({j \in spare : j <= i}) <= Len(p.samples) - MaxSamples}
             places == DOMAIN p.samples \ gone
  <2>1. kept = Dropping(p, spare)
    BY <1>2 DEF Compact
  <2>2. p \in Periods /\ GoodSamples(p.samples, length) /\ p.samples \in Seq(Observations)
    BY DEF GoodPeriod, GoodSamples
  <2>3. DOMAIN p.samples = 1 .. Len(p.samples)
    BY <2>2, LenProperties
  <2>4. kept.samples = Chosen(p.samples, places)
    <3>1. kept = [p EXCEPT !.samples = Chosen(@, DOMAIN @ \ gone)]
      BY <2>1 DEF Dropping
    <3> HIDE DEF gone
    <3> QED BY <2>2, <3>1 DEF Periods
  <2>5. {reset.peak, reset.drop, reset.drop + 1} \subseteq vital
    BY DEF Essential
  <2>6. vital \cap (1 .. Len(p.samples)) \subseteq places
    BY <2>3
  <2> HIDE DEF vital, places
  <2>7. {reset.peak, reset.drop, reset.drop + 1} \cap (1 .. Len(p.samples)) \subseteq places
    BY <2>5, <2>6
  <2>8. PICK x : x = kept.samples
    OBVIOUS
  <2>9. LatestKept(x, p.samples, p.end)
    BY <2>2, <2>4, <2>7, <2>8, ResetKept
  <2>10. PreReset(x, p.end - p.start, p.end) = 0
    BY <2>2, <2>4, <2>8, NoCardKept
  <2>11. kept.start = p.start /\ kept.end = p.end
    BY CompactGood DEF Resampled
  <2>12. PICK e : e = LatestReset(x, p.end).drop
    OBVIOUS
  <2>13. e # 0 /\ x[e] = p.samples[reset.drop]
    BY <2>9, <2>12 DEF LatestKept
  <2>14. Effective(kept).start = x[e].at
    BY <2>8, <2>10, <2>11, <2>12, <2>13, ShownFromDrop
  <2>15. Effective(p).start = p.samples[reset.drop].at
    BY ShownFromDrop
  <2> QED BY <2>13, <2>14, <2>15
<1> QED BY <1>1, <1>2

-----------------------------------------------------------------------------
(* Windows, and the operations on their periods.                           *)

GoodPart(p, length) == p = Absent \/ GoodPeriod(p, length)

(* A period that ran out and its successor do not overlap.                 *)
Bound(p, c) == p # Absent /\ c # Absent /\ ~p.byReset => p.end <= c.start

Loose(w) == w \in Windows /\ GoodPart(w.current, w.length) /\ GoodPart(w.previous, w.length)
Parts(w) == Loose(w) /\ Bound(w.previous, w.current)
Empty(w) == w.current = Absent /\ w.previous = Absent
SameMarks(w, v) == v.length = w.length /\ v.hidden = w.hidden /\ v.updated = w.updated

(* v is w with other periods, and with none if w has none.                 *)
Kept(w, v) == Parts(v) /\ SameMarks(w, v) /\ (Empty(w) => Empty(v))

Rebuilt(w, c, p) ==
    [length |-> w.length, hidden |-> w.hidden, updated |-> w.updated, current |-> c, previous |-> p]

(* The fields of a good period.                                            *)
LEMMA GoodIsPeriod ==
    ASSUME NEW length, NEW p, GoodPeriod(p, length)
    PROVE  p \in Periods /\ p # Absent /\ p.start \in Int /\ p.end \in Int /\ p.since \in Int
           /\ p.samples \in Seq(Observations) /\ p.byReset \in BOOLEAN
BY AbsentAssumption, PeriodFields DEF GoodPeriod

(* The fields of a window.                                                 *)
LEMMA WindowFields ==
    ASSUME NEW w \in Windows
    PROVE  /\ w.length \in Int /\ w.hidden \in BOOLEAN /\ w.updated \in Int
           /\ w.current \in Periods \cup {Absent} /\ w.previous \in Periods \cup {Absent}
           /\ w = Rebuilt(w, w.current, w.previous)
BY DEF Windows, Rebuilt

(* A window is made of its fields.                                         *)
LEMMA WindowType ==
    ASSUME NEW length \in Int, NEW hidden \in BOOLEAN, NEW updated \in Int,
           NEW current \in Periods \cup {Absent}, NEW previous \in Periods \cup {Absent},
           NEW w, w = [length |-> length, hidden |-> hidden, updated |-> updated,
                       current |-> current, previous |-> previous]
    PROVE  w \in Windows
BY DEF Windows

(* The fields of a window with other periods.                              *)
LEMMA RebuiltFields ==
    ASSUME NEW w, NEW c, NEW p, NEW v, v = Rebuilt(w, c, p)
    PROVE  SameMarks(w, v) /\ v.current = c /\ v.previous = p
<1>1. /\ v.length = w.length /\ v.hidden = w.hidden /\ v.updated = w.updated
      /\ v.current = c /\ v.previous = p
  BY DEF Rebuilt
<1> QED BY <1>1, Zenon DEF SameMarks

(* Good periods put into a window.                                         *)
LEMMA RebuiltLoose ==
    ASSUME NEW w, w \in Windows, NEW c, NEW p, GoodPart(c, w.length), GoodPart(p, w.length),
           NEW v, v = Rebuilt(w, c, p)
    PROVE  Loose(v)
<1>1. w.length \in Int /\ w.hidden \in BOOLEAN /\ w.updated \in Int
  BY WindowFields
<1>2. c \in Periods \cup {Absent} /\ p \in Periods \cup {Absent}
  BY DEF GoodPart, GoodPeriod
<1>3. v \in Windows
  BY <1>1, <1>2, WindowType, Zenon DEF Rebuilt
<1>4. SameMarks(w, v) /\ v.current = c /\ v.previous = p
  BY RebuiltFields
<1> QED BY <1>3, <1>4, Zenon DEF Loose, SameMarks

(* Good periods that do not overlap put into a window.                     *)
LEMMA RebuiltKept ==
    ASSUME NEW w, w \in Windows, NEW c, NEW p, GoodPart(c, w.length), GoodPart(p, w.length), Bound(p, c),
           Empty(w) => c = Absent /\ p = Absent,
           NEW v, v = Rebuilt(w, c, p)
    PROVE  Kept(w, v) /\ v.current = c /\ v.previous = p
<1>1. Loose(v)
  BY RebuiltLoose
<1>2. SameMarks(w, v) /\ v.current = c /\ v.previous = p
  BY RebuiltFields
<1> QED BY <1>1, <1>2, Zenon DEF Kept, Parts, Empty

(* The predecessor replaced.                                               *)
LEMMA PreviousSet ==
    ASSUME NEW w \in Windows, NEW p, NEW v, v = [w EXCEPT !.previous = p]
    PROVE  v = Rebuilt(w, w.current, p)
BY DEF Windows, Rebuilt

(* The current period replaced.                                            *)
LEMMA CurrentSet ==
    ASSUME NEW w \in Windows, NEW c, NEW v, v = [w EXCEPT !.current = c]
    PROVE  v = Rebuilt(w, c, w.previous)
BY DEF Windows, Rebuilt

(* Both replaced.                                                          *)
LEMMA BothSet ==
    ASSUME NEW w \in Windows, NEW p, NEW c, NEW v,
           v = [w EXCEPT !.previous = p, !.current = c] \/ v = [w EXCEPT !.current = c, !.previous = p]
    PROVE  v = Rebuilt(w, c, p)
<1>1. w = Rebuilt(w, w.current, w.previous)
  BY WindowFields
<1>2. DOMAIN v = {"length", "hidden", "updated", "current", "previous"}
  BY <1>1 DEF Rebuilt
<1>3. v.length = w.length /\ v.hidden = w.hidden /\ v.updated = w.updated /\ v.current = c /\ v.previous = p
  BY <1>1 DEF Rebuilt
<1>4. v = [x \in DOMAIN v |-> v[x]]
  BY <1>1 DEF Rebuilt
<1> QED BY <1>2, <1>3, <1>4 DEF Rebuilt

(* A window keeps itself.                                                  *)
LEMMA KeptItself ==
    ASSUME NEW w, Parts(w)
    PROVE  Kept(w, w)
BY DEF Kept, SameMarks

(* To keep is transitive.                                                  *)
LEMMA KeptTwice ==
    ASSUME NEW u, NEW v, NEW w, Kept(u, v), Kept(v, w)
    PROVE  Kept(u, w)
BY Zenon DEF Kept, SameMarks

(* An archive without usage may go (quotaDropEmptyResetArchive).           *)
LEMMA DropEmptyKept ==
    ASSUME NEW w, Parts(w)
    PROVE  Kept(w, DropEmptyArchive(w)) /\ DropEmptyArchive(w).current = w.current
<1>1. w \in Windows /\ GoodPart(w.current, w.length) /\ GoodPart(Absent, w.length)
  BY DEF Parts, Loose, GoodPart
<1>2. Bound(Absent, w.current)
  BY DEF Bound
<1>3. PICK v : v = [w EXCEPT !.previous = Absent]
  OBVIOUS
<1>4. v = Rebuilt(w, w.current, Absent)
  BY <1>1, <1>3, PreviousSet
<1>5. Empty(w) => w.current = Absent /\ Absent = Absent
  BY DEF Empty
<1>6. Kept(w, v) /\ v.current = w.current
  BY <1>1, <1>2, <1>4, <1>5, RebuiltKept
<1> QED BY <1>3, <1>6, KeptItself DEF DropEmptyArchive

(* The current period becomes the predecessor when it ends.                *)
LEMMA RolledOverKept ==
    ASSUME NEW w, Parts(w), NEW now
    PROVE  Kept(w, RolledOver(w, now))
<1>1. w \in Windows /\ GoodPart(w.current, w.length) /\ GoodPart(Absent, w.length)
  BY DEF Parts, Loose, GoodPart
<1>2. Bound(w.current, Absent)
  BY DEF Bound
<1>3. PICK v : v = [w EXCEPT !.previous = w.current, !.current = Absent]
  OBVIOUS
<1>4. v = Rebuilt(w, Absent, w.current)
  BY <1>1, <1>3, BothSet
<1>5. Empty(w) => Absent = Absent /\ w.current = Absent
  BY DEF Empty
<1>6. Kept(w, v)
  BY <1>1, <1>2, <1>4, <1>5, RebuiltKept
<1> QED BY <1>3, <1>6, KeptItself DEF RolledOver

(* The archive of a reset.                                                 *)

(* The archive of a segment that a reset ended is a good period: it lasts  *)
(* from before the reset to the reset, and holds the samples before it in  *)
(* order, with those of the archive it continues.                          *)
LEMMA ResetArchiveGood ==
    ASSUME NEW w, Parts(w), w.current # Absent,
           NEW eff, PartOf(eff, w.current.samples),
           NEW cut \in 0 .. Len(w.current.samples),
           NEW segment, PartOf(segment, SubSeq(w.current.samples, 1, cut)),
           NEW last, NEW new, new = ResetArchive(w, eff, last, segment)
    PROVE  GoodPart(new, w.length) /\ Bound(new, w.current)
<1> DEFINE old    == w.previous
           after  == old # Absent /\ old.byReset /\ eff.start > old.end
                     /\ segment.start < old.end /\ last.at >= old.end
           within == old # Absent /\ old.byReset /\ old.start < eff.start /\ eff.start <= old.end
           start  == IF after THEN old.end ELSE IF within THEN old.start ELSE segment.start
           archive == [start |-> start, end |-> eff.start, since |-> w.current.since, samples |-> segment.samples,
                       byReset |-> TRUE, estimated |-> eff.estimated]
           taken  == Chosen(old.samples, {i \in DOMAIN old.samples : old.samples[i].at < eff.start})
<1>1. new = IF segment.start >= eff.start THEN old
            ELSE IF within THEN WithAll(archive, taken, old.since)
            ELSE archive
  BY DEF ResetArchive
<1>2. GoodPart(old, w.length) /\ Bound(old, w.current)
  BY DEF Parts, Loose
<1>3. GoodPeriod(w.current, w.length) /\ w.length \in Int
  BY WindowFields DEF Parts, Loose, GoodPart
<1>4. eff.start \in Int /\ eff.estimated \in BOOLEAN /\ segment.start \in Int
      /\ Suffix(segment.samples, SubSeq(w.current.samples, 1, cut))
  BY DEF PartOf, Segments
<1>5. GoodSamples(w.current.samples, w.length)
  BY <1>3 DEF GoodPeriod
<1>6. GoodSamples(segment.samples, w.length)
  BY <1>4, <1>5, PrefixOfGood, SuffixOfGood
<1>7. old # Absent => old.start \in Int /\ old.end \in Int /\ old.since \in Int /\ GoodSamples(old.samples, w.length)
  BY <1>2, GoodIsPeriod DEF GoodPart, GoodPeriod
<1>8. ASSUME ~(segment.start >= eff.start) PROVE GoodPeriod(archive, w.length) /\ archive.byReset
  <2>1. start \in Int /\ start < eff.start
    BY <1>4, <1>7, <1>8
  <2>2. w.current.since \in Int
    BY <1>3, GoodIsPeriod
  <2> HIDE DEF start
  <2>3. PICK s : s = segment.samples
    OBVIOUS
  <2>4. PICK e \in BOOLEAN : e = eff.estimated
    BY <1>4
  <2>5. PICK a : a = archive
    OBVIOUS
  <2>6. a = [start |-> start, end |-> eff.start, since |-> w.current.since, samples |-> s,
             byReset |-> TRUE, estimated |-> e]
    BY <2>3, <2>4, <2>5
  <2>7. s \in Seq(Observations) /\ GoodSamples(s, w.length)
    BY <1>6, <2>3 DEF GoodSamples
  <2>8. a \in Periods
    BY <1>4, <2>1, <2>2, <2>6, <2>7, PeriodType
  <2>9. a.start = start /\ a.end = eff.start /\ a.byReset /\ a.samples = s
    BY <2>6
  <2>10. GoodPeriod(a, w.length)
    BY <2>1, <2>7, <2>8, <2>9 DEF GoodPeriod
  <2> QED BY <2>5, <2>9, <2>10
<1>9. CASE segment.start >= eff.start
  BY <1>1, <1>2, <1>9
<1>10. CASE ~(segment.start >= eff.start) /\ within
  <2>1. GoodPeriod(archive, w.length) /\ archive.byReset
    BY <1>8, <1>10
  <2> HIDE DEF archive
  <2>2. old.since \in Int /\ GoodSamples(taken, w.length)
    BY <1>7, <1>10, ChosenGood
  <2> HIDE DEF taken
  <2>3. PICK q : q = WithAll(archive, taken, old.since)
    OBVIOUS
  <2>4. GoodPeriod(q, w.length) /\ Resampled(archive, q)
    BY <2>1, <2>2, <2>3, WithAllGood
  <2>5. new = q
    BY <1>1, <1>10, <2>3
  <2>6. q.byReset
    BY <2>1, <2>4 DEF Resampled
  <2> QED BY <2>4, <2>5, <2>6 DEF GoodPart, Bound
<1>11. CASE ~(segment.start >= eff.start) /\ ~within
  <2>1. GoodPeriod(archive, w.length) /\ archive.byReset
    BY <1>8, <1>11
  <2> HIDE DEF archive
  <2>2. new = archive
    BY <1>1, <1>11
  <2> QED BY <2>1, <2>2 DEF GoodPart, Bound
<1> QED BY <1>9, <1>10, <1>11

(* The archive takes the place of the predecessor.                         *)
LEMMA WithArchiveKept ==
    ASSUME NEW w, Parts(w), w.current # Absent, NEW new, GoodPart(new, w.length), Bound(new, w.current)
    PROVE  Kept(w, WithArchive(w, new)) /\ WithArchive(w, new).current = w.current
<1>1. w \in Windows /\ GoodPart(w.current, w.length)
  BY DEF Parts, Loose
<1>2. PICK v : v = [w EXCEPT !.previous = new]
  OBVIOUS
<1>3. v = Rebuilt(w, w.current, new)
  BY <1>1, <1>2, PreviousSet
<1>4. Empty(w) => w.current = Absent /\ new = Absent
  BY DEF Empty
<1>5. Kept(w, v) /\ v.current = w.current
  BY <1>1, <1>3, <1>4, RebuiltKept
<1> QED BY <1>2, <1>5, KeptItself DEF WithArchive

(* quotaArchiveResetPeriod as a whole.                                     *)
LEMMA ArchiveKept ==
    ASSUME NEW w, Parts(w)
    PROVE  Kept(w, Archive(w)) /\ Archive(w).current = w.current
<1>1. CASE w.current = Absent
  BY <1>1, KeptItself DEF Archive
<1>2. CASE w.current # Absent
  <2>1. PICK c : c = w.current
    OBVIOUS
  <2>2. PICK eff : eff = Effective(c)
    OBVIOUS
  <2>3. GoodPeriod(c, w.length) /\ w.length \in Int
    BY <1>2, <2>1, WindowFields DEF Parts, Loose, GoodPart
  <2>4. c \in Periods /\ c.samples \in Seq(Observations) /\ c.since \in Int
    BY <2>3, GoodIsPeriod
  <2>5. PartOf(eff, c.samples)
    BY <2>2, <2>4, EffectivePart
  <2>6. PICK cut : cut = Len(c.samples) - Len(eff.samples)
    OBVIOUS
  <2>7. cut \in 0 .. Len(c.samples)
    <3>1. Len(c.samples) \in Nat /\ Len(eff.samples) \in Nat /\ Len(eff.samples) <= Len(c.samples)
      BY <2>4, <2>5, LenProperties DEF PartOf, Suffix
    <3>2. \A n, m \in Nat : m <= n => n - m \in 0 .. n
      OBVIOUS
    <3> QED BY <2>6, <3>1, <3>2
  <2>8. ASSUME cut # 0
        PROVE  LET new == BeforeReset(w, eff, cut) IN GoodPart(new, w.length) /\ Bound(new, w.current)
    <3>1. cut \in 1 .. Len(c.samples)
      BY <2>7, <2>8
    <3>2. PICK last : last = c.samples[cut]
      OBVIOUS
    <3>3. last.reset \in Int
      BY <2>4, <3>1, <3>2, SamplesAt
    <3>4. PICK s : s = SubSeq(c.samples, 1, cut)
      OBVIOUS
    <3>5. s \in Seq(Observations)
      BY <2>4, <2>7, <3>4, PrefixFacts
    <3>6. PICK a \in Int : a = last.reset - w.length
      BY <2>3, <3>3
    <3>7. PICK p : p = Period(a, last.reset, c.since, s)
      OBVIOUS
    <3>8. p \in Periods
      BY <2>4, <3>3, <3>5, <3>7, PeriodType DEF Period
    <3>9. p.samples = s
      BY <3>7 DEF Period
    <3>10. PICK segment : segment = Effective(p)
      OBVIOUS
    <3>11. PartOf(segment, s)
      BY <3>8, <3>9, <3>10, EffectivePart
    <3>12. PICK new : new = ResetArchive(w, eff, last, segment)
      OBVIOUS
    <3>13. GoodPart(new, w.length) /\ Bound(new, w.current)
      BY <1>2, <2>1, <2>5, <2>7, <3>4, <3>11, <3>12, ResetArchiveGood
    <3>14. BeforeReset(w, eff, cut) = new
      BY <2>1, <3>2, <3>4, <3>6, <3>7, <3>10, <3>12 DEF BeforeReset
    <3> QED BY <3>13, <3>14
  <2>9. Archive(w) = ArchiveShown(w, eff)
    BY <1>2, <2>1, <2>2 DEF Archive
  <2>10. Archive(w) = w \/ (cut # 0 /\ Archive(w) = WithArchive(w, BeforeReset(w, eff, cut)))
    BY <2>1, <2>6, <2>9 DEF ArchiveShown
  <2>11. CASE Archive(w) = w
    BY <2>11, KeptItself
  <2>12. CASE cut # 0 /\ Archive(w) = WithArchive(w, BeforeReset(w, eff, cut))
    <3>1. PICK new : new = BeforeReset(w, eff, cut)
      OBVIOUS
    <3>2. GoodPart(new, w.length) /\ Bound(new, w.current)
      BY <2>8, <2>12, <3>1
    <3>3. Kept(w, WithArchive(w, new)) /\ WithArchive(w, new).current = w.current
      BY <1>2, <3>2, WithArchiveKept
    <3> QED BY <2>12, <3>1, <3>3
  <2> QED BY <2>10, <2>11, <2>12
<1> QED BY <1>1, <1>2

-----------------------------------------------------------------------------
(* An observation older than the window; the shared boundary.              *)

(* The predecessor moves to the shared boundary.                           *)
MovedTo(w, start, end) == [w EXCEPT !.previous.end = end, !.previous.start = start]
MovedPeriod(p, start, end) ==
    [start |-> start, end |-> end, since |-> p.since, samples |-> p.samples,
     byReset |-> p.byReset, estimated |-> p.estimated]

(* The predecessor that is moved is that with another span.                *)
LEMMA MovedBack ==
    ASSUME NEW w \in Windows, w.previous \in Periods, NEW start, NEW end
    PROVE  MovedTo(w, start, end) = Rebuilt(w, w.current, MovedPeriod(w.previous, start, end))
<1> DEFINE v == [w EXCEPT !.previous.end = end, !.previous.start = start]
<1>0. PICK q : q = [start |-> start, end |-> end, since |-> w.previous.since, samples |-> w.previous.samples,
                    byReset |-> w.previous.byReset, estimated |-> w.previous.estimated]
  OBVIOUS
<1>1. w = Rebuilt(w, w.current, w.previous)
  BY WindowFields
<1>2. PICK p : p = w.previous
  OBVIOUS
<1>3. p = [start |-> p.start, end |-> p.end, since |-> p.since, samples |-> p.samples,
           byReset |-> p.byReset, estimated |-> p.estimated]
  BY <1>2, PeriodFields
<1>4. DOMAIN w = {"length", "hidden", "updated", "current", "previous"}
  BY <1>1 DEF Rebuilt
<1>5. PICK w1 : w1 = [w EXCEPT !.previous = [@ EXCEPT !.end = end]]
  OBVIOUS
<1>6. v = [w1 EXCEPT !.previous = [@ EXCEPT !.start = start]]
  BY <1>4, <1>5
<1>7. PICK p1 : p1 = [p EXCEPT !.end = end]
  OBVIOUS
<1>8. w1 = Rebuilt(w, w.current, p1)
  <2>1. w1 = [w EXCEPT !.previous = p1]
    BY <1>2, <1>4, <1>5, <1>7
  <2> QED BY <2>1, PreviousSet
<1>9. [p1 EXCEPT !.start = start] = q
  <2>1. DOMAIN p1 = {"start", "end", "since", "samples", "byReset", "estimated"}
    BY <1>3, <1>7
  <2>2. p1.end = end /\ p1.since = p.since /\ p1.samples = p.samples /\ p1.byReset = p.byReset
        /\ p1.estimated = p.estimated
    BY <1>3, <1>7
  <2>3. PICK p2 : p2 = [p1 EXCEPT !.start = start]
    OBVIOUS
  <2>4. DOMAIN p2 = {"start", "end", "since", "samples", "byReset", "estimated"}
        /\ p2 = [x \in DOMAIN p2 |-> p2[x]]
    BY <2>1, <2>3
  <2>5. p2.start = start /\ p2.end = end /\ p2.since = p.since /\ p2.samples = p.samples
        /\ p2.byReset = p.byReset /\ p2.estimated = p.estimated
    BY <2>1, <2>2, <2>3
  <2>6. p2 = q
    BY <1>0, <1>2, <2>4, <2>5
  <2> QED BY <2>3, <2>6
<1>10. v = [w1 EXCEPT !.previous = q]
  <2>1. w1.previous = p1 /\ DOMAIN w1 = {"length", "hidden", "updated", "current", "previous"}
    BY <1>8 DEF Rebuilt
  <2> QED BY <1>6, <1>9, <2>1
<1>11. v = Rebuilt(w, w.current, q)
  BY <1>8, <1>10 DEF Rebuilt
<1> QED BY <1>0, <1>11, Zenon DEF MovedTo, MovedPeriod

(* Once aligned, the periods share a boundary: a predecessor that drifted  *)
(* moves to the start of the current period, one that overlaps goes.       *)
LEMMA AlignedParts ==
    ASSUME NEW w, Loose(w), w.length > 0, NEW v, v = Aligned(w, w.length)
    PROVE  Parts(v) /\ SameMarks(w, v)
<1>1. w \in Windows /\ w.length \in Int
  BY WindowFields DEF Loose
<1>2. GoodPart(w.current, w.length) /\ GoodPart(w.previous, w.length) /\ GoodPart(Absent, w.length)
  BY DEF Loose, GoodPart
<1>3. PICK moved : moved = [w EXCEPT !.previous.end = w.current.start,
                                     !.previous.start = w.current.start - w.length]
  OBVIOUS
<1>4. PICK without : without = [w EXCEPT !.previous = Absent]
  OBVIOUS
<1>5. Parts(without) /\ SameMarks(w, without)
  <2>1. without = Rebuilt(w, w.current, Absent)
    BY <1>1, <1>4, PreviousSet
  <2>2. Bound(Absent, w.current) /\ (Empty(w) => w.current = Absent /\ Absent = Absent)
    BY DEF Bound, Empty
  <2>3. Kept(w, without)
    BY <1>1, <1>2, <2>1, <2>2, RebuiltKept
  <2> QED BY <2>3 DEF Kept
<1>6. ASSUME w.current # Absent, w.previous # Absent, ~w.previous.byReset
      PROVE  Parts(moved) /\ SameMarks(w, moved)
  <2>1. PICK p : p = w.previous
    OBVIOUS
  <2>2. PICK a \in Int : a = w.current.start
    BY <1>2, <1>6, GoodIsPeriod DEF GoodPart
  <2>3. PICK b \in Int : b = a - w.length
    BY <1>1
  <2>4. GoodPeriod(p, w.length) /\ p \in Periods
    BY <1>2, <1>6, <2>1, GoodIsPeriod DEF GoodPart
  <2>5. p.since \in Int /\ p.samples \in Seq(Observations) /\ p.byReset \in BOOLEAN /\ p.estimated \in BOOLEAN
    BY <2>4, PeriodFields
  <2>6. PICK q : q = [start |-> b, end |-> a, since |-> p.since, samples |-> p.samples,
                      byReset |-> p.byReset, estimated |-> p.estimated]
    OBVIOUS
  <2>7. q \in Periods
    BY <2>5, <2>6, PeriodType
  <2>8. q.start = b /\ q.end = a /\ q.samples = p.samples
    BY <2>6
  <2>9. GoodPeriod(q, w.length)
    BY <1>1, <2>3, <2>4, <2>7, <2>8 DEF GoodPeriod
  <2>10. moved = [w EXCEPT !.previous.end = a, !.previous.start = b]
    BY <1>3, <2>2, <2>3
  <2>11. moved = Rebuilt(w, w.current, q)
    <3>1. w.previous \in Periods
      BY <2>1, <2>4
    <3>2. MovedTo(w, b, a) = Rebuilt(w, w.current, MovedPeriod(w.previous, b, a))
      BY <1>1, <3>1, MovedBack
    <3>3. MovedPeriod(w.previous, b, a) = q
      BY <2>1, <2>6 DEF MovedPeriod
    <3>4. moved = MovedTo(w, b, a)
      BY <2>10 DEF MovedTo
    <3> QED BY <3>2, <3>3, <3>4
  <2>12. GoodPart(q, w.length) /\ Bound(q, w.current)
    BY <2>2, <2>8, <2>9 DEF GoodPart, Bound
  <2>13. Empty(w) => w.current = Absent /\ q = Absent
    BY <1>6 DEF Empty
  <2>14. Kept(w, moved)
    BY <1>1, <1>2, <2>11, <2>12, <2>13, RebuiltKept
  <2> QED BY <2>14 DEF Kept
<1>7. ASSUME Bound(w.previous, w.current) PROVE Parts(w) /\ SameMarks(w, w)
  BY <1>7 DEF Parts, SameMarks
<1>8. CASE w.current = Absent \/ w.previous = Absent \/ w.previous.byReset
  <2>1. Bound(w.previous, w.current)
    BY <1>8 DEF Bound
  <2>2. v = w
    BY <1>8 DEF Aligned
  <2> QED BY <1>7, <2>1, <2>2
<1>9. CASE w.current # Absent /\ w.previous # Absent /\ ~w.previous.byReset
  <2>1. \/ v = moved \/ v = without
        \/ /\ v = w /\ Precedes(w.previous.end, w.current.start, w.length)
           /\ ~DriftIsSmall(w.previous.end, w.current.start, w.length)
    BY <1>3, <1>4, <1>9 DEF Aligned
  <2>2. ASSUME Precedes(w.previous.end, w.current.start, w.length),
               ~DriftIsSmall(w.previous.end, w.current.start, w.length)
        PROVE  Bound(w.previous, w.current)
    BY <2>2 DEF Precedes, Bound
  <2> QED BY <1>5, <1>6, <1>7, <1>9, <2>1, <2>2
<1> QED BY <1>8, <1>9

(* p begins with a reading of this deadline.                               *)
BeginsAt(p, end, length) ==
    GoodPeriod(p, length) /\ p.byReset = FALSE /\ p.start = end - length /\ p.end = end

(* The period that a reading begins.                                       *)
LEMMA NewPeriod ==
    ASSUME NEW o \in Observations, NEW length, GoodSample(o, length), NEW end \in Int, NEW since \in Int,
           NEW start \in Int, start = end - length
    PROVE  BeginsAt(Period(start, end, since, <<o>>), end, length)
<1>1. length \in Int /\ length > 0 /\ o.length = length
  BY ObservationFields DEF GoodSample, ValidObservation
<1>2. PICK s : s = <<o>>
  OBVIOUS
<1>3. s \in Seq(Observations) /\ Len(s) = 1 /\ s[1] = o
  BY <1>2
<1>4. DOMAIN s = 1 .. 1
  BY <1>3, LenProperties
<1>5. GoodSamples(s, length)
  BY <1>3, <1>4 DEF GoodSamples, Sorted, IsInjective
<1>6. PICK p : p = Period(start, end, since, <<o>>)
  OBVIOUS
<1>7. p = [start |-> start, end |-> end, since |-> since, samples |-> s,
           byReset |-> FALSE, estimated |-> FALSE]
  BY <1>2, <1>6 DEF Period
<1>8. p \in Periods
  BY <1>3, <1>7, PeriodType
<1>9. p.start = start /\ p.end = end /\ p.samples = s /\ p.byReset = FALSE
  BY <1>7
<1>10. GoodPeriod(p, length)
  BY <1>1, <1>5, <1>8, <1>9 DEF GoodPeriod
<1> QED BY <1>6, <1>9, <1>10 DEF BeginsAt

(* A period that takes a sample, or does not exist.                        *)
LEMMA InsertPart ==
    ASSUME NEW length, NEW p, GoodPart(p, length), p # Absent, NEW o \in Observations, GoodSample(o, length),
           NEW since \in Int
    PROVE  /\ GoodPart(With(p, o, since), length) /\ With(p, o, since) # Absent
           /\ Resampled(p, With(p, o, since))
           /\ ~Has(p, o) => /\ GoodPart(Insert(p, o, since), length) /\ Insert(p, o, since) # Absent
                            /\ Resampled(p, Insert(p, o, since))
BY InsertGood, WithGood, GoodIsPeriod DEF GoodPart

(* Taking samples moves no boundary.                                       *)
LEMMA ResampledBound ==
    ASSUME NEW p, NEW c, Bound(p, c), NEW q, NEW d,
           q = p \/ (p # Absent /\ Resampled(p, q)), d = c \/ (c # Absent /\ Resampled(c, d))
    PROVE  Bound(q, d)
BY DEF Bound, Resampled

(* An observation older than the window changes its periods only.          *)
LEMMA LateGood ==
    ASSUME NEW w, Parts(w), NEW o \in Observations, ValidObservation(o), ~o.revoked, started \in Int,
           NEW n \in ApplyLate(w, o)
    PROVE  Parts(n) /\ SameMarks(w, n) /\ n.length > 0
<1> DEFINE cur == w.current
           prev == w.previous
           same == w.length = o.length
           Near(p) == same /\ p # Absent /\ DriftIsSmall(p.end, o.reset, o.length) /\ ~Has(p, o)
           carded  == same /\ prev # Absent /\ prev.byReset /\ prev.start <= o.at /\ o.at < prev.end
                      /\ prev.samples # <<>> /\ DriftIsSmall(LastOf(prev).reset, o.reset, o.length)
           older   == same /\ cur # Absent /\ (prev = Absent \/ o.reset > prev.end)
                      /\ Precedes(o.reset, cur.start, o.length)
           end     == IF DriftIsSmall(o.reset, cur.start, o.length) THEN cur.start ELSE o.reset
           first   == [w EXCEPT !.previous = Insert(prev, o, started),
                                !.current = IF cur # Absent /\ cur.start <= prev.end
                                            THEN With(cur, o, started) ELSE cur]
           second  == [w EXCEPT !.current = Insert(cur, o, started)]
           third   == [w EXCEPT !.previous = Insert(prev, o, started)]
           fourth  == [w EXCEPT !.previous = Period(end - o.length, end, started, <<o>>)]
<1>1. \/ carded /\ ~Has(prev, o) /\ n = first
      \/ Near(cur) /\ n = second
      \/ Near(prev) /\ n = third
      \/ older /\ n = fourth
  <2>1. ApplyLate(w, o) = IF carded THEN IF Has(prev, o) THEN {} ELSE {first}
                          ELSE IF Near(cur) THEN {second}
                          ELSE IF Near(prev) THEN {third}
                          ELSE IF older THEN {fourth}
                          ELSE {}
    BY Zenon DEF ApplyLate
  <2> HIDE DEF carded, Near, older, first, second, third, fourth
  <2> QED BY <2>1
<1>2. w \in Windows /\ GoodPart(cur, w.length) /\ GoodPart(prev, w.length) /\ Bound(prev, cur)
  BY DEF Parts, Loose
<1>3. same
  BY <1>1
<1>4. GoodSample(o, w.length) /\ w.length > 0
  BY <1>3 DEF GoodSample, ValidObservation
<1>5. ASSUME NEW c, NEW p, GoodPart(c, w.length), GoodPart(p, w.length), Bound(p, c),
             n = Rebuilt(w, c, p)
      PROVE  Parts(n) /\ SameMarks(w, n)
  BY <1>2, <1>5, RebuiltLoose, RebuiltFields DEF Parts
<1>6. ASSUME prev # Absent, ~Has(prev, o), n = first PROVE Parts(n) /\ SameMarks(w, n)
  <2>1. PICK p : p = Insert(prev, o, started)
    OBVIOUS
  <2>2. PICK c : c = IF cur # Absent /\ cur.start <= prev.end THEN With(cur, o, started) ELSE cur
    OBVIOUS
  <2>3. n = Rebuilt(w, c, p)
    <3>1. n = [w EXCEPT !.previous = p, !.current = c]
      BY <1>6, <2>1, <2>2
    <3> QED BY <1>2, <3>1, BothSet
  <2>4. GoodPart(p, w.length) /\ Resampled(prev, p)
    BY <1>2, <1>4, <1>6, <2>1, InsertPart
  <2>5. GoodPart(c, w.length) /\ (c = cur \/ (cur # Absent /\ Resampled(cur, c)))
    BY <1>2, <1>4, <2>2, InsertPart
  <2>6. Bound(p, c)
    BY <1>2, <1>6, <2>4, <2>5, ResampledBound
  <2> QED BY <1>5, <2>3, <2>4, <2>5, <2>6
<1>7. ASSUME cur # Absent, ~Has(cur, o), n = second PROVE Parts(n) /\ SameMarks(w, n)
  <2>1. PICK c : c = Insert(cur, o, started)
    OBVIOUS
  <2>2. n = [w EXCEPT !.current = c]
    BY <1>7, <2>1
  <2>3. n = Rebuilt(w, c, prev)
    BY <1>2, <2>2, CurrentSet
  <2>4. GoodPart(c, w.length) /\ Resampled(cur, c)
    BY <1>2, <1>4, <1>7, <2>1, InsertPart
  <2>5. Bound(prev, c)
    BY <1>2, <1>7, <2>4, ResampledBound
  <2> QED BY <1>2, <1>5, <2>3, <2>4, <2>5
<1>8. ASSUME prev # Absent, ~Has(prev, o), n = third PROVE Parts(n) /\ SameMarks(w, n)
  <2>1. PICK p : p = Insert(prev, o, started)
    OBVIOUS
  <2>2. n = [w EXCEPT !.previous = p]
    BY <1>8, <2>1
  <2>3. n = Rebuilt(w, cur, p)
    BY <1>2, <2>2, PreviousSet
  <2>4. GoodPart(p, w.length) /\ Resampled(prev, p)
    BY <1>2, <1>4, <1>8, <2>1, InsertPart
  <2>5. Bound(p, cur)
    BY <1>2, <1>8, <2>4, ResampledBound
  <2> QED BY <1>2, <1>5, <2>3, <2>4, <2>5
<1>9. ASSUME older, n = fourth PROVE Parts(n) /\ SameMarks(w, n)
  <2>1. cur.start \in Int /\ o.reset \in Int
    BY <1>2, <1>9, GoodIsPeriod, ObservationFields DEF GoodPart
  <2>2. PICK e \in Int : e = end
    BY <2>1
  <2>0. PICK b \in Int : b = e - w.length
    BY <1>2, WindowFields
  <2>3. PICK p : p = Period(b, e, started, <<o>>)
    OBVIOUS
  <2>4. GoodPeriod(p, w.length) /\ p.end = e
    <3>1. BeginsAt(Period(b, e, started, <<o>>), e, w.length)
      BY <1>4, <2>0, NewPeriod
    <3> QED BY <2>3, <3>1 DEF BeginsAt
  <2>5. n = [w EXCEPT !.previous = p]
    <3>1. b = end - o.length
      BY <1>3, <2>0, <2>2
    <3> QED BY <1>9, <2>2, <2>3, <3>1
  <2>6. n = Rebuilt(w, cur, p)
    BY <1>2, <2>5, PreviousSet
  <2>7. e <= cur.start
    BY <1>9, <2>1, <2>2 DEF Precedes
  <2>8. GoodPart(p, w.length) /\ Bound(p, cur)
    BY <2>4, <2>7 DEF GoodPart, Bound
  <2> QED BY <1>2, <1>5, <2>6, <2>8
<1>10. SameMarks(w, n) => n.length > 0
  BY <1>4 DEF SameMarks
<1> QED BY <1>1, <1>6, <1>7, <1>8, <1>9, <1>10

-----------------------------------------------------------------------------
(* An observation at least as new as the window.                           *)

(* A window with other marks.                                              *)
Remarked(w, updated, hidden) ==
    [length |-> w.length, hidden |-> hidden, updated |-> updated,
     current |-> w.current, previous |-> w.previous]

(* v has the periods of w.                                                 *)
SamePeriods(w, v) == v.length = w.length /\ v.current = w.current /\ v.previous = w.previous

(* Other marks leave the periods as they are.                              *)
LEMMA RemarkedParts ==
    ASSUME NEW w, Parts(w), NEW updated \in Int, NEW hidden \in BOOLEAN,
           NEW v, v = Remarked(w, updated, hidden)
    PROVE  Parts(v) /\ SamePeriods(w, v) /\ v.updated = updated /\ v.hidden = hidden
<1>1. /\ w.length \in Int /\ w.current \in Periods \cup {Absent} /\ w.previous \in Periods \cup {Absent}
  BY WindowFields DEF Parts, Loose
<1>2. v \in Windows
  BY <1>1, WindowType, Zenon DEF Remarked
<1>3. v.updated = updated /\ v.hidden = hidden
  BY DEF Remarked
<1>4. v.length = w.length /\ v.current = w.current /\ v.previous = w.previous
  BY DEF Remarked
<1>5. GoodPart(w.current, w.length) /\ GoodPart(w.previous, w.length) /\ Bound(w.previous, w.current)
  BY DEF Parts, Loose
<1>6. Parts(v)
  BY <1>2, <1>4, <1>5, Zenon DEF Parts, Loose
<1> QED BY <1>3, <1>4, <1>6, Zenon DEF SamePeriods

MarkedAs(v, w, updated, hidden) ==
    Parts(v) /\ SamePeriods(w, v) /\ v.updated = updated /\ v.hidden = hidden

(* The same, of the record.                                                *)
LEMMA RemarkedAs ==
    ASSUME NEW w, Parts(w), NEW updated \in Int, NEW hidden \in BOOLEAN
    PROVE  MarkedAs(Remarked(w, updated, hidden), w, updated, hidden)
<1>1. PICK v : v = Remarked(w, updated, hidden)
  OBVIOUS
<1>2. Parts(v) /\ SamePeriods(w, v) /\ v.updated = updated /\ v.hidden = hidden
  BY <1>1, RemarkedParts
<1> QED BY <1>1, <1>2, Zenon DEF MarkedAs

(* The time of the window replaced.                                        *)
LEMMA UpdatedSet ==
    ASSUME NEW w \in Windows, NEW updated, NEW v, v = [w EXCEPT !.updated = updated]
    PROVE  v = Remarked(w, updated, w.hidden)
BY DEF Windows, Remarked

(* Its two marks replaced.                                                 *)
LEMMA MarksSet ==
    ASSUME NEW w \in Windows, NEW updated, NEW hidden, NEW v,
           \/ v = [w EXCEPT !.hidden = hidden, !.updated = updated]
           \/ v = [w EXCEPT !.updated = updated, !.hidden = hidden]
           \/ v = [w EXCEPT !.length = w.length, !.updated = updated, !.hidden = hidden]
    PROVE  v = Remarked(w, updated, hidden)
<1>1. w = Rebuilt(w, w.current, w.previous)
  BY WindowFields
<1>2. DOMAIN v = {"length", "hidden", "updated", "current", "previous"}
  BY <1>1 DEF Rebuilt
<1>3. v.length = w.length /\ v.hidden = hidden /\ v.updated = updated
      /\ v.current = w.current /\ v.previous = w.previous
  BY <1>1 DEF Rebuilt
<1>4. v = [x \in DOMAIN v |-> v[x]]
  BY <1>1 DEF Rebuilt
<1> QED BY <1>2, <1>3, <1>4 DEF Remarked

(* The marks taken over from another window: the time, then the flag.      *)
LEMMA MarksTaken ==
    ASSUME NEW w \in Windows, NEW updated, NEW hidden, NEW v,
           v = [w EXCEPT !.updated = updated, !.hidden = hidden]
    PROVE  v = Remarked(w, updated, hidden)
BY MarksSet, Zenon

(* Hiding a window writes the flag and then its time.                      *)
LEMMA HiddenSet ==
    ASSUME NEW w \in Windows, NEW updated, NEW hidden, NEW v,
           v = [w EXCEPT !.hidden = hidden, !.updated = updated]
    PROVE  v = Remarked(w, updated, hidden)
BY MarksSet, Zenon

(* A new window has no periods.                                            *)
LEMMA NewWindowParts ==
    ASSUME NEW length \in Int
    PROVE  /\ Parts(NewWindow(length)) /\ NewWindow(length).length = length /\ Empty(NewWindow(length))
           /\ NewWindow(length).hidden = FALSE /\ NewWindow(length).updated = 0
<1>1. PICK v : v = NewWindow(length)
  OBVIOUS
<1>2. v = [length |-> length, hidden |-> FALSE, updated |-> 0, current |-> Absent, previous |-> Absent]
  BY <1>1 DEF NewWindow
<1>3. v \in Windows
  <2>1. FALSE \in BOOLEAN /\ 0 \in Int /\ Absent \in Periods \cup {Absent}
    OBVIOUS
  <2> QED BY <1>2, <2>1, WindowType, Zenon
<1>4. v.length = length /\ v.current = Absent /\ v.previous = Absent /\ v.updated = 0
  BY <1>2
<1>5. v.hidden = FALSE
  BY <1>2
<1>6. Parts(v)
  BY <1>3, <1>4 DEF Parts, Loose, GoodPart, Bound
<1> QED BY <1>1, <1>4, <1>5, <1>6 DEF Empty

(* The three stages of ApplyFresh.                                         *)
Sized(w, o) == IF w.length = o.length THEN w ELSE NewWindow(o.length)

Rolled(w, o) ==
    IF w.current # Absent
       /\ (w.current.end <= o.reset - o.length
             \/ DriftIsSmall(w.current.end, o.reset - o.length, o.length))
    THEN [w EXCEPT !.previous = w.current, !.current = Absent] ELSE w

Refreshed(r, o) ==
    IF r.current = Absent /\ r.previous # Absent /\ DriftIsSmall(r.previous.end, o.reset, o.length)
    THEN IF Has(r.previous, o) THEN {} ELSE {[r EXCEPT !.previous = Insert(@, o, started)]}
    ELSE IF r.current # Absent /\ r.current.end = o.reset
    THEN IF Has(r.current, o) THEN {} ELSE {[r EXCEPT !.current = Insert(@, o, started)]}
    ELSE IF r.current # Absent
    THEN IF o.at < r.current.end /\ r.current.samples # <<>>
         THEN {[r EXCEPT !.current =
                   With([r.current EXCEPT !.start = o.reset - o.length, !.end = o.reset], o, started)]}
         ELSE {}
    ELSE {[r EXCEPT !.current = Period(o.reset - o.length, o.reset, started, <<o>>)]}

(* ApplyFresh is those stages, then the alignment.                         *)
LEMMA FreshStages ==
    ASSUME NEW w, NEW o
    PROVE  ApplyFresh(w, o) =
             {[Aligned(n, o.length) EXCEPT !.length = o.length, !.updated = o.at, !.hidden = FALSE]
                 : n \in Refreshed(Rolled(Sized(w, o), o), o)}
BY Zenon DEF ApplyFresh, Sized, Rolled, Refreshed

(* Rolling over keeps what the window has.                                 *)
LEMMA RolledParts ==
    ASSUME NEW w, Parts(w), NEW o
    PROVE  Kept(w, Rolled(w, o))
<1>1. w \in Windows /\ GoodPart(w.current, w.length) /\ GoodPart(Absent, w.length)
  BY DEF Parts, Loose, GoodPart
<1>2. Bound(w.current, Absent)
  BY DEF Bound
<1>3. PICK v : v = [w EXCEPT !.previous = w.current, !.current = Absent]
  OBVIOUS
<1>4. v = Rebuilt(w, Absent, w.current)
  BY <1>1, <1>3, BothSet
<1>5. Empty(w) => Absent = Absent /\ w.current = Absent
  BY DEF Empty
<1>6. Kept(w, v)
  BY <1>1, <1>2, <1>4, <1>5, RebuiltKept
<1> QED BY <1>3, <1>6, KeptItself DEF Rolled

(* The deadline of the current period moves.                               *)
LEMMA Redated ==
    ASSUME NEW length \in Int, length > 0, NEW c, GoodPeriod(c, length), NEW end \in Int,
           NEW start \in Int, start = end - length,
           NEW q, q = [c EXCEPT !.start = start, !.end = end]
    PROVE  GoodPeriod(q, length)
<1>1. c \in Periods
  BY DEF GoodPeriod
<1>2. c = [start |-> c.start, end |-> c.end, since |-> c.since, samples |-> c.samples,
           byReset |-> c.byReset, estimated |-> c.estimated]
  BY <1>1, PeriodFields
<1>3. DOMAIN q = {"start", "end", "since", "samples", "byReset", "estimated"}
      /\ q = [x \in DOMAIN q |-> q[x]]
  BY <1>2
<1>4. /\ q.start = start /\ q.end = end /\ q.since = c.since /\ q.samples = c.samples
      /\ q.byReset = c.byReset /\ q.estimated = c.estimated
  BY <1>2
<1>5. q = [start |-> start, end |-> end, since |-> c.since, samples |-> c.samples,
           byReset |-> c.byReset, estimated |-> c.estimated]
  BY <1>3, <1>4
<1>6. c.since \in Int /\ c.samples \in Seq(Observations) /\ c.byReset \in BOOLEAN /\ c.estimated \in BOOLEAN
  BY <1>1, PeriodFields
<1>7. q \in Periods
  <2>1. PICK since \in Int, samples \in Seq(Observations), byReset \in BOOLEAN, estimated \in BOOLEAN :
          since = c.since /\ samples = c.samples /\ byReset = c.byReset /\ estimated = c.estimated
    BY <1>6
  <2>2. q = [start |-> start, end |-> end, since |-> since, samples |-> samples,
             byReset |-> byReset, estimated |-> estimated]
    BY <1>5, <2>1
  <2>3. start \in Int /\ end \in Int
    OBVIOUS
  <2> QED BY <2>2, <2>3 DEF Periods
<1>8. q.end - q.start = length /\ q.start < q.end
  BY <1>4
<1> QED BY <1>4, <1>7, <1>8 DEF GoodPeriod

(* The reading joins a period, moves its deadline or begins one; the       *)
(* boundary may be open until the alignment.                               *)
LEMMA RefreshedGood ==
    ASSUME NEW r, Parts(r), NEW o \in Observations, ValidObservation(o), ~o.revoked, r.length = o.length,
           started \in Int, NEW n \in Refreshed(r, o)
    PROVE  Loose(n) /\ n.length = o.length
<1> DEFINE cur == r.current
           prev == r.previous
           expired == cur = Absent /\ prev # Absent /\ DriftIsSmall(prev.end, o.reset, o.length)
           exact == cur # Absent /\ cur.end = o.reset
           live == o.at < cur.end /\ cur.samples # <<>>
           first == [r EXCEPT !.previous = Insert(@, o, started)]
           second == [r EXCEPT !.current = Insert(@, o, started)]
           third == [r EXCEPT !.current =
                        With([cur EXCEPT !.start = o.reset - o.length, !.end = o.reset], o, started)]
           fourth == [r EXCEPT !.current = Period(o.reset - o.length, o.reset, started, <<o>>)]
<1>1. \/ prev # Absent /\ ~Has(prev, o) /\ n = first
      \/ cur # Absent /\ ~Has(cur, o) /\ n = second
      \/ cur # Absent /\ n = third
      \/ n = fourth
  <2>1. Refreshed(r, o) = IF expired THEN IF Has(prev, o) THEN {} ELSE {first}
                          ELSE IF exact THEN IF Has(cur, o) THEN {} ELSE {second}
                          ELSE IF cur # Absent THEN IF live THEN {third} ELSE {}
                          ELSE {fourth}
    BY Zenon DEF Refreshed
  <2>2. (expired => prev # Absent) /\ (exact => cur # Absent)
    OBVIOUS
  <2> HIDE DEF expired, exact, live, first, second, third, fourth
  <2> QED BY <2>1, <2>2
<1>2. r \in Windows /\ GoodPart(cur, r.length) /\ GoodPart(prev, r.length)
  BY DEF Parts, Loose
<1>3. GoodSample(o, r.length) /\ r.length > 0 /\ r.length \in Int
  BY <1>2, WindowFields DEF GoodSample, ValidObservation
<1>4. ASSUME NEW c, NEW p, GoodPart(c, r.length), GoodPart(p, r.length), n = Rebuilt(r, c, p)
      PROVE  Loose(n) /\ n.length = o.length
  BY <1>2, <1>4, RebuiltLoose, RebuiltFields DEF SameMarks
<1>5. PICK end \in Int : end = o.reset
  BY ObservationFields
<1>6. PICK start \in Int : start = end - r.length
  BY <1>3
<1>7. start = o.reset - o.length
  BY <1>5, <1>6
<1>8. ASSUME prev # Absent, ~Has(prev, o), n = first PROVE Loose(n) /\ n.length = o.length
  <2>1. PICK p : p = Insert(prev, o, started)
    OBVIOUS
  <2>2. n = [r EXCEPT !.previous = p]
    BY <1>8, <2>1
  <2>3. n = Rebuilt(r, cur, p)
    BY <1>2, <2>2, PreviousSet
  <2>4. GoodPart(p, r.length)
    BY <1>2, <1>3, <1>8, <2>1, InsertPart
  <2> QED BY <1>2, <1>4, <2>3, <2>4
<1>9. ASSUME cur # Absent, ~Has(cur, o), n = second PROVE Loose(n) /\ n.length = o.length
  <2>1. PICK c : c = Insert(cur, o, started)
    OBVIOUS
  <2>2. n = [r EXCEPT !.current = c]
    BY <1>9, <2>1
  <2>3. n = Rebuilt(r, c, prev)
    BY <1>2, <2>2, CurrentSet
  <2>4. GoodPart(c, r.length)
    BY <1>2, <1>3, <1>9, <2>1, InsertPart
  <2> QED BY <1>2, <1>4, <2>3, <2>4
<1>10. ASSUME cur # Absent, n = third PROVE Loose(n) /\ n.length = o.length
  <2>1. PICK q : q = [cur EXCEPT !.start = start, !.end = end]
    OBVIOUS
  <2>2. PICK c : c = With(q, o, started)
    OBVIOUS
  <2>3. n = [r EXCEPT !.current = c]
    BY <1>5, <1>7, <1>10, <2>1, <2>2
  <2>4. n = Rebuilt(r, c, prev)
    BY <1>2, <2>3, CurrentSet
  <2>5. GoodPeriod(cur, r.length)
    BY <1>2, <1>10 DEF GoodPart
  <2>6. GoodPeriod(q, r.length)
    BY <1>3, <1>6, <2>1, <2>5, Redated
  <2>7. GoodPart(c, r.length)
    BY <1>3, <2>2, <2>6, WithGood DEF GoodPart
  <2> QED BY <1>2, <1>4, <2>4, <2>7
<1>11. ASSUME n = fourth PROVE Loose(n) /\ n.length = o.length
  <2>1. PICK c : c = Period(start, end, started, <<o>>)
    OBVIOUS
  <2>2. n = [r EXCEPT !.current = c]
    BY <1>5, <1>7, <1>11, <2>1
  <2>3. n = Rebuilt(r, c, prev)
    BY <1>2, <2>2, CurrentSet
  <2>4. BeginsAt(Period(start, end, started, <<o>>), end, r.length)
    BY <1>3, <1>6, NewPeriod
  <2>5. GoodPart(c, r.length)
    BY <2>1, <2>4 DEF BeginsAt, GoodPart
  <2> QED BY <1>2, <1>4, <2>3, <2>5
<1> QED BY <1>1, <1>8, <1>9, <1>10, <1>11

(* A reading at least as new as the window shows it as of that reading.    *)
LEMMA FreshGood ==
    ASSUME NEW w, Parts(w), NEW o \in Observations, ValidObservation(o), ~o.revoked, started \in Int,
           NEW n \in ApplyFresh(w, o)
    PROVE  Parts(n) /\ n.length = o.length /\ n.updated = o.at /\ n.hidden = FALSE
<1>1. o.length \in Int /\ o.length > 0 /\ o.at \in Int
  BY ObservationFields DEF ValidObservation
<1>2. PICK sized : sized = Sized(w, o)
  OBVIOUS
<1>3. Parts(sized) /\ sized.length = o.length
  BY <1>1, <1>2, NewWindowParts DEF Sized
<1>4. PICK r : r = Rolled(sized, o)
  OBVIOUS
<1>5. Parts(r) /\ r.length = o.length
  BY <1>3, <1>4, RolledParts DEF Kept, SameMarks
<1>6. PICK m \in Refreshed(r, o) :
        n = [Aligned(m, o.length) EXCEPT !.length = o.length, !.updated = o.at, !.hidden = FALSE]
  <2>1. ApplyFresh(w, o) =
          {[Aligned(k, o.length) EXCEPT !.length = o.length, !.updated = o.at, !.hidden = FALSE]
             : k \in Refreshed(r, o)}
    BY <1>2, <1>4, FreshStages, Zenon
  <2> QED BY <2>1, Zenon
<1>7. Loose(m) /\ m.length = o.length
  BY <1>5, RefreshedGood
<1>8. PICK v : v = Aligned(m, m.length)
  OBVIOUS
<1>9. Parts(v) /\ v.length = o.length
  BY <1>1, <1>7, <1>8, AlignedParts DEF SameMarks
<1>10. n = [v EXCEPT !.length = v.length, !.updated = o.at, !.hidden = FALSE]
  BY <1>6, <1>7, <1>8, <1>9
<1>11. n = Remarked(v, o.at, FALSE)
  BY <1>9, <1>10, MarksSet DEF Parts, Loose
<1>12. Parts(n) /\ SamePeriods(v, n) /\ n.updated = o.at /\ n.hidden = FALSE
  <2>1. PICK h \in BOOLEAN : h = FALSE
    OBVIOUS
  <2>2. PICK e \in Int : e = o.at
    BY <1>1
  <2>3. n = Remarked(v, e, h)
    BY <1>11, <2>1, <2>2, Zenon
  <2>4. Parts(n) /\ SamePeriods(v, n) /\ n.updated = e /\ n.hidden = h
    BY <1>9, <2>1, <2>2, <2>3, RemarkedParts
  <2> QED BY <2>1, <2>2, <2>4, Zenon
<1>13. SamePeriods(v, n)
  BY <1>12
<1>14. n.length = o.length
  BY <1>9, <1>13 DEF SamePeriods
<1> QED BY <1>12, <1>14, Zenon

-----------------------------------------------------------------------------
(* Revocations, and the passing of time.                                   *)

(* A window a snapshot may hold.                                           *)
SoundWindow(w) ==
    /\ Parts(w)
    /\ w.hidden => w.updated > 0
    /\ w.length > 0 \/ (w.hidden /\ Empty(w))

Sound(w) == w = Absent \/ SoundWindow(w)

(* The window has not forgotten a revocation at r: it is hidden since, or  *)
(* shown by later usage.                                                   *)
Recalls(w, r) == w # Absent /\ w.updated >= r /\ (w.hidden \/ w.updated > r)

(* v recalls what w does.                                                  *)
StillRecalls(w, v) == \A r \in Int : Recalls(w, r) => Recalls(v, r)

(* The fields of a window whose periods are good.                          *)
LEMMA PartsFields ==
    ASSUME NEW w, Parts(w)
    PROVE  w \in Windows /\ w # Absent /\ w.length \in Int /\ w.updated \in Int /\ w.hidden \in BOOLEAN
BY AbsentAssumption, WindowFields DEF Parts, Loose

(* A window with other periods is sound and recalls the same.              *)
LEMMA KeptSound ==
    ASSUME NEW w, SoundWindow(w), NEW v, Kept(w, v)
    PROVE  SoundWindow(v) /\ StillRecalls(w, v)
<1>1. Parts(v) /\ SameMarks(w, v) /\ (Empty(w) => Empty(v)) /\ v # Absent
  BY PartsFields DEF Kept
<1>2. v.length = w.length /\ v.hidden = w.hidden /\ v.updated = w.updated
  BY <1>1 DEF SameMarks
<1>3. SoundWindow(v)
  BY <1>1, <1>2 DEF SoundWindow
<1>4. StillRecalls(w, v)
  BY <1>1, <1>2 DEF StillRecalls, Recalls
<1> QED BY <1>3, <1>4

(* The time of the last sample.                                            *)
LEMMA LastSampleAt ==
    ASSUME NEW length, NEW p, GoodPart(p, length), p # Absent, p.samples # <<>>
    PROVE  LastOf(p).at \in Int
<1>1. p.samples \in Seq(Observations)
  BY GoodIsPeriod DEF GoodPart
<1>2. Len(p.samples) \in Nat /\ Len(p.samples) # 0
  BY <1>1, LenProperties, EmptySeq
<1>3. Len(p.samples) \in 1 .. Len(p.samples)
  BY <1>2
<1> QED BY <1>1, <1>3, SamplesAt DEF LastOf

(* The time of the latest reading is a time.                               *)
LEMMA ObservedAtInt ==
    ASSUME NEW w, Parts(w)
    PROVE  ObservedAt(w) \in Int
<1> DEFINE P == {q \in {w.current, w.previous} : q # Absent /\ q.samples # <<>>}
           ends == {LastOf(p).at : p \in P}
<1>1. \A p \in P : LastOf(p).at \in Int
  BY LastSampleAt DEF Parts, Loose
<1>2. ObservedAt(w) = IF ends = {} THEN 0 ELSE CHOOSE t \in ends : \A u \in ends : u <= t
  BY DEF ObservedAt
<1>3. ASSUME ends # {} PROVE \E t \in ends : \A u \in ends : u <= t
  <2>1. PICK p \in P : TRUE
    BY <1>3
  <2>2. PICK a, b : a = LastOf(w.current).at /\ b = LastOf(w.previous).at
    OBVIOUS
  <2>3. ends \subseteq {a, b} /\ ends \subseteq Int
    BY <1>1, <2>2
  <2> HIDE DEF ends
  <2>4. CASE a \in ends /\ b \in ends
    BY <2>3, <2>4
  <2>5. CASE ~(a \in ends /\ b \in ends)
    <3>1. PICK t \in ends : TRUE
      BY <1>3
    <3>2. \A u \in ends : u = t
      BY <2>3, <2>5, <3>1
    <3>3. \A u \in ends : u <= t
      BY <2>3, <3>1, <3>2
    <3> QED BY <3>1, <3>3
  <2> QED BY <2>4, <2>5
<1>4. ends \subseteq Int
  BY <1>1
<1> HIDE DEF ends
<1>5. CASE ends = {}
  BY <1>2, <1>5
<1>6. CASE ends # {}
  <2>1. (CHOOSE t \in ends : \A u \in ends : u <= t) \in ends
    BY <1>3, <1>6
  <2> QED BY <1>2, <1>4, <1>6, <2>1
<1> QED BY <1>5, <1>6

(* What an observation makes of a window.                                  *)

Known(w, o) == IF w = Absent THEN NewWindow(o.length) ELSE w
Hides(k, o) == k.hidden /\ o.at <= k.updated
Base(k, o) == IF Hides(k, o) THEN [k EXCEPT !.updated = ObservedAt(k)] ELSE k
IsLate(b, o) == o.at < b.updated \/ (b.hidden /\ o.at = b.updated)
Taken(b, o) == IF IsLate(b, o) THEN ApplyLate(b, o) ELSE ApplyFresh(b, o)
Committed(n) == DropEmptyArchive(Archive(n))
Result(k, o, n) ==
    IF Hides(k, o) THEN [Committed(n) EXCEPT !.hidden = TRUE, !.updated = k.updated] ELSE Committed(n)

(* Apply is those stages for a valid observation of usage.                 *)
LEMMA ApplyStages ==
    ASSUME NEW w, NEW o, ValidObservation(o), ~o.revoked
    PROVE  Apply(w, o) = {Result(Known(w, o), o, n) : n \in Taken(Base(Known(w, o), o), o)}
BY Zenon DEF Apply, Known, Hides, Base, IsLate, Taken, Committed, Result

(* The archives after an observation.                                      *)
LEMMA CommittedKept ==
    ASSUME NEW n, Parts(n)
    PROVE  Kept(n, Committed(n))
<1>1. PICK a : a = Archive(n)
  OBVIOUS
<1>2. Kept(n, a)
  BY <1>1, ArchiveKept
<1>3. Kept(a, DropEmptyArchive(a))
  BY <1>2, DropEmptyKept DEF Kept
<1> QED BY <1>1, <1>2, <1>3, KeptTwice DEF Committed

(* Usage before a revocation meets the window as of its readings.          *)
LEMMA BaseGood ==
    ASSUME NEW k, Parts(k), NEW o, NEW b, b = Base(k, o)
    PROVE  Parts(b) /\ b.hidden = k.hidden /\ (~Hides(k, o) => b = k)
<1>1. CASE ~Hides(k, o)
  BY <1>1 DEF Base
<1>2. CASE Hides(k, o)
  <2>1. PICK u \in Int : u = ObservedAt(k)
    BY ObservedAtInt
  <2>2. b = [k EXCEPT !.updated = u]
    BY <1>2, <2>1 DEF Base
  <2>3. k \in Windows /\ k.hidden \in BOOLEAN
    BY PartsFields
  <2>4. PICK h \in BOOLEAN : h = k.hidden
    BY <2>3
  <2>5. b = Remarked(k, u, h)
    BY <2>2, <2>3, <2>4, UpdatedSet
  <2> QED BY <1>2, <2>1, <2>4, <2>5, RemarkedParts
<1> QED BY <1>1, <1>2

(* Usage, late or not.                                                     *)
LEMMA TakenGood ==
    ASSUME NEW b, Parts(b), NEW o \in Observations, ValidObservation(o), ~o.revoked, started \in Int,
           NEW m \in Taken(b, o)
    PROVE  /\ Parts(m) /\ m.length > 0
           /\ \/ IsLate(b, o) /\ SameMarks(b, m)
              \/ ~IsLate(b, o) /\ m.updated = o.at /\ m.hidden = FALSE
<1>1. CASE IsLate(b, o)
  <2>1. m \in ApplyLate(b, o)
    BY <1>1 DEF Taken
  <2> QED BY <1>1, <2>1, LateGood
<1>2. CASE ~IsLate(b, o)
  <2>1. m \in ApplyFresh(b, o)
    BY <1>2 DEF Taken
  <2>2. Parts(m) /\ m.length = o.length /\ m.updated = o.at /\ m.hidden = FALSE
    BY <2>1, FreshGood
  <2>3. m.length > 0
    BY <2>2 DEF ValidObservation
  <2> QED BY <1>2, <2>2, <2>3
<1> QED BY <1>1, <1>2

(* Usage of any age leaves the window sound and forgets no revocation:     *)
(* older usage changes hidden history only (applyQuotaObservationLocked).  *)
LEMMA UsageGood ==
    ASSUME NEW w, Sound(w), NEW o \in Observations, ValidObservation(o), ~o.revoked, started \in Int,
           NEW n \in Apply(w, o)
    PROVE  SoundWindow(n) /\ StillRecalls(w, n)
<1>1. o.at \in Int /\ o.length \in Int /\ o.at > 0
  BY ObservationFields DEF ValidObservation
<1>2. PICK k : k = Known(w, o)
  OBVIOUS
<1>3. Parts(k) /\ (k.hidden => w # Absent) /\ (w # Absent => k = w /\ SoundWindow(w))
  BY <1>1, <1>2, NewWindowParts DEF Known, Sound, SoundWindow
<1>4. PICK b : b = Base(k, o)
  OBVIOUS
<1>5. Parts(b) /\ b.hidden = k.hidden /\ (~Hides(k, o) => b = k)
  BY <1>3, <1>4, BaseGood
<1>6. PICK m \in Taken(b, o) : n = Result(k, o, m)
  <2>1. Apply(w, o) = {Result(k, o, x) : x \in Taken(b, o)}
    BY <1>2, <1>4, ApplyStages
  <2> QED BY <2>1
<1>7. /\ Parts(m) /\ m.length > 0
      /\ \/ IsLate(b, o) /\ SameMarks(b, m)
         \/ ~IsLate(b, o) /\ m.updated = o.at /\ m.hidden = FALSE
  BY <1>5, <1>6, TakenGood
<1>8. PICK c : c = Committed(m)
  OBVIOUS
<1>9. Parts(c) /\ SameMarks(m, c)
  BY <1>7, <1>8, CommittedKept DEF Kept
<1>10. c.length = m.length /\ c.hidden = m.hidden /\ c.updated = m.updated
  BY <1>9 DEF SameMarks
<1>11. k.updated \in Int /\ b.updated \in Int /\ k \in Windows /\ c \in Windows
  BY <1>3, <1>5, <1>9, PartsFields
<1>12. CASE Hides(k, o)
  <2>1. w # Absent /\ k = w /\ k.updated > 0
    BY <1>3, <1>12 DEF Hides, SoundWindow
  <2>2. n = [c EXCEPT !.hidden = TRUE, !.updated = k.updated]
    BY <1>6, <1>8, <1>12 DEF Result
  <2>3. PICK h \in BOOLEAN : h = TRUE
    OBVIOUS
  <2>0. PICK u \in Int : u = k.updated
    BY <1>11
  <2>4. n = Remarked(c, u, h)
    <3>1. n = [c EXCEPT !.hidden = h, !.updated = u]
      BY <2>0, <2>2, <2>3
    <3> QED BY <1>11, <3>1, HiddenSet, Zenon
  <2>5. Parts(n) /\ SamePeriods(c, n) /\ n.updated = u /\ n.hidden = h
    <3>1. MarkedAs(Remarked(c, u, h), c, u, h)
      BY <1>9, <2>0, <2>3, RemarkedAs, Zenon
    <3> QED BY <2>4, <3>1, Zenon DEF MarkedAs
  <2>6. n.length > 0
    BY <1>7, <1>10, <2>5 DEF SamePeriods
  <2>7. SoundWindow(n)
    BY <2>0, <2>1, <2>5, <2>6 DEF SoundWindow
  <2>8. StillRecalls(w, n)
    <3>1. n # Absent /\ n.hidden /\ n.updated = w.updated
      BY <2>0, <2>1, <2>3, <2>5, PartsFields
    <3> QED BY <3>1 DEF StillRecalls, Recalls
  <2> QED BY <2>7, <2>8
<1>13. CASE ~Hides(k, o)
  <2>1. n = c /\ b = k
    BY <1>5, <1>6, <1>8, <1>13 DEF Result
  <2>2. n.length > 0 /\ Parts(n) /\ n # Absent
    BY <1>7, <1>9, <1>10, <2>1, PartsFields
  <2>3. CASE IsLate(b, o) /\ SameMarks(b, m)
    <3>1. n.hidden = k.hidden /\ n.updated = k.updated
      BY <1>10, <2>1, <2>3 DEF SameMarks
    <3>2. n.hidden => n.updated > 0
      BY <1>3, <3>1 DEF SoundWindow
    <3>3. StillRecalls(w, n)
      BY <1>3, <2>2, <3>1 DEF StillRecalls, Recalls
    <3> QED BY <2>2, <3>2, <3>3 DEF SoundWindow
  <2>4. CASE ~IsLate(b, o) /\ m.updated = o.at /\ m.hidden = FALSE
    <3>1. n.updated = o.at /\ ~n.hidden
      BY <1>10, <2>1, <2>4
    <3>2. ~(o.at < k.updated) /\ ~(k.hidden /\ o.at <= k.updated)
      BY <1>13, <2>1, <2>4 DEF IsLate, Hides
    <3>3. StillRecalls(w, n)
      BY <1>1, <1>3, <1>11, <2>2, <3>1, <3>2 DEF StillRecalls, Recalls
    <3> QED BY <2>2, <3>1, <3>3 DEF SoundWindow
  <2> QED BY <1>7, <2>3, <2>4
<1> QED BY <1>12, <1>13

(* A revocation that is taken hides the window as of its time.             *)
LEMMA RevokeGood ==
    ASSUME NEW w, Sound(w), NEW o \in Observations, ValidObservation(o), NEW n \in Revoke(w, o)
    PROVE  SoundWindow(n) /\ StillRecalls(w, n) /\ n.hidden /\ n.updated = o.at
<1>1. o.at \in Int /\ o.at > 0
  BY ObservationFields DEF ValidObservation
<1>2. PICK k : k = IF w = Absent THEN NewWindow(0) ELSE w
  OBVIOUS
<1>3. Parts(k) /\ (k.length > 0 \/ Empty(k))
  <2>1. PICK z \in Int : z = 0
    OBVIOUS
  <2>2. Parts(NewWindow(z)) /\ Empty(NewWindow(z))
    BY <2>1, NewWindowParts
  <2> QED BY <1>2, <2>1, <2>2 DEF Sound, SoundWindow
<1>4. PICK h \in BOOLEAN : h = TRUE
  OBVIOUS
<1>5. n = [k EXCEPT !.hidden = h, !.updated = o.at] /\ (w # Absent => o.at >= w.updated)
  <2>1. w # Absent => w.updated \in Int
    BY PartsFields DEF Sound, SoundWindow
  <2>2. PICK x : x = [k EXCEPT !.hidden = h, !.updated = o.at]
    OBVIOUS
  <2>3. Revoke(w, o) = IF w # Absent /\ (o.at < w.updated \/ (w.hidden /\ o.at = w.updated)) THEN {} ELSE {x}
    BY <1>2, <1>4, <2>2 DEF Revoke
  <2> QED BY <1>1, <2>1, <2>2, <2>3
<1>6. PICK at \in Int : at = o.at
  BY <1>1
<1>7. Parts(n) /\ SamePeriods(k, n) /\ n.updated = o.at /\ n.hidden = h
  <2>1. k \in Windows /\ n = [k EXCEPT !.hidden = h, !.updated = at]
    BY <1>3, <1>5, <1>6, PartsFields
  <2>2. n = Remarked(k, at, h)
    BY <2>1, HiddenSet, Zenon
  <2>3. Parts(n) /\ SamePeriods(k, n) /\ n.updated = at /\ n.hidden = h
    <3>1. Parts(k) /\ at \in Int /\ h \in BOOLEAN
      BY <1>3, <1>4, <1>6
    <3>2. MarkedAs(Remarked(k, at, h), k, at, h)
      BY <3>1, RemarkedAs, Zenon
    <3> QED BY <2>2, <3>2, Zenon DEF MarkedAs
  <2> QED BY <1>6, <2>3
<1>8. n.hidden /\ n # Absent
  BY <1>4, <1>7, PartsFields
<1>9. n.length > 0 \/ Empty(n)
  BY <1>3, <1>7 DEF SamePeriods, Empty
<1>10. SoundWindow(n)
  BY <1>1, <1>7, <1>8, <1>9 DEF SoundWindow
<1>11. w # Absent => w.updated \in Int
  BY PartsFields DEF Sound, SoundWindow
<1>12. StillRecalls(w, n)
  BY <1>1, <1>5, <1>7, <1>8, <1>11 DEF StillRecalls, Recalls
<1> QED BY <1>7, <1>8, <1>10, <1>12

(* Any observation.                                                        *)
LEMMA ApplyGood ==
    ASSUME NEW w, Sound(w), NEW o \in Observations, started \in Int, NEW n \in Apply(w, o)
    PROVE  SoundWindow(n) /\ StillRecalls(w, n) /\ (o.revoked => n.hidden /\ n.updated = o.at)
<1>1. ValidObservation(o)
  BY Zenon DEF Apply
<1>2. CASE ~o.revoked
  BY <1>1, <1>2, UsageGood
<1>3. CASE o.revoked
  <2>1. Apply(w, o) = Revoke(w, o)
    BY <1>1, <1>3, Zenon DEF Apply
  <2> QED BY <1>1, <2>1, RevokeGood
<1> QED BY <1>2, <1>3

(* A refused revocation is older than what the window recalls.             *)
LEMMA RefusedRecalled ==
    ASSUME NEW w, Sound(w), NEW o \in Observations, o.revoked, ValidObservation(o), Apply(w, o) = {}
    PROVE  Recalls(w, o.at)
<1>1. Apply(w, o) = Revoke(w, o)
  BY Zenon DEF Apply
<1>2. w # Absent /\ (o.at < w.updated \/ (w.hidden /\ o.at = w.updated))
  BY <1>1 DEF Revoke
<1>3. w.updated \in Int /\ o.at \in Int
  BY <1>2, PartsFields, ObservationFields DEF Sound, SoundWindow
<1> QED BY <1>2, <1>3 DEF Recalls

(* An observation taken or refused; a revocation is recalled either way.   *)
LEMMA OutcomeGood ==
    ASSUME NEW w, Sound(w), NEW o \in Observations, started \in Int,
           NEW v, v = Outcome(w, Apply(w, o))
    PROVE  /\ Sound(v) /\ StillRecalls(w, v)
           /\ o.revoked /\ ValidObservation(o) => Recalls(v, o.at)
<1>1. CASE Apply(w, o) = {}
  <2>1. v = w
    BY <1>1 DEF Outcome
  <2> QED BY <1>1, <2>1, RefusedRecalled DEF StillRecalls
<1>2. CASE Apply(w, o) # {}
  <2>1. v \in Apply(w, o)
    BY <1>2 DEF Outcome
  <2>2. SoundWindow(v) /\ StillRecalls(w, v) /\ (o.revoked => v.hidden /\ v.updated = o.at)
    BY <2>1, ApplyGood
  <2>3. o.revoked => Recalls(v, o.at)
    BY <2>2, PartsFields, ObservationFields DEF Recalls, SoundWindow
  <2> QED BY <2>2, <2>3 DEF Sound
<1> QED BY <1>1, <1>2

(* Time passing and retention.                                             *)

(* Periods archived and rolled over as time passes.                        *)
LEMMA AdvanceGood ==
    ASSUME NEW w, Sound(w), NEW now
    PROVE  Sound(Advance(w, now)) /\ StillRecalls(w, Advance(w, now))
<1>1. CASE w = Absent
  BY <1>1 DEF Advance, StillRecalls
<1>2. CASE w # Absent
  <2>1. SoundWindow(w) /\ Parts(w)
    BY <1>2 DEF Sound, SoundWindow
  <2>2. PICK a : a = Archive(w)
    OBVIOUS
  <2>3. Kept(w, a)
    BY <2>1, <2>2, ArchiveKept
  <2>4. PICK v : v = RolledOver(a, now)
    OBVIOUS
  <2>5. Kept(a, v)
    BY <2>3, <2>4, RolledOverKept DEF Kept
  <2>6. Kept(w, v)
    BY <2>3, <2>5, KeptTwice
  <2>7. Advance(w, now) = v
    BY <1>2, <2>2, <2>4 DEF Advance
  <2> QED BY <2>1, <2>6, <2>7, KeptSound DEF Sound
<1> QED BY <1>1, <1>2

(* A revocation is forgotten after its retention only.                     *)
LEMMA PruneGood ==
    ASSUME NEW w, Sound(w), NEW now \in Int, NEW v, v = Prune(w, now)
    PROVE  /\ Sound(v)
           /\ \A r \in Int : Recalls(w, r) /\ now <= r + RevocationRetention => Recalls(v, r)
<1>1. CASE v = w
  BY <1>1
<1>2. CASE v # w
  <2> DEFINE p == IF w.current # Absent THEN w.current ELSE w.previous
             kept == now <= w.updated + RevocationRetention
             length == IF p = Absent THEN w.length ELSE 0
  <2>1. w # Absent /\ w.hidden
    BY <1>2 DEF Prune
  <2>2. SoundWindow(w) /\ w \in Windows /\ w.length \in Int /\ w.updated \in Int
    BY <2>1, PartsFields DEF Sound, SoundWindow
  <2>3. CASE v = Absent /\ ~kept
    <3>1. \A r \in Int : Recalls(w, r) => ~(now <= r + RevocationRetention)
      BY <2>2, <2>3, QuotaLimitsAssumption DEF Recalls
    <3> QED BY <2>3, <3>1 DEF Sound
  <2>4. CASE v = [w EXCEPT !.current = Absent, !.previous = Absent, !.length = length]
    <3>1. w = Rebuilt(w, w.current, w.previous)
      BY <2>2, WindowFields
    <3> HIDE DEF length
    <3>2. DOMAIN v = {"length", "hidden", "updated", "current", "previous"}
          /\ v = [x \in DOMAIN v |-> v[x]]
      BY <2>4, <3>1 DEF Rebuilt
    <3>3. v.length = length /\ v.hidden = w.hidden /\ v.updated = w.updated
          /\ v.current = Absent /\ v.previous = Absent
      BY <2>4, <3>1 DEF Rebuilt
    <3>4. length \in Int /\ w.hidden \in BOOLEAN
      BY <2>2, WindowFields DEF length
    <3>5. PICK h \in BOOLEAN : h = w.hidden
      BY <3>4
    <3>6. v = [length |-> length, hidden |-> h, updated |-> w.updated, current |-> Absent, previous |-> Absent]
      BY <3>2, <3>3, <3>5
    <3>7. v \in Windows
      <4>1. Absent \in Periods \cup {Absent}
        OBVIOUS
      <4> QED BY <2>2, <3>4, <3>5, <3>6, <4>1, WindowType, Zenon
    <3>8. Parts(v) /\ Empty(v)
      BY <3>3, <3>7 DEF Parts, Loose, GoodPart, Bound, Empty
    <3>9. v.hidden /\ v.updated > 0
      BY <2>1, <2>2, <3>3 DEF SoundWindow
    <3>10. SoundWindow(v)
      BY <3>8, <3>9 DEF SoundWindow
    <3>11. \A r \in Int : Recalls(w, r) => Recalls(v, r)
      BY <3>3, <3>8, <3>9, PartsFields DEF Recalls
    <3> QED BY <3>10, <3>11 DEF Sound
  <2>5. \/ v = Absent /\ ~kept
        \/ v = [w EXCEPT !.current = Absent, !.previous = Absent, !.length = length]
    <3>1. Prune(w, now) =
            IF w = Absent THEN w
            ELSE IF ~w.hidden \/ ~(p = Absent \/ now > p.end + w.length) THEN w
            ELSE IF ~kept THEN Absent
            ELSE [w EXCEPT !.current = Absent, !.previous = Absent, !.length = IF p = Absent THEN @ ELSE 0]
      BY Zenon DEF Prune
    <3>2. PICK x : x = [w EXCEPT !.current = Absent, !.previous = Absent, !.length = IF p = Absent THEN @ ELSE 0]
      OBVIOUS
    <3>3. x = [w EXCEPT !.current = Absent, !.previous = Absent, !.length = length]
      BY <2>2, <3>2 DEF Windows
    <3> QED BY <1>2, <3>1, <3>2, <3>3, Zenon
  <2> QED BY <2>3, <2>4, <2>5
<1> QED BY <1>1, <1>2

(* Both.                                                                   *)
LEMMA HousekeptGood ==
    ASSUME NEW w, Sound(w), quotaNow \in Int, NEW v \in Housekept(w)
    PROVE  /\ Sound(v)
           /\ \A r \in Int : Recalls(w, r) /\ quotaNow <= r + RevocationRetention => Recalls(v, r)
<1>1. PICK a : a = Advance(w, quotaNow)
  OBVIOUS
<1>2. Sound(a) /\ StillRecalls(w, a)
  BY <1>1, AdvanceGood
<1>3. v = a \/ v = Prune(a, quotaNow)
  BY <1>1 DEF Housekept, PrunedOrNot
<1>4. CASE v = a
  BY <1>2, <1>4 DEF StillRecalls
<1>5. CASE v = Prune(a, quotaNow)
  <2>1. Sound(v) /\ \A r \in Int : Recalls(a, r) /\ quotaNow <= r + RevocationRetention => Recalls(v, r)
    BY <1>2, <1>5, PruneGood
  <2> QED BY <1>2, <2>1 DEF StillRecalls
<1> QED BY <1>3, <1>4, <1>5

-----------------------------------------------------------------------------
(* Backups and merges.                                                     *)

(* A window read from a snapshot or a backup.                              *)
LEMMA RepairedGood ==
    ASSUME NEW w, Sound(w), NEW v, v = Repaired(w)
    PROVE  Sound(v) /\ StillRecalls(w, v) /\ (w # Absent => v # Absent)
<1>1. CASE w = Absent
  BY <1>1 DEF Repaired, StillRecalls
<1>2. CASE w # Absent
  <2> DEFINE Span(p) == IF p # Absent /\ ~ValidSpan(p, w.length) THEN Absent ELSE p
  <2>1. SoundWindow(w) /\ Parts(w) /\ w \in Windows
    BY <1>2, PartsFields DEF Sound, SoundWindow
  <2>2. GoodPart(w.current, w.length) /\ GoodPart(w.previous, w.length) /\ Bound(w.previous, w.current)
    BY <2>1 DEF Parts, Loose
  <2>3. PICK c, p : c = Span(w.current) /\ p = Span(w.previous)
    OBVIOUS
  <2>4. (c = w.current \/ c = Absent) /\ (p = w.previous \/ p = Absent)
    BY <2>3
  <2>5. GoodPart(c, w.length) /\ GoodPart(p, w.length) /\ Bound(p, c) /\ (Empty(w) => c = Absent /\ p = Absent)
    BY <2>2, <2>4 DEF GoodPart, Bound, Empty
  <2>6. PICK u : u = [w EXCEPT !.current = Span(@), !.previous = Span(@)]
    OBVIOUS
  <2>7. u = Rebuilt(w, c, p)
    <3>1. u = [w EXCEPT !.current = c, !.previous = p]
      BY <2>1, <2>3, <2>6 DEF Windows
    <3> QED BY <2>1, <3>1, BothSet
  <2>8. Kept(w, u)
    BY <2>1, <2>5, <2>7, RebuiltKept
  <2>9. Kept(u, DropEmptyArchive(u))
    BY <2>8, DropEmptyKept DEF Kept
  <2>10. v = DropEmptyArchive(u)
    BY <1>2, <2>6 DEF Repaired
  <2>11. Kept(w, v)
    BY <2>8, <2>9, <2>10, KeptTwice
  <2>12. SoundWindow(v) /\ StillRecalls(w, v) /\ v # Absent
    BY <2>1, <2>11, KeptSound, PartsFields DEF Kept
  <2> QED BY <2>12 DEF Sound
<1> QED BY <1>1, <1>2

(* Another history.                                                        *)

EmptyCopy(p, start, end) ==
    [start |-> start, end |-> end, since |-> p.since, samples |-> <<>>,
     byReset |-> p.byReset, estimated |-> p.estimated]

(* The copy of a period without its samples.                               *)
LEMMA Copied ==
    ASSUME NEW p \in Periods, NEW end, NEW start,
           NEW q, q = [p EXCEPT !.end = end, !.samples = <<>>, !.start = start]
    PROVE  q = EmptyCopy(p, start, end)
<1>1. p = [start |-> p.start, end |-> p.end, since |-> p.since, samples |-> p.samples,
           byReset |-> p.byReset, estimated |-> p.estimated]
  BY PeriodFields
<1>2. DOMAIN q = {"start", "end", "since", "samples", "byReset", "estimated"}
      /\ q = [x \in DOMAIN q |-> q[x]]
  BY <1>1
<1>3. /\ q.start = start /\ q.end = end /\ q.since = p.since /\ q.samples = <<>>
      /\ q.byReset = p.byReset /\ q.estimated = p.estimated
  BY <1>1
<1> QED BY <1>2, <1>3 DEF EmptyCopy

(* Such a copy with a span of its own is a good period.                    *)
LEMMA CopyGood ==
    ASSUME NEW length \in Int, NEW p, GoodPeriod(p, length), NEW start \in Int, NEW end \in Int, start < end,
           p.byReset \/ end - start = length, NEW q, q = EmptyCopy(p, start, end)
    PROVE  GoodPeriod(q, length) /\ q.end = end /\ q.byReset = p.byReset
<1>1. p \in Periods
  BY DEF GoodPeriod
<1>2. PICK since \in Int, byReset \in BOOLEAN, estimated \in BOOLEAN :
        since = p.since /\ byReset = p.byReset /\ estimated = p.estimated
  BY <1>1, PeriodFields
<1>3. PICK s : s = <<>> /\ s \in Seq(Observations)
  <2>1. <<>> \in Seq(Observations)
    OBVIOUS
  <2> QED BY <2>1, Zenon
<1>4. q = [start |-> start, end |-> end, since |-> since, samples |-> s,
           byReset |-> byReset, estimated |-> estimated]
  BY <1>2, <1>3 DEF EmptyCopy
<1>5. q \in Periods
  <2>1. start \in Int /\ end \in Int
    OBVIOUS
  <2>2. since \in Int /\ byReset \in BOOLEAN /\ estimated \in BOOLEAN
    BY <1>2
  <2> QED BY <2>1, <2>2, <1>3, <1>4, PeriodType, Zenon
<1>6. q.start = start /\ q.end = end /\ q.byReset = p.byReset /\ q.samples = s
  BY <1>2, <1>4
<1>7. Len(s) = 0 /\ DOMAIN s = 1 .. 0
  BY <1>3, LenProperties
<1>8. GoodSamples(s, length)
  BY <1>3, <1>7 DEF GoodSamples, Sorted, IsInjective
<1> QED BY <1>5, <1>6, <1>8 DEF GoodPeriod

(* A period of another history becomes the predecessor.                    *)
LEMMA InstalledParts ==
    ASSUME NEW w, Parts(w), NEW p, GoodPeriod(p, w.length), NEW v, v = Installed(w, p)
    PROVE  Parts(v) /\ SameMarks(w, v)
<1>1. w \in Windows /\ w.length \in Int /\ GoodPart(w.current, w.length)
  BY PartsFields DEF Parts, Loose
<1>2. p \in Periods /\ p.start \in Int /\ p.end \in Int /\ p.byReset \in BOOLEAN
  BY GoodIsPeriod
<1> DEFINE end == IF DriftIsSmall(p.end, w.current.start, w.length) THEN w.current.start ELSE p.end
           start == IF p.byReset THEN p.start ELSE end - w.length
<1>3. PICK copy : copy = [p EXCEPT !.end = end, !.samples = <<>>,
                                   !.start = IF p.byReset THEN @ ELSE end - w.length]
  OBVIOUS
<1>4. PICK x : x = [w EXCEPT !.previous = copy]
  OBVIOUS
<1>5. v = w \/ (/\ v = x /\ w.current # Absent /\ Precedes(p.end, w.current.start, w.length)
                /\ copy.start < copy.end)
  BY <1>3, <1>4 DEF Installed
<1>6. CASE v = w
  BY <1>6 DEF SameMarks
<1>7. CASE /\ v = x /\ w.current # Absent /\ Precedes(p.end, w.current.start, w.length)
           /\ copy.start < copy.end
  <2>1. w.current.start \in Int
    BY <1>1, <1>7, GoodIsPeriod DEF GoodPart
  <2>2. PICK e \in Int, b \in Int : e = end /\ b = start
    BY <1>1, <1>2, <2>1
  <2>3. copy = [p EXCEPT !.end = e, !.samples = <<>>, !.start = b]
    BY <1>2, <1>3, <2>2 DEF Periods
  <2>4. copy = EmptyCopy(p, b, e)
    BY <1>2, <2>3, Copied
  <2>5. b < e
    <3>1. copy.start = b /\ copy.end = e
      BY <2>4 DEF EmptyCopy
    <3> QED BY <1>7, <3>1
  <2>6. p.byReset \/ e - b = w.length
    BY <1>1, <2>2
  <2>7. GoodPeriod(copy, w.length) /\ copy.end = e /\ copy.byReset = p.byReset
    BY <1>1, <2>2, <2>4, <2>5, <2>6, CopyGood
  <2>8. e <= w.current.start
    BY <1>2, <1>7, <2>1, <2>2 DEF Precedes
  <2>9. GoodPart(copy, w.length) /\ Bound(copy, w.current)
    BY <2>7, <2>8 DEF GoodPart, Bound
  <2>10. x = Rebuilt(w, w.current, copy)
    BY <1>1, <1>4, PreviousSet
  <2>11. Empty(w) => w.current = Absent /\ copy = Absent
    BY <1>7 DEF Empty
  <2>12. Kept(w, x)
    BY <1>1, <2>9, <2>10, <2>11, RebuiltKept
  <2> QED BY <1>7, <2>12 DEF Kept
<1> QED BY <1>5, <1>6, <1>7

(* Samples of another history join the period they belong to.              *)
LEMMA JoinedParts ==
    ASSUME NEW w, Parts(w), NEW p, GoodPeriod(p, w.length), NEW v, v = Joined(w, p)
    PROVE  Parts(v) /\ SameMarks(w, v)
<1> DEFINE Near(a)  == a # Absent /\ DriftIsSmall(a.end, p.end, w.length)
           sharing  == {f \in {"previous", "current"} : SharesWindow(w[f], p)}
           target   == IF Near(w.previous) THEN {"previous"}
                       ELSE IF Near(w.current) THEN {"current"}
                       ELSE IF Cardinality(sharing) = 1 THEN sharing ELSE {}
<1>1. w \in Windows /\ GoodPart(w.current, w.length) /\ GoodPart(w.previous, w.length) /\ Bound(w.previous, w.current)
  BY PartsFields DEF Parts, Loose
<1>2. p.since \in Int /\ GoodSamples(p.samples, w.length)
  BY GoodIsPeriod DEF GoodPeriod
<1>3. ("previous" \in target => w.previous # Absent) /\ ("current" \in target => w.current # Absent)
  <2>1. "previous" \in sharing => w.previous # Absent
    BY DEF SharesWindow
  <2>2. "current" \in sharing => w.current # Absent
    BY DEF SharesWindow
  <2> HIDE DEF sharing
  <2>3. CASE Near(w.previous)
    BY <2>3
  <2>4. CASE ~Near(w.previous) /\ Near(w.current)
    BY <2>4
  <2>5. CASE ~Near(w.previous) /\ ~Near(w.current)
    <3>1. target = sharing \/ target = {}
      BY <2>5
    <3> HIDE DEF target
    <3> QED BY <2>1, <2>2, <3>1
  <2> HIDE DEF target, Near
  <2> QED BY <2>3, <2>4, <2>5
<1>4. v = [w EXCEPT !.previous = IF "previous" \in target THEN WithAll(@, p.samples, p.since) ELSE @,
                    !.current  = IF "current" \in target THEN WithAll(@, p.samples, p.since) ELSE @]
  BY Zenon DEF Joined
<1> HIDE DEF target, sharing, Near
<1>5. PICK q : q = IF "previous" \in target THEN WithAll(w.previous, p.samples, p.since) ELSE w.previous
  OBVIOUS
<1>6. PICK c : c = IF "current" \in target THEN WithAll(w.current, p.samples, p.since) ELSE w.current
  OBVIOUS
<1>7. v = Rebuilt(w, c, q)
  <2>1. v = [w EXCEPT !.previous = q, !.current = c]
    BY <1>1, <1>4, <1>5, <1>6 DEF Windows
  <2>2. PICK x : x = [w EXCEPT !.previous = q, !.current = c]
    OBVIOUS
  <2>3. x = Rebuilt(w, c, q)
    BY <1>1, <2>2, BothSet
  <2> QED BY <2>1, <2>2, <2>3
<1>8. GoodPart(q, w.length) /\ (q = w.previous \/ (w.previous # Absent /\ Resampled(w.previous, q)))
  BY <1>1, <1>2, <1>3, <1>5, WithAllGood DEF GoodPart
<1>9. GoodPart(c, w.length) /\ (c = w.current \/ (w.current # Absent /\ Resampled(w.current, c)))
  BY <1>1, <1>2, <1>3, <1>6, WithAllGood DEF GoodPart
<1>10. Bound(q, c)
  BY <1>1, <1>8, <1>9, ResampledBound
<1>11. Empty(w) => c = Absent /\ q = Absent
  BY <1>8, <1>9 DEF Empty
<1>12. Kept(w, v)
  BY <1>1, <1>7, <1>8, <1>9, <1>10, <1>11, RebuiltKept
<1> QED BY <1>12 DEF Kept

(* A window gains a period of another history.                             *)
LEMMA GainedParts ==
    ASSUME NEW w, Parts(w), NEW p, GoodPart(p, w.length), NEW v, v = Gained(w, p)
    PROVE  Parts(v) /\ SameMarks(w, v) /\ (p = Absent => v = w)
<1>1. CASE p = Absent
  BY <1>1 DEF Gained, SameMarks
<1>2. CASE p # Absent
  <2>1. GoodPeriod(p, w.length)
    BY <1>2 DEF GoodPart
  <2>2. PICK i : i = Installed(w, p)
    OBVIOUS
  <2>3. Parts(i) /\ SameMarks(w, i)
    BY <2>1, <2>2, InstalledParts
  <2>4. GoodPeriod(p, i.length)
    BY <2>1, <2>3 DEF SameMarks
  <2>5. v = Joined(i, p)
    BY <1>2, <2>2 DEF Gained
  <2>6. Parts(v) /\ SameMarks(i, v)
    BY <2>3, <2>4, <2>5, JoinedParts
  <2> QED BY <1>2, <2>3, <2>6 DEF SameMarks
<1> QED BY <1>1, <1>2

(* A window gains the periods of another one.                              *)
LEMMA HistoryParts ==
    ASSUME NEW w, Parts(w), NEW x, Parts(x), NEW v, v = HistoryInto(w, x)
    PROVE  Parts(v) /\ SameMarks(w, v) /\ (Empty(x) => v = w)
<1>1. CASE w.length # x.length
  BY <1>1 DEF HistoryInto, SameMarks
<1>2. CASE w.length = x.length
  <2>1. GoodPart(x.current, w.length) /\ GoodPart(x.previous, w.length)
    BY <1>2 DEF Parts, Loose
  <2>2. PICK g : g = Gained(w, x.previous)
    OBVIOUS
  <2>3. Parts(g) /\ SameMarks(w, g) /\ (x.previous = Absent => g = w)
    BY <2>1, <2>2, GainedParts
  <2>4. GoodPart(x.current, g.length)
    BY <2>1, <2>3 DEF SameMarks
  <2>5. v = Gained(g, x.current)
    BY <1>2, <2>2 DEF HistoryInto
  <2>6. Parts(v) /\ SameMarks(g, v) /\ (x.current = Absent => v = g)
    BY <2>3, <2>4, <2>5, GainedParts
  <2>7. SameMarks(w, v)
    BY <2>3, <2>6 DEF SameMarks
  <2> QED BY <2>3, <2>6, <2>7 DEF Empty
<1> QED BY <1>1, <1>2

(* The marks are those of the newer window, whoever gives the periods.     *)
LEMMA WithHistoryGood ==
    ASSUME NEW w, SoundWindow(w), NEW x, SoundWindow(x), NEW v, v = WithHistory(w, x)
    PROVE  SoundWindow(v) /\ v.updated = w.updated /\ (v.hidden <=> w.hidden)
<1> DEFINE swap == w.hidden /\ x.length > 0 /\ (w.length = 0 \/ ObservedAt(x) > ObservedAt(w))
<1>1. Parts(w) /\ Parts(x) /\ w.updated \in Int /\ x \in Windows /\ w.length \in Int /\ x.length \in Int
  BY PartsFields DEF SoundWindow
<1>2. CASE swap
  <2>1. PICK h \in BOOLEAN : h = TRUE
    OBVIOUS
  <2>2. PICK u \in Int : u = w.updated
    BY <1>1
  <2>3. PICK to : to = [x EXCEPT !.updated = u, !.hidden = h]
    OBVIOUS
  <2>4. v = HistoryInto(to, w)
    BY <1>2, <2>1, <2>2, <2>3 DEF WithHistory
  <2>5. to = Remarked(x, u, h)
    BY <1>1, <2>3, MarksTaken, Zenon
  <2>6. Parts(to) /\ SamePeriods(x, to) /\ to.updated = u /\ to.hidden = h
    <3>1. MarkedAs(Remarked(x, u, h), x, u, h)
      BY <1>1, <2>1, <2>2, RemarkedAs, Zenon
    <3> QED BY <2>5, <3>1, Zenon DEF MarkedAs
  <2>7. Parts(v) /\ SameMarks(to, v)
    BY <1>1, <2>4, <2>6, HistoryParts
  <2>8. v.length = x.length /\ v.hidden /\ v.updated = w.updated
    BY <2>1, <2>2, <2>6, <2>7 DEF SameMarks, SamePeriods
  <2>9. w.hidden /\ w.updated > 0 /\ v.length > 0
    BY <1>2, <2>8 DEF SoundWindow
  <2> QED BY <2>7, <2>8, <2>9 DEF SoundWindow
<1>3. CASE ~swap
  <2>1. v = HistoryInto(w, x)
    BY <1>3 DEF WithHistory
  <2>2. Parts(v) /\ SameMarks(w, v) /\ (Empty(x) => v = w)
    BY <1>1, <2>1, HistoryParts
  <2>3. v.length = w.length /\ v.hidden = w.hidden /\ v.updated = w.updated
    BY <2>2 DEF SameMarks
  <2>4. CASE w.length > 0
    BY <2>2, <2>3, <2>4 DEF SoundWindow
  <2>5. CASE ~(w.length > 0)
    <3>1. v = w
      <4>1. CASE w.length # x.length
        BY <2>1, <4>1 DEF HistoryInto
      <4>2. CASE w.length = x.length
        <5>1. Empty(x)
          BY <2>5, <4>2 DEF SoundWindow
        <5> QED BY <2>2, <5>1
      <4> QED BY <4>1, <4>2
    <3> QED BY <3>1
  <2> QED BY <2>4, <2>5
<1> QED BY <1>2, <1>3

(* A merge of two sound windows is sound, and forgets no revocation that   *)
(* the first recalls.                                                      *)
LEMMA MergedGood ==
    ASSUME NEW w, Sound(w), NEW in, Sound(in), NEW v, v = Merged(w, in)
    PROVE  Sound(v) /\ StillRecalls(w, v)
<1>1. CASE in = Absent
  BY <1>1 DEF Merged, StillRecalls
<1>2. CASE in # Absent /\ w = Absent
  <2>1. SoundWindow(in) /\ Parts(in)
    BY <1>2 DEF Sound, SoundWindow
  <2>2. v = Archive(in)
    BY <1>2 DEF Merged
  <2>3. SoundWindow(v)
    BY <2>1, <2>2, ArchiveKept, KeptSound
  <2> QED BY <1>2, <2>3 DEF Sound, StillRecalls, Recalls
<1>3. CASE in # Absent /\ w # Absent
  <2> DEFINE older == in.updated < w.updated \/ (in.updated = w.updated /\ (~in.hidden \/ w.hidden))
  <2>1. SoundWindow(in) /\ SoundWindow(w) /\ w.updated \in Int /\ in.updated \in Int
    BY <1>3, PartsFields DEF Sound, SoundWindow
  <2>2. PICK m : m = WithHistory(IF older THEN w ELSE in, IF older THEN in ELSE w)
    OBVIOUS
  <2>3. v = Archive(m)
    BY <1>3, <2>2 DEF Merged
  <2>4. SoundWindow(m) /\ StillRecalls(w, m)
    <3>1. CASE older
      <4>1. m = WithHistory(w, in)
        BY <2>2, <3>1
      <4>2. SoundWindow(m) /\ m.updated = w.updated /\ (m.hidden <=> w.hidden)
        BY <2>1, <4>1, WithHistoryGood
      <4>3. m # Absent
        BY <4>2, PartsFields DEF SoundWindow
      <4> QED BY <4>2, <4>3 DEF StillRecalls, Recalls
    <3>2. CASE ~older
      <4>1. m = WithHistory(in, w)
        BY <2>2, <3>2
      <4>2. SoundWindow(m) /\ m.updated = in.updated /\ (m.hidden <=> in.hidden)
        BY <2>1, <4>1, WithHistoryGood
      <4>3. m # Absent
        BY <4>2, PartsFields DEF SoundWindow
      <4>4. in.updated > w.updated \/ (in.updated = w.updated /\ in.hidden)
        BY <2>1, <3>2
      <4> QED BY <2>1, <4>2, <4>3, <4>4 DEF StillRecalls, Recalls
    <3> QED BY <3>1, <3>2
  <2>5. Kept(m, v)
    BY <2>3, <2>4, ArchiveKept DEF SoundWindow
  <2>6. SoundWindow(v) /\ StillRecalls(m, v)
    BY <2>4, <2>5, KeptSound
  <2> QED BY <2>4, <2>6 DEF Sound, StillRecalls
<1> QED BY <1>1, <1>2, <1>3

-----------------------------------------------------------------------------
(* The replay of the journal.                                              *)

(* What the journal may hold, and what windows there may be.               *)
SoundWindows == {w \in Windows : SoundWindow(w)}
Sounds == {Absent} \cup SoundWindows
Entries == Observations \cup SoundWindows

(* The entry is a revocation at r.                                         *)
Revokes(e, r) == e \in Observations /\ e.revoked /\ ValidObservation(e) /\ e.at = r

(* Restart's replay.                                                       *)
ReplayFrom(o, log) ==
    LET replay[n \in 0..Len(log)] == IF n = 0 THEN o ELSE Replayed(replay[n - 1], log[n])
    IN  replay[Len(log)]

(* The sound windows as a set.                                             *)
LEMMA SoundMembers ==
    \A w : Sound(w) <=> w \in Sounds
<1> SUFFICES ASSUME NEW w PROVE Sound(w) <=> w \in Sounds
  OBVIOUS
<1>1. SoundWindow(w) => w \in Windows
  BY PartsFields DEF SoundWindow
<1> QED BY <1>1 DEF Sound, Sounds, SoundWindows

(* One entry replayed; a revocation in it is recalled from then on.        *)
LEMMA ReplayedGood ==
    ASSUME NEW w, Sound(w), NEW e \in Entries, started \in Int, NEW v, v = Replayed(w, e)
    PROVE  Sound(v) /\ StillRecalls(w, v) /\ \A r : Revokes(e, r) => Recalls(v, r)
<1>1. CASE e \in Observations
  <2>1. v = Outcome(w, Apply(w, e))
    BY <1>1, Zenon DEF Replayed, AfterObservation
  <2>2. /\ Sound(v) /\ StillRecalls(w, v)
        /\ e.revoked /\ ValidObservation(e) => Recalls(v, e.at)
    BY <1>1, <2>1, OutcomeGood
  <2> QED BY <2>2 DEF Revokes
<1>2. CASE e \notin Observations
  <2>1. PICK x : x = Repaired(e)
    OBVIOUS
  <2>2. Sound(e)
    BY <1>2 DEF Entries, SoundWindows, Sound
  <2>3. Sound(x)
    BY <2>1, <2>2, RepairedGood
  <2>4. v = Merged(w, x)
    BY <1>2, <2>1, Zenon DEF Replayed
  <2>5. Sound(v) /\ StillRecalls(w, v)
    BY <2>3, <2>4, MergedGood
  <2> QED BY <1>2, <2>5 DEF Revokes
<1> QED BY <1>1, <1>2

(* The journal replayed, by induction over its entries: what the snapshot  *)
(* recalls and what the journal revokes is recalled.                       *)
LEMMA ReplayGood ==
    ASSUME NEW o, Sound(o), NEW log \in Seq(Entries), started \in Int, NEW v, v = ReplayFrom(o, log)
    PROVE  /\ Sound(v) /\ StillRecalls(o, v)
           /\ \A r \in Int : (\E i \in DOMAIN log : Revokes(log[i], r)) => Recalls(v, r)
<1> DEFINE N == Len(log)
           f == CHOOSE f : f = [n \in 0 .. N |-> IF n = 0 THEN o ELSE Replayed(f[n - 1], log[n])]
           F == [e \in Sounds \X (1 .. N) |-> Replayed(e[1], log[e[2]])]
           T == {n \in Nat : /\ Sound(f[n]) /\ StillRecalls(o, f[n])
                             /\ \A r \in Int : (\E i \in 1 .. n : Revokes(log[i], r)) => Recalls(f[n], r)}
<1>1. v = f[N]
  BY DEF ReplayFrom
<1>2. N \in Nat /\ DOMAIN log = 1 .. N
  BY LenProperties
<1>3. \A n \in 1 .. N : log[n] \in Entries
  BY <1>2, ElementOfSeq
<1>4. \A x \in Sounds, n \in 1 .. N : Replayed(x, log[n]) \in Sounds
  <2> SUFFICES ASSUME NEW x \in Sounds, NEW n \in 1 .. N PROVE Replayed(x, log[n]) \in Sounds
    OBVIOUS
  <2>1. PICK y : y = Replayed(x, log[n])
    OBVIOUS
  <2>2. Sound(x) /\ log[n] \in Entries
    BY <1>3, SoundMembers
  <2>3. Sound(y)
    BY <2>1, <2>2, ReplayedGood
  <2> QED BY <2>1, <2>3, SoundMembers
<1>5. o \in Sounds
  BY SoundMembers
<1> HIDE DEF N
<1>6. F \in [Sounds \X (1 .. N) -> Sounds]
  BY <1>4
<1>7. \A x \in Sounds, n \in 1 .. N : F[<<x, n>>] = Replayed(x, log[n])
  OBVIOUS
<1> HIDE DEF F
<1>8. PICK g \in [0 .. N -> Sounds] : RoundsOf(g, o, N, F)
  BY <1>2, <1>5, <1>6, RoundsExist
<1>9. \A n \in 1 .. N : g[n] = Replayed(g[n - 1], log[n])
  <2>1. \A n \in 1 .. N : n - 1 \in 0 .. N
    BY <1>2
  <2> QED BY <1>7, <1>8, <2>1 DEF RoundsOf
<1>10. g = [n \in 0 .. N |-> IF n = 0 THEN o ELSE Replayed(g[n - 1], log[n])]
  <2>1. g = [n \in 0 .. N |-> g[n]]
    OBVIOUS
  <2>2. \A n \in 0 .. N : n # 0 => n \in 1 .. N
    BY <1>2
  <2> QED BY <1>8, <1>9, <2>1, <2>2 DEF RoundsOf
<1>11. f = [n \in 0 .. N |-> IF n = 0 THEN o ELSE Replayed(f[n - 1], log[n])]
  BY <1>10
<1> HIDE DEF f
<1>12. f[0] = o
  BY <1>2, <1>11
<1>13. \A n \in 1 .. N : f[n] = Replayed(f[n - 1], log[n])
  <2> SUFFICES ASSUME NEW n \in 1 .. N PROVE f[n] = Replayed(f[n - 1], log[n])
    OBVIOUS
  <2>1. n \in 0 .. N /\ n # 0
    BY <1>2
  <2> QED BY <1>11, <2>1
<1>14. 0 \in T
  BY <1>12 DEF StillRecalls
<1>15. ASSUME NEW n \in 0 .. N - 1, n \in T PROVE n + 1 \in T
  <2>1. n \in Nat /\ n + 1 \in 1 .. N /\ n + 1 \in Nat /\ (n + 1) - 1 = n
    BY <1>2
  <2>2. PICK x : x = f[n + 1]
    OBVIOUS
  <2>3. x = Replayed(f[n], log[n + 1]) /\ log[n + 1] \in Entries
    BY <1>3, <1>13, <2>1, <2>2
  <2>4. /\ Sound(f[n]) /\ StillRecalls(o, f[n])
        /\ \A r \in Int : (\E i \in 1 .. n : Revokes(log[i], r)) => Recalls(f[n], r)
    BY <1>15
  <2>5. Sound(x) /\ StillRecalls(f[n], x) /\ \A r : Revokes(log[n + 1], r) => Recalls(x, r)
    BY <2>3, <2>4, ReplayedGood
  <2>6. StillRecalls(o, x)
    BY <2>4, <2>5 DEF StillRecalls
  <2>7. ASSUME NEW r \in Int, NEW i \in 1 .. n + 1, Revokes(log[i], r) PROVE Recalls(x, r)
    <3>1. i = n + 1 \/ i \in 1 .. n
      BY <2>1
    <3> QED BY <2>4, <2>5, <2>7, <3>1 DEF StillRecalls
  <2> QED BY <2>1, <2>2, <2>5, <2>6, <2>7
<1> HIDE DEF T
<1>16. N \in 0 .. N
  BY <1>2
<1>17. N \in T
  BY <1>2, <1>14, <1>15, <1>16, RoundInduction
<1> QED BY <1>1, <1>2, <1>17 DEF T

-----------------------------------------------------------------------------
(* The steps.                                                              *)

(* Every window there is is sound, and so are those the journal holds.     *)
QuotaSound ==
    /\ {quotaNow, started, revokedAt} \subseteq Int
    /\ Sound(window) /\ Sound(saved) /\ Sound(backup)
    /\ journal \in Seq(Entries)

(* A revocation at r would survive a restart.                              *)
Survives(kept, log, r) == Recalls(kept, r) \/ \E i \in DOMAIN log : Revokes(log[i], r)

(* The latest revocation taken, until its retention ends.                  *)
Remembered ==
    revokedAt # 0 /\ quotaNow <= revokedAt + RevocationRetention
        => /\ Recalls(window, revokedAt)
           /\ storing => Survives(saved, journal, revokedAt)

QuotaInvariant == QuotaSound /\ Remembered

(* A longer journal survives as well.                                      *)
LEMMA SurvivesLonger ==
    ASSUME NEW log \in Seq(Entries), NEW more \in Seq(Entries), NEW kept, NEW r, Survives(kept, log, r)
    PROVE  Survives(kept, log \o more, r)
<1>1. CASE \E i \in DOMAIN log : Revokes(log[i], r)
  <2>1. PICK i \in DOMAIN log : Revokes(log[i], r)
    BY <1>1
  <2>2. i \in DOMAIN (log \o more) /\ (log \o more)[i] = log[i]
    OBVIOUS
  <2> QED BY <2>1, <2>2 DEF Survives
<1> QED BY <1>1 DEF Survives

(* A journal of one entry.                                                 *)
LEMMA OneEntry ==
    ASSUME NEW e \in Entries
    PROVE  <<e>> \in Seq(Entries)
OBVIOUS

(* The journal after a step that logs these entries.                       *)
LEMMA LoggedGood ==
    ASSUME QuotaSound, NEW entries \in Seq(Entries), Logged(entries)
    PROVE  /\ journal' \in Seq(Entries)
           /\ \A kept, r : Survives(kept, journal, r) => Survives(kept, journal', r)
<1>1. journal' = journal \o entries \/ journal' = journal
  BY DEF Logged
<1>2. journal \in Seq(Entries)
  BY DEF QuotaSound
<1>3. ASSUME NEW kept, NEW r, Survives(kept, journal, r) PROVE Survives(kept, journal \o entries, r)
  BY <1>2, <1>3, SurvivesLonger
<1>4. journal \o entries \in Seq(Entries)
  BY <1>2
<1> QED BY <1>1, <1>2, <1>3, <1>4

(* An observation taken or refused.                                        *)
LEMMA ObserveKeeps ==
    ASSUME QuotaInvariant, NEW o \in Observations, Observe(o)
    PROVE  QuotaInvariant'
<1>1. /\ quotaNow \in Int /\ started \in Int /\ revokedAt \in Int /\ Sound(window)
      /\ UNCHANGED <<quotaNow, started, storing, saved, backup>>
      /\ Take(o, Apply(window, o))
  BY DEF QuotaInvariant, QuotaSound, Observe
<1>2. PICK next : next = Apply(window, o)
  OBVIOUS
<1>3. /\ Logged(IF next = {} THEN <<>> ELSE <<o>>)
      /\ revokedAt' = IF o.revoked /\ next # {} THEN o.at ELSE revokedAt
      /\ window' \in Housekept(Outcome(window, next))
  BY <1>1, <1>2 DEF Take
<1>4. PICK v : v = Outcome(window, next)
  OBVIOUS
<1>5. /\ Sound(v) /\ StillRecalls(window, v)
      /\ o.revoked /\ ValidObservation(o) => Recalls(v, o.at)
  BY <1>1, <1>2, <1>4, OutcomeGood
<1>6. /\ Sound(window')
      /\ \A r \in Int : Recalls(v, r) /\ quotaNow <= r + RevocationRetention => Recalls(window', r)
  BY <1>1, <1>3, <1>4, <1>5, HousekeptGood
<1>7. o.at \in Int
  BY ObservationFields
<1>8. PICK entries : entries = IF next = {} THEN <<>> ELSE <<o>>
  OBVIOUS
<1>9. entries \in Seq(Entries)
  <2>1. <<o>> \in Seq(Entries) /\ <<>> \in Seq(Entries)
    BY OneEntry DEF Entries
  <2> QED BY <1>8, <2>1
<1>10. /\ journal' \in Seq(Entries)
       /\ \A kept, r : Survives(kept, journal, r) => Survives(kept, journal', r)
  BY <1>3, <1>8, <1>9, LoggedGood DEF QuotaInvariant
<1>11. QuotaSound'
  BY <1>1, <1>3, <1>6, <1>7, <1>10 DEF QuotaInvariant, QuotaSound
<1>12. CASE o.revoked /\ next # {}
  <2>1. ValidObservation(o)
    BY <1>2, <1>12, Zenon DEF Apply
  <2>2. Recalls(v, o.at) /\ revokedAt' = o.at
    BY <1>3, <1>5, <1>12, <2>1
  <2>3. storing => Survives(saved, journal', o.at)
    <3>1. ASSUME storing PROVE Survives(saved, journal', o.at)
      <4>1. journal' = journal \o <<o>> /\ journal \in Seq(Entries)
        BY <1>3, <1>12, <3>1 DEF Logged, QuotaInvariant, QuotaSound
      <4>2. PICK n : n = Len(journal) + 1
        OBVIOUS
      <4>3. n \in DOMAIN (journal \o <<o>>) /\ (journal \o <<o>>)[n] = o
        BY <4>1, <4>2
      <4>4. Revokes(o, o.at)
        BY <1>12, <2>1 DEF Revokes
      <4> QED BY <4>1, <4>3, <4>4 DEF Survives
    <3> QED BY <3>1
  <2>4. Remembered'
    BY <1>1, <1>6, <1>7, <2>2, <2>3 DEF Remembered
  <2> QED BY <1>11, <2>4 DEF QuotaInvariant
<1>13. CASE ~(o.revoked /\ next # {})
  <2>1. revokedAt' = revokedAt
    BY <1>3, <1>13
  <2>2. Remembered'
    BY <1>1, <1>5, <1>6, <1>10, <2>1 DEF Remembered, QuotaInvariant, StillRecalls
  <2> QED BY <1>11, <2>2 DEF QuotaInvariant
<1> QED BY <1>12, <1>13

(* The windows housekept, and perhaps saved or downloaded.                 *)
LEMMA HousekeepingKeeps ==
    ASSUME QuotaInvariant, Housekeep \/ SaveWindows \/ Download
    PROVE  QuotaInvariant'
<1>1. quotaNow \in Int /\ revokedAt \in Int /\ started \in Int /\ Sound(window)
  BY DEF QuotaInvariant, QuotaSound
<1>2. window' \in Housekept(window) /\ UNCHANGED <<quotaNow, started, storing, revokedAt>>
  BY DEF Housekeep, SaveWindows, Download
<1>3. /\ Sound(window')
      /\ \A r \in Int : Recalls(window, r) /\ quotaNow <= r + RevocationRetention => Recalls(window', r)
  BY <1>1, <1>2, HousekeptGood
<1>4. CASE SaveWindows
  <2>1. saved' = window' /\ backup' = backup /\ journal' \in {journal, <<>>}
    BY <1>4 DEF SaveWindows
  <2>2. journal' \in Seq(Entries)
    <3>1. <<>> \in Seq(Entries) /\ journal \in Seq(Entries)
      BY DEF QuotaInvariant, QuotaSound
    <3> QED BY <2>1, <3>1
  <2>3. QuotaSound'
    BY <1>1, <1>2, <1>3, <2>1, <2>2 DEF QuotaInvariant, QuotaSound
  <2>4. Remembered'
    BY <1>1, <1>2, <1>3, <2>1 DEF Remembered, QuotaInvariant, Survives
  <2> QED BY <2>3, <2>4 DEF QuotaInvariant
<1>5. CASE Housekeep \/ Download
  <2>1. saved' = saved /\ journal' = journal /\ (backup' = backup \/ backup' = window')
    BY <1>5 DEF Housekeep, Download
  <2>2. QuotaSound'
    BY <1>1, <1>2, <1>3, <2>1 DEF QuotaInvariant, QuotaSound
  <2>3. Remembered'
    BY <1>1, <1>2, <1>3, <2>1 DEF Remembered, QuotaInvariant, Survives
  <2> QED BY <2>2, <2>3 DEF QuotaInvariant
<1> QED BY <1>4, <1>5

(* A backup merged.                                                        *)
LEMMA ImportKeeps ==
    ASSUME QuotaInvariant, ImportBackup
    PROVE  QuotaInvariant'
<1>1. /\ Sound(window) /\ Sound(backup) /\ backup # Absent /\ Logged(<<backup>>)
      /\ window' = Merged(window, Repaired(backup))
      /\ UNCHANGED <<quotaNow, started, storing, saved, backup, revokedAt>>
      /\ revokedAt \in Int
  BY DEF ImportBackup, QuotaInvariant, QuotaSound
<1>2. PICK x : x = Repaired(backup)
  OBVIOUS
<1>3. PICK v : v = Merged(window, x)
  OBVIOUS
<1>4. Sound(x)
  BY <1>1, <1>2, RepairedGood
<1>5. Sound(v) /\ StillRecalls(window, v)
  BY <1>1, <1>3, <1>4, MergedGood
<1>6. window' = v
  BY <1>1, <1>2, <1>3
<1>7. backup \in Entries
  BY <1>1, SoundMembers DEF Sounds, Entries
<1>8. /\ journal' \in Seq(Entries)
      /\ \A kept, r : Survives(kept, journal, r) => Survives(kept, journal', r)
  BY <1>1, <1>7, OneEntry, LoggedGood DEF QuotaInvariant
<1>9. QuotaSound'
  BY <1>1, <1>5, <1>6, <1>8 DEF QuotaInvariant, QuotaSound
<1>10. Remembered'
  BY <1>1, <1>5, <1>6, <1>8 DEF Remembered, QuotaInvariant, StillRecalls
<1> QED BY <1>9, <1>10 DEF QuotaInvariant

(* A restart from the snapshot and the journal.                            *)
LEMMA RestartKeeps ==
    ASSUME QuotaInvariant, Restart
    PROVE  QuotaInvariant'
<1>1. /\ Sound(saved) /\ started \in Int /\ quotaNow \in Int /\ journal \in Seq(Entries) /\ revokedAt \in Int
      /\ storing /\ started' = quotaNow /\ UNCHANGED <<quotaNow, storing, saved, journal, backup, revokedAt>>
  BY DEF Restart, QuotaInvariant, QuotaSound
<1>2. window' = ReplayFrom(Repaired(saved), journal)
  BY Zenon DEF Restart, ReplayFrom
<1>3. PICK o : o = Repaired(saved)
  OBVIOUS
<1>4. Sound(o) /\ StillRecalls(saved, o)
  BY <1>1, <1>3, RepairedGood
<1>5. PICK v : v = ReplayFrom(o, journal)
  OBVIOUS
<1>6. /\ Sound(v) /\ StillRecalls(o, v)
      /\ \A r \in Int : (\E i \in DOMAIN journal : Revokes(journal[i], r)) => Recalls(v, r)
  BY <1>1, <1>4, <1>5, ReplayGood
<1>7. window' = v
  BY <1>2, <1>3, <1>5
<1>8. QuotaSound'
  BY <1>1, <1>6, <1>7 DEF QuotaInvariant, QuotaSound
<1>9. Survives(saved, journal, revokedAt) => Recalls(v, revokedAt)
  BY <1>1, <1>4, <1>6 DEF Survives, StillRecalls
<1>10. Remembered'
  BY <1>1, <1>7, <1>9 DEF Remembered, QuotaInvariant
<1> QED BY <1>8, <1>10 DEF QuotaInvariant

(* Time passes.                                                            *)
LEMMA TickKeeps ==
    ASSUME QuotaInvariant, NEW n \in QuotaTicks, Tick(n)
    PROVE  QuotaInvariant'
<1>1. n \in Nat /\ RevocationRetention \in Nat
  BY QuotaLimitsAssumption
<1>2. quotaNow' = quotaNow + n /\ UNCHANGED <<window, started, storing, saved, journal, backup, revokedAt>>
  BY DEF Tick
<1>3. quotaNow \in Int /\ revokedAt \in Int
  BY DEF QuotaInvariant, QuotaSound
<1>4. QuotaSound'
  BY <1>1, <1>2, <1>3 DEF QuotaInvariant, QuotaSound
<1>5. quotaNow' <= revokedAt' + RevocationRetention => quotaNow <= revokedAt + RevocationRetention
  BY <1>1, <1>2, <1>3
<1>6. Remembered'
  BY <1>2, <1>5 DEF Remembered, QuotaInvariant
<1> QED BY <1>4, <1>6 DEF QuotaInvariant

(* A new process without a window.                                         *)
LEMMA QuotaInitially ==
    ASSUME QuotaInit
    PROVE  QuotaInvariant
BY DEF QuotaInit, QuotaInvariant, QuotaSound, Sound, Remembered

(* Every step keeps the invariant.                                         *)
LEMMA QuotaSteps ==
    ASSUME QuotaInvariant, [QuotaNext]_quotaVars
    PROVE  QuotaInvariant'
<1>1. CASE \E o \in Observations : Observe(o)
  BY <1>1, ObserveKeeps
<1>2. CASE \E n \in QuotaTicks : Tick(n)
  BY <1>2, TickKeeps
<1>3. CASE Housekeep \/ SaveWindows \/ Download
  BY <1>3, HousekeepingKeeps
<1>4. CASE ImportBackup
  BY <1>4, ImportKeeps
<1>5. CASE Restart
  BY <1>5, RestartKeeps
<1>6. CASE UNCHANGED quotaVars
  BY <1>6 DEF quotaVars, QuotaInvariant, QuotaSound, Remembered
<1> QED BY <1>1, <1>2, <1>3, <1>4, <1>5, <1>6 DEF QuotaNext

(* Every window held, saved, downloaded or logged is sound, and until its  *)
(* retention ends the latest revocation taken is recalled, and would be    *)
(* after a restart, for any observations and any number of them.           *)
THEOREM QuotaInvariantHolds == QuotaSpec => []QuotaInvariant
BY QuotaInitially, QuotaSteps, PTL DEF QuotaSpec

(* The live window always satisfies what validateQuotaSnapshot demands of  *)
(* a stored one, so that neither repair nor refusal loses a period that    *)
(* ran out.                                                                *)
THEOREM LiveWindowsLoad == QuotaSpec => []LiveWindowLoads
<1>1. QuotaInvariant => LiveWindowLoads
  <2> SUFFICES ASSUME Sound(window), window # Absent PROVE LiveWindowLoads
    BY DEF QuotaInvariant, QuotaSound, LiveWindowLoads
  <2>1. SoundWindow(window) /\ Parts(window)
    BY DEF Sound, SoundWindow
  <2>2. GoodPart(window.current, window.length) /\ GoodPart(window.previous, window.length)
    BY <2>1 DEF Parts, Loose
  <2>3. QuotaPeriods = {window.current, window.previous} \ {Absent}
    BY DEF QuotaPeriods
  <2>4. window.length > 0 \/ (window.hidden /\ QuotaPeriods = {} /\ window.updated > 0)
    BY <2>1, <2>3 DEF SoundWindow, Empty
  <2>5. ASSUME NEW p \in QuotaPeriods
        PROVE  /\ p.start < p.end /\ (p.byReset \/ p.end - p.start = window.length)
               /\ Sorted(p.samples)
               /\ \A o \in ToSet(p.samples) : ValidObservation(o) /\ ~o.revoked /\ o.length = window.length
    <3>1. GoodPeriod(p, window.length)
      BY <2>2, <2>3 DEF GoodPart
    <3>2. GoodSamples(p.samples, window.length)
      BY <3>1 DEF GoodPeriod
    <3>3. DOMAIN p.samples = 1 .. Len(p.samples)
      BY <3>2, LenProperties DEF GoodSamples
    <3>4. \A o \in ToSet(p.samples) : ValidObservation(o) /\ ~o.revoked /\ o.length = window.length
      BY <3>2, <3>3 DEF GoodSamples, GoodSample, ToSet
    <3> QED BY <3>1, <3>2, <3>4 DEF GoodPeriod, GoodSamples
  <2> QED BY <2>4, <2>5 DEF LiveWindowLoads
<1> QED BY <1>1, QuotaInvariantHolds, PTL

(* A predecessor that ran out never overlaps the current period, however   *)
(* the deadlines drift (quota_cycles.go).                                  *)
THEOREM BoundariesShared == QuotaSpec => []BoundaryShared
<1>1. QuotaInvariant => BoundaryShared
  BY DEF QuotaInvariant, QuotaSound, Sound, SoundWindow, Parts, Bound, BoundaryShared
<1> QED BY <1>1, QuotaInvariantHolds, PTL

(* A window is shown only by usage observed after its latest revocation,   *)
(* whatever arrives late, is merged, expires or is replayed                *)
(* (applyQuotaObservationLocked, mergeQuotaSnapshotLocked).                *)
THEOREM RevocationsHold == QuotaSpec => []RevocationHolds
<1>1. QuotaInvariant => RevocationHolds
  BY DEF QuotaInvariant, Remembered, Recalls, RevocationHolds
<1> QED BY <1>1, QuotaInvariantHolds, PTL

(* Dropping samples of a period that is full does not erase a reset found  *)
(* in it, nor move what is shown, unless a dropped sample is one that      *)
(* denied a drop (quotaCompactSamples).                                    *)
THEOREM CompactionsKeepReset == QuotaSpec => []CompactionKeepsReset
<1>1. QuotaInvariant => CompactionKeepsReset
  <2> DEFINE all(p, o) == InsertAt(p.samples,
                                   Cardinality({i \in DOMAIN p.samples : p.samples[i].at <= o.at}) + 1, o)
             full(p, o) == [p EXCEPT !.samples = all(p, o)]
             kept(p, o) == Compact(full(p, o))
  <2> SUFFICES ASSUME Sound(window), NEW p \in QuotaPeriods, NEW o \in Observations,
                      ValidObservation(o), ~o.revoked, o.length = window.length, ~Has(p, o),
                      LatestReset(all(p, o), p.end).drop # 0,
                      PreReset(all(p, o), p.end - p.start, p.end) = 0,
                      Resets(kept(p, o).samples, p.end) \subseteq Resets(all(p, o), p.end)
               PROVE  Effective(kept(p, o)).start = Effective(full(p, o)).start
    BY Zenon DEF QuotaInvariant, QuotaSound, CompactionKeepsReset
  <2>1. window # Absent /\ p \in {window.current, window.previous} /\ p # Absent
    BY DEF QuotaPeriods
  <2>2. GoodPeriod(p, window.length)
    BY <2>1 DEF Sound, SoundWindow, Parts, Loose, GoodPart
  <2>3. PICK samples : samples = all(p, o)
    OBVIOUS
  <2>4. PICK q : q = full(p, o)
    OBVIOUS
  <2>5. GoodSamples(samples, window.length)
    BY <2>2, <2>3, InsertedSamples DEF GoodPeriod, GoodSample, Has
  <2>6. GoodPeriod(q, window.length) /\ Resampled(p, q) /\ q.samples = samples
    <3>1. q = [p EXCEPT !.samples = samples]
      BY <2>3, <2>4
    <3> QED BY <2>2, <2>5, <3>1, SamplesReplaced
  <2>7. q.start = p.start /\ q.end = p.end
    BY <2>6 DEF Resampled
  <2>8. PICK c : c = Compact(q)
    OBVIOUS
  <2>9. c = kept(p, o)
    BY <2>4, <2>8
  <2>10. LatestReset(samples, p.end).drop # 0 /\ PreReset(samples, p.end - p.start, p.end) = 0
         /\ Resets(c.samples, p.end) \subseteq Resets(samples, p.end)
    BY <2>3, <2>9
  <2>11. LatestReset(q.samples, q.end).drop # 0 /\ PreReset(q.samples, q.end - q.start, q.end) = 0
         /\ Resets(c.samples, q.end) \subseteq Resets(q.samples, q.end)
    BY <2>6, <2>7, <2>10
  <2>12. Effective(c).start = Effective(q).start
    BY <2>6, <2>8, <2>11, CompactKeepsDrop
  <2> QED BY <2>4, <2>9, <2>12
<1> QED BY <1>1, QuotaInvariantHolds, PTL
=============================================================================
