------------------------ MODULE SqliteLedger_proofs ------------------------
(* Proofs about SqliteLedger: every database that a caller, a view, a      *)
(* backup or a restore sees is a sound ledger, and the pages of a view     *)
(* join to the records of its generation.  The order is bottom up: the     *)
(* order of a page and its prefixes, what a ledger is, the effect of one   *)
(* mutation, the rounds of a batch by induction over their number, the     *)
(* collection, what one generation keeps of an earlier one, the steps.     *)
EXTENDS SqliteLedger, Inductions, FiniteSetTheorems, FunctionTheorems,
        SequenceTheorems

-----------------------------------------------------------------------------
(* The order of a page.  Rows are told apart by their id, so that time and *)
(* id order them totally, and there is one way to enumerate them.          *)

Keyed(rows) ==
    /\ IsFiniteSet(rows)
    /\ \A r \in rows : r.at \in Int /\ r.id \in Int
    /\ \A r, s \in rows : r.id = s.id => r = s

(* f is the rows from the first to the last, n of them.                    *)
Enumerates(f, n, rows) ==
    /\ f \in [1 .. n -> rows]
    /\ \A r \in rows : \E i \in 1 .. n : f[i] = r
    /\ \A i, j \in 1 .. n : PageOrder(f[i], f[j]) <=> i < j

Before(rows, r) == {q \in rows : PageOrder(q, r)}

(* The order is strict and total.                                          *)
LEMMA TotalOrder ==
    ASSUME NEW rows, Keyed(rows), NEW r \in rows, NEW s \in rows, NEW t \in rows
    PROVE  /\ ~PageOrder(r, r)
           /\ PageOrder(r, s) /\ PageOrder(s, t) => PageOrder(r, t)
           /\ r # s => PageOrder(r, s) \/ PageOrder(s, r)
BY DEF Keyed, PageOrder

(* How many rows come before one, and that later rows have more.           *)
LEMMA RankBound ==
    ASSUME NEW rows, Keyed(rows), NEW r \in rows
    PROVE  /\ IsFiniteSet(Before(rows, r)) /\ Cardinality(Before(rows, r)) \in 0 .. Cardinality(rows) - 1
           /\ \A s \in rows : PageOrder(r, s) => Cardinality(Before(rows, r)) < Cardinality(Before(rows, s))
<1>1. IsFiniteSet(rows) /\ Cardinality(rows) \in Nat
  BY FS_CardinalityType DEF Keyed
<1>2. \A s \in rows : /\ IsFiniteSet(Before(rows, s)) /\ Cardinality(Before(rows, s)) \in Nat
                      /\ Cardinality(Before(rows, s)) <= Cardinality(rows) - 1
  <2> TAKE s \in rows
  <2>1. IsFiniteSet(rows \ {s}) /\ Cardinality(rows \ {s}) = Cardinality(rows) - 1
    BY <1>1, FS_RemoveElement
  <2>2. Before(rows, s) \subseteq rows \ {s}
    BY TotalOrder DEF Before
  <2> QED BY <2>1, <2>2, FS_Subset, FS_CardinalityType
<1>3. ASSUME NEW s \in rows, PageOrder(r, s)
      PROVE  Cardinality(Before(rows, r)) < Cardinality(Before(rows, s))
  <2>1. r \notin Before(rows, r)
    BY TotalOrder DEF Before
  <2>2. Cardinality(Before(rows, r) \cup {r}) = Cardinality(Before(rows, r)) + 1
    BY <1>2, <2>1, FS_AddElement
  <2>3. Before(rows, r) \cup {r} \subseteq Before(rows, s)
    BY <1>3, TotalOrder DEF Before
  <2>4. Cardinality(Before(rows, r) \cup {r}) <= Cardinality(Before(rows, s))
    BY <1>2, <2>3, FS_Subset
  <2> QED BY <1>2, <2>2, <2>4
<1> QED BY <1>1, <1>2, <1>3

(* Ordered enumerates the rows.                                            *)
LEMMA OrderedEnumerates ==
    ASSUME NEW rows, Keyed(rows)
    PROVE  Enumerates(Ordered(rows), Cardinality(rows), rows) /\ Cardinality(rows) \in Nat
<1> DEFINE N == Cardinality(rows)
           rank == [r \in rows |-> Cardinality(Before(rows, r)) + 1]
           f == Ordered(rows)
<1>1. IsFiniteSet(rows) /\ N \in Nat
  BY FS_CardinalityType DEF Keyed
<1>2. \A r \in rows : rank[r] = Cardinality(Before(rows, r)) + 1 /\ rank[r] \in 1 .. N
  BY <1>1, RankBound
<1>3. \A r, s \in rows : PageOrder(r, s) => rank[r] < rank[s]
  BY <1>2, RankBound
<1>4. rank \in [rows -> 1 .. N]
  BY <1>2
<1> HIDE DEF rank, N, f
<1>5. \A r, s \in rows : rank[r] = rank[s] => r = s
  BY <1>2, <1>3, TotalOrder
<1>6. rank \in Injection(rows, 1 .. N)
  BY <1>4, <1>5, Fun_IsInj
<1>7. IsFiniteSet(1 .. N) /\ Cardinality(1 .. N) = N
  BY <1>1, FS_Interval
<1>8. rank \in Surjection(rows, 1 .. N)
  BY <1>6, <1>7, FS_Injection DEF N
<1>9. \A n \in 1 .. N : \E r \in rows : rank[r] = n
  BY <1>8 DEF Surjection
<1>10. DOMAIN f = 1 .. N /\ \A n \in 1 .. N : f[n] \in rows /\ rank[f[n]] = n
  <2>1. f = [n \in 1 .. N |-> CHOOSE r \in rows : Cardinality({q \in rows : PageOrder(q, r)}) = n - 1]
    BY DEF f, N, Ordered
  <2>2. ASSUME NEW n \in 1 .. N PROVE f[n] \in rows /\ rank[f[n]] = n
    <3>1. \E r \in rows : Cardinality({q \in rows : PageOrder(q, r)}) = n - 1
      <4>1. PICK r \in rows : rank[r] = n
        BY <1>9
      <4>2. Cardinality(Before(rows, r)) \in Int
        BY <1>1, RankBound DEF N
      <4>3. Cardinality(Before(rows, r)) = n - 1
        BY <1>2, <4>1, <4>2
      <4> QED BY <4>3 DEF Before
    <3>2. f[n] = CHOOSE r \in rows : Cardinality({q \in rows : PageOrder(q, r)}) = n - 1
      BY <2>1
    <3>3. f[n] \in rows /\ Cardinality({q \in rows : PageOrder(q, f[n])}) = n - 1
      BY <3>1, <3>2
    <3> QED BY <3>3, <1>2 DEF Before
  <2> QED BY <2>1, <2>2
<1>11. \A r \in rows : rank[r] \in 1 .. N /\ f[rank[r]] = r
  BY <1>2, <1>5, <1>10
<1>12. \A i, j \in 1 .. N : PageOrder(f[i], f[j]) <=> i < j
  <2> TAKE i, j \in 1 .. N
  <2>1. PageOrder(f[i], f[j]) => i < j
    BY <1>3, <1>10
  <2>2. i < j => f[i] # f[j]
    BY <1>10
  <2>3. f[i] # f[j] => PageOrder(f[i], f[j]) \/ PageOrder(f[j], f[i])
    BY <1>10, TotalOrder
  <2>4. PageOrder(f[j], f[i]) => j < i
    BY <1>3, <1>10
  <2> QED BY <2>1, <2>2, <2>3, <2>4
<1>13. f \in [1 .. N -> rows]
  <2>1. f = [n \in DOMAIN f |-> f[n]]
    BY DEF f, Ordered
  <2>2. DOMAIN f = 1 .. N /\ \A n \in 1 .. N : f[n] \in rows
    BY <1>10
  <2> QED BY <2>1, <2>2, Zenon
<1> QED BY <1>1, <1>11, <1>12, <1>13 DEF f, N, Enumerates

(* Before row i of an enumeration there are i - 1.                         *)
LEMMA RankInEnumeration ==
    ASSUME NEW rows, NEW n \in Nat, NEW f, Enumerates(f, n, rows), NEW i \in 1 .. n
    PROVE  Cardinality(Before(rows, f[i])) = i - 1
<1> DEFINE g == [j \in 1 .. i - 1 |-> f[j]]
           B == Before(rows, f[i])
<1>1. \A j \in 1 .. i - 1 : g[j] \in B /\ g[j] = f[j]
  BY DEF Enumerates, Before
<1>2. \A r \in B : \E j \in 1 .. i - 1 : g[j] = r
  <2> TAKE r \in B
  <2>1. PICK j \in 1 .. n : f[j] = r
    BY DEF Before, Enumerates
  <2>2. j < i
    BY <2>1 DEF Before, Enumerates
  <2> QED BY <2>1, <2>2
<1>3. \A j, k \in 1 .. i - 1 : g[j] = g[k] => j = k
  <2> TAKE j, k \in 1 .. i - 1
  <2>1. ~PageOrder(f[k], f[k])
    BY DEF Enumerates
  <2>2. j < k => PageOrder(f[j], f[k])
    BY DEF Enumerates
  <2>3. k < j => PageOrder(f[k], f[j])
    BY DEF Enumerates
  <2> QED BY <2>1, <2>2, <2>3
<1>4. g \in Bijection(1 .. i - 1, B)
  <2>1. g \in [1 .. i - 1 -> B]
    BY <1>1
  <2> HIDE DEF g, B
  <2> QED BY <1>2, <1>3, <2>1, Fun_IsBij
<1> QED BY <1>4, FS_CountingElements DEF ExistsBijection

(* There is no other enumeration.                                          *)
LEMMA OneEnumeration ==
    ASSUME NEW rows, NEW n \in Nat, NEW f, Enumerates(f, n, rows)
    PROVE  Cardinality(rows) = n /\ f = Ordered(rows)
<1>1. \A i, j \in 1 .. n : f[i] = f[j] => i = j
  <2> TAKE i, j \in 1 .. n
  <2>1. ~PageOrder(f[j], f[j]) /\ (i < j => PageOrder(f[i], f[j])) /\ (j < i => PageOrder(f[j], f[i]))
    BY DEF Enumerates
  <2> QED BY <2>1
<1>2. f \in Bijection(1 .. n, rows)
  BY <1>1, Fun_IsBij DEF Enumerates
<1>3. Cardinality(rows) = n
  BY <1>2, FS_CountingElements DEF ExistsBijection
<1>4. ASSUME NEW i \in 1 .. n PROVE Ordered(rows)[i] = f[i]
  <2>1. f[i] \in rows /\ Cardinality({q \in rows : PageOrder(q, f[i])}) = i - 1
    <3>1. Cardinality(Before(rows, f[i])) = i - 1
      BY RankInEnumeration
    <3>2. f[i] \in rows
      BY DEF Enumerates
    <3> QED BY <3>1, <3>2 DEF Before
  <2>2. Ordered(rows)[i] = CHOOSE r \in rows : Cardinality({q \in rows : PageOrder(q, r)}) = i - 1
    BY <1>3 DEF Ordered
  <2>3. PICK k \in 1 .. n : f[k] = Ordered(rows)[i]
    BY <2>1, <2>2 DEF Enumerates
  <2>4. Cardinality({q \in rows : PageOrder(q, Ordered(rows)[i])}) = i - 1
    BY <2>1, <2>2
  <2>5. Cardinality({q \in rows : PageOrder(q, f[k])}) = k - 1
    BY RankInEnumeration DEF Before
  <2>6. k = i
    BY <2>3, <2>4, <2>5
  <2> QED BY <2>3, <2>6
<1>5. Ordered(rows) = [i \in DOMAIN Ordered(rows) |-> Ordered(rows)[i]] /\ DOMAIN Ordered(rows) = 1 .. n
  BY <1>3 DEF Ordered
<1>6. f \in [1 .. n -> rows]
  BY DEF Enumerates
<1> QED BY <1>3, <1>4, <1>5, <1>6

(* The first k rows in order.                                              *)
FirstRows(rows, k) == [i \in 1 .. k |-> Ordered(rows)[i]]

RestOf(rows, k) == [i \in 1 .. Cardinality(rows) - k |-> Ordered(rows)[k + i]]

(* The rows behind row k, which the keyset of the query selects, in order  *)
(* are the rest of all rows in order.                                      *)
LEMMA OrderedRest ==
    ASSUME NEW rows, Keyed(rows), NEW k \in 1 .. Cardinality(rows)
    PROVE  LET rest == {r \in rows : PageOrder(Ordered(rows)[k], r)}
           IN  Ordered(rest) = RestOf(rows, k) /\ Cardinality(rest) = Cardinality(rows) - k
<1> DEFINE N == Cardinality(rows)
           f == Ordered(rows)
           rest == {r \in rows : PageOrder(f[k], r)}
           g == [i \in 1 .. N - k |-> f[k + i]]
<1>1. Enumerates(f, N, rows) /\ N \in Nat
  BY OrderedEnumerates
<1> HIDE DEF f, N
<1>2. \A i \in 1 .. N - k : g[i] = f[k + i] /\ k + i \in 1 .. N
  BY <1>1 DEF N
<1>3. \A i \in 1 .. N - k : g[i] \in rest
  BY <1>1, <1>2 DEF Enumerates, N
<1>4. \A r \in rest : \E i \in 1 .. N - k : g[i] = r
  <2> TAKE r \in rest
  <2>1. PICK j \in 1 .. N : f[j] = r
    BY <1>1 DEF Enumerates
  <2>2. k \in 1 .. N
    BY DEF N
  <2>3. k < j
    BY <1>1, <2>1, <2>2 DEF Enumerates
  <2>4. j - k \in 1 .. N - k /\ k + (j - k) = j
    BY <1>1, <2>2, <2>3
  <2> QED BY <2>1, <2>4, <1>2
<1>5. \A i, j \in 1 .. N - k : PageOrder(g[i], g[j]) <=> i < j
  <2> TAKE i, j \in 1 .. N - k
  <2>1. PageOrder(f[k + i], f[k + j]) <=> k + i < k + j
    BY <1>1, <1>2 DEF Enumerates
  <2>2. k \in Nat
    BY <1>1 DEF N
  <2>3. k + i < k + j <=> i < j
    BY <1>1, <2>2
  <2> QED BY <1>2, <2>1, <2>3
<1>6. Enumerates(g, N - k, rest) /\ N - k \in Nat
  <2>1. g \in [1 .. N - k -> rest]
    BY <1>3
  <2>2. k \in 1 .. N
    BY DEF N
  <2>3. N - k \in Nat
    BY <1>1, <2>2
  <2> HIDE DEF g, rest
  <2> QED BY <1>4, <1>5, <2>1, <2>3 DEF Enumerates
<1>7. Cardinality(rest) = N - k /\ g = Ordered(rest)
  <2> HIDE DEF g, rest
  <2> QED BY <1>6, OneEnumeration
<1> QED BY <1>7 DEF f, N, RestOf

(* A page is a prefix, and not empty if there is a row.                    *)
LEMMA FittingPrefix ==
    ASSUME NEW S, NEW rows \in Seq(S), NEW limit \in Nat \ {0}
    PROVE  \E n \in 0 .. Len(rows) : /\ Fitting(rows, limit) = SubSeq(rows, 1, n)
                                     /\ Len(rows) > 0 => n > 0
<1> DEFINE bytes[n \in 0 .. Len(rows)] == IF n = 0 THEN 0 ELSE bytes[n - 1] + rows[n].weight
           fits == {n \in 0 .. Len(rows) : n <= limit /\ (n > 1 => bytes[n] <= PageBytes)}
           top == CHOOSE n \in fits : \A m \in fits : m <= n
<1>1. Fitting(rows, limit) = SubSeq(rows, 1, top)
  BY DEF Fitting
<1> HIDE DEF bytes
<1>2. 0 \in fits /\ fits \subseteq 0 .. Len(rows)
  OBVIOUS
<1>3. Len(rows) > 0 => 1 \in fits
  OBVIOUS
<1> HIDE DEF fits
<1>4. Len(rows) \in Nat
  OBVIOUS
<1>5. \E n \in fits : \A m \in fits : m <= n
  BY <1>2, <1>4, GreatestElement
<1>6. top \in fits /\ \A m \in fits : m <= top
  BY <1>5
<1> HIDE DEF top
<1>7. Len(rows) > 0 => top > 0
  BY <1>2, <1>3, <1>6
<1> QED BY <1>1, <1>2, <1>6, <1>7

(* The rows a view has joined are the first in order.                      *)
Joined(pages, rows, ended) ==
    \E k \in 0 .. Cardinality(rows) :
        pages = FirstRows(rows, k) /\ (ended => k = Cardinality(rows))

(* Another page joins the next ones: the rows behind the last one, in      *)
(* order, and none only when there is no more.                             *)
LEMMA NextPage ==
    ASSUME NEW rows, Keyed(rows), NEW pages, Joined(pages, rows, FALSE), NEW limit \in Nat \ {0},
           NEW page, page = Fitting(Ordered({r \in rows : pages # <<>> => PageOrder(Last(pages), r)}), limit)
    PROVE  Joined(pages \o page, rows, page = <<>>)
<1> DEFINE N == Cardinality(rows)
           f == Ordered(rows)
           rest == {r \in rows : pages # <<>> => PageOrder(Last(pages), r)}
<1>1. Enumerates(f, N, rows) /\ N \in Nat
  BY OrderedEnumerates
<1>2. PICK k \in 0 .. N : pages = FirstRows(rows, k)
  BY DEF Joined
<1> HIDE DEF N, f
<1>3. \A i \in 1 .. N : f[i] \in rows
  BY <1>1 DEF Enumerates
<1>4. pages \in Seq(rows) /\ Len(pages) = k /\ \A i \in 1 .. k : pages[i] = f[i]
  <2>1. pages = [i \in 1 .. k |-> f[i]]
    BY <1>2 DEF FirstRows, f
  <2>2. pages \in [1 .. k -> rows] /\ k \in Nat
    BY <1>1, <1>2, <1>3, <2>1
  <2>3. pages \in Seq(rows)
    BY <2>2, SeqDef
  <2>4. Len(pages) = k
    BY <2>2, <2>3, LenProperties
  <2> QED BY <2>1, <2>3, <2>4
<1>5. Cardinality(rest) = N - k /\ Ordered(rest) = [i \in 1 .. N - k |-> f[k + i]]
  <2>1. CASE k = 0
    <3>1. pages = <<>>
      BY <1>4, <2>1, EmptySeq
    <3>2. rest = rows
      BY <3>1
    <3>3. f = [i \in 1 .. N |-> f[i]]
      BY <1>1 DEF Enumerates
    <3>4. [i \in 1 .. N - 0 |-> f[0 + i]] = [i \in 1 .. N |-> f[i]]
      BY <1>1
    <3>5. Ordered(rest) = f /\ Cardinality(rest) = N
      BY <3>2 DEF N, f
    <3>6. N - 0 = N
      BY <1>1
    <3> QED BY <2>1, <3>3, <3>4, <3>5, <3>6
  <2>2. CASE k # 0
    <3>1. pages # <<>> /\ k \in 1 .. N
      BY <1>1, <1>4, <2>2
    <3>2. Last(pages) = f[k]
      BY <1>4, <3>1 DEF Last
    <3>3. rest = {r \in rows : PageOrder(Ordered(rows)[k], r)}
      BY <3>1, <3>2 DEF f
    <3>4. Ordered(rest) = RestOf(rows, k) /\ Cardinality(rest) = Cardinality(rows) - k
      BY <3>1, <3>3, OrderedRest DEF N
    <3> QED BY <3>4 DEF RestOf, N, f
  <2> QED BY <2>1, <2>2
<1> DEFINE g == Ordered(rest)
<1>6. page = Fitting(g, limit)
  OBVIOUS
<1> HIDE DEF rest, g
<1>7. g \in Seq(rows) /\ Len(g) = N - k /\ \A i \in 1 .. N - k : g[i] = f[k + i]
  <2>1. g = [i \in 1 .. N - k |-> f[k + i]]
    BY <1>5 DEF g
  <2>2. N - k \in Nat /\ \A i \in 1 .. N - k : k + i \in 1 .. N
    BY <1>1, <1>2
  <2>3. g \in [1 .. N - k -> rows]
    BY <1>3, <2>1, <2>2
  <2>4. g \in Seq(rows)
    BY <2>2, <2>3, SeqDef
  <2>5. Len(g) = N - k
    BY <2>2, <2>3, <2>4, LenProperties
  <2> QED BY <2>1, <2>4, <2>5
<1>8. PICK n \in 0 .. N - k : page = SubSeq(g, 1, n) /\ (N - k > 0 => n > 0)
  BY <1>6, <1>7, FittingPrefix
<1>9. page \in Seq(rows) /\ Len(page) = n /\ \A i \in 1 .. n : page[i] = f[k + i]
  <2>1. SubSeq(g, 1, n) \in Seq(rows) /\ Len(SubSeq(g, 1, n)) = n
        /\ \A i \in 1 .. n : SubSeq(g, 1, n)[i] = g[i]
    BY <1>1, <1>7, SubSeqProperties
  <2>2. \A i \in 1 .. n : i \in 1 .. N - k
    BY <1>1, <1>2
  <2> QED BY <1>7, <1>8, <2>1, <2>2
<1>10. pages \o page = FirstRows(rows, k + n)
  <2>1. pages \o page \in Seq(rows) /\ Len(pages \o page) = k + n
    BY <1>4, <1>9, ConcatProperties
  <2>2. ASSUME NEW i \in 1 .. k + n PROVE (pages \o page)[i] = f[i]
    <3>1. CASE i <= k
      BY <1>2, <1>4, <1>9, <3>1, ConcatProperties
    <3>2. CASE i > k
      <4>1. i - k \in 1 .. n /\ k + (i - k) = i
        BY <1>1, <1>2, <3>2
      <4>2. (pages \o page)[i] = page[i - k]
        BY <1>4, <1>9, <3>2, <2>1, ConcatProperties
      <4> QED BY <1>9, <4>1, <4>2
    <3>3. i <= k \/ i > k
      BY <1>1, <1>2
    <3> QED BY <3>1, <3>2, <3>3
  <2>3. pages \o page = [i \in 1 .. k + n |-> (pages \o page)[i]]
    BY <2>1, LenProperties
  <2> QED BY <2>2, <2>3 DEF FirstRows, f
<1>11. k + n \in 0 .. N
  BY <1>1, <1>2, <1>8
<1>12. page = <<>> => k + n = N
  <2>1. page = <<>> => n = 0
    BY <1>9
  <2> QED BY <1>1, <1>2, <1>8, <2>1
<1> QED BY <1>10, <1>11, <1>12 DEF Joined, N

-----------------------------------------------------------------------------
(* A ledger: what every committed database is.  Beyond Sound, the ids are  *)
(* those of the lines the cursor has passed, and a revision is that of a   *)
(* batch already committed.                                                *)

Position(d) == IF d.progress = Missing THEN 0 ELSE d.progress.position

Passed(d) ==
    IF d.progress = Missing THEN {}
    ELSE {<<d.progress.file, l>> : l \in 1 .. d.progress.position}

Live(d) == {d.records[id].line : id \in DOMAIN d.records}

Removals(d) == IF d.removals = Missing THEN 0 ELSE d.removals.value

(* Each record has a line of its own, and its edits are those counted.     *)
RowsOwnLines(d) ==
    /\ \A id1, id2 \in DOMAIN d.records :
         d.records[id1].line = d.records[id2].line => id1 = id2
    /\ DOMAIN d.edits = DOMAIN d.records
    /\ \A id \in DOMAIN d.records : d.records[id].edits = d.edits[id]

UsedIdentities(d) == {d.records[id].identity : id \in DOMAIN d.records}
UsedValues(d) == UNION {ValuesOf(d.records[id]) : id \in DOMAIN d.records}

RevisionsKnown(d) ==
    /\ \A id \in DOMAIN d.records : d.records[id].revision <= d.generation
    /\ d.removals # Missing => d.removals.revision \in 1 .. d.generation

Ledger(d) ==
    /\ d \in Databases
    /\ Position(d) \in 0 .. Len(LineOf) /\ d.next = Position(d) + 1
    /\ DOMAIN d.records \subseteq 1 .. Position(d)
    /\ RevisionsKnown(d)
    /\ RowsOwnLines(d)
    /\ Live(d) \cup d.gone = Passed(d) /\ Live(d) \cap d.gone = {}
    /\ Cardinality(d.gone) = Removals(d)
    /\ d.identities = UsedIdentities(d)
    /\ d.values = UsedValues(d)

(* The fields of a database.                                               *)
LEMMA DatabaseFields ==
    ASSUME NEW d \in Databases
    PROVE  /\ d.generation \in Nat /\ d.next \in Nat
           /\ DOMAIN d.records \subseteq Lines /\ d.records \in [DOMAIN d.records -> LedgerRows]
           /\ DOMAIN d.edits \subseteq Lines /\ d.edits \in [DOMAIN d.edits -> Nat]
           /\ d.identities \subseteq Identities /\ d.values \subseteq LedgerValues
           /\ d.gone \subseteq Files \X Lines
           /\ d.progress = Missing \/ d.progress \in [file : Files, position : Nat]
           /\ d.removals = Missing \/ d.removals \in [revision : Nat, value : Nat]
<1>1. d.records \in UNION {[ids -> LedgerRows] : ids \in SUBSET Lines}
  BY DEF Databases
<1>2. PICK ids \in SUBSET Lines : d.records \in [ids -> LedgerRows]
  BY <1>1
<1>3. d.edits \in UNION {[is -> Nat] : is \in SUBSET Lines}
  BY DEF Databases
<1>4. PICK is \in SUBSET Lines : d.edits \in [is -> Nat]
  BY <1>3
<1> QED BY <1>2, <1>4 DEF Databases

(* The fields of a record of a database.                                   *)
LEMMA RowFields ==
    ASSUME NEW d \in Databases, NEW id \in DOMAIN d.records
    PROVE  /\ d.records[id] \in LedgerRows /\ id \in Lines
           /\ d.records[id].revision \in Nat /\ d.records[id].edits \in Nat
           /\ d.records[id].line \in Files \X Lines
           /\ d.records[id].identity \in Identities /\ d.records[id].payload \in Payloads
<1>1. d.records[id] \in LedgerRows /\ id \in Lines
  BY DatabaseFields
<1> QED BY <1>1 DEF LedgerRows

(* A database of given fields.                                             *)
LEMMA MakeDatabase ==
    ASSUME NEW generation \in Nat, NEW next \in Nat,
           NEW I, I \subseteq Lines, NEW records \in [I -> LedgerRows],
           NEW J, J \subseteq Lines, NEW edits \in [J -> Nat],
           NEW identities, identities \subseteq Identities, NEW values, values \subseteq LedgerValues,
           NEW gone, gone \subseteq Files \X Lines,
           NEW progress \in {Missing} \cup [file : Files, position : Nat],
           NEW removals \in {Missing} \cup [revision : Nat, value : Nat],
           NEW d, d = [generation |-> generation, records |-> records, next |-> next,
                       identities |-> identities, values |-> values, progress |-> progress,
                       removals |-> removals, gone |-> gone, edits |-> edits]
    PROVE  d \in Databases
<1>1. records \in UNION {[ids -> LedgerRows] : ids \in SUBSET Lines}
  OBVIOUS
<1>2. edits \in UNION {[ids -> Nat] : ids \in SUBSET Lines}
  OBVIOUS
<1> QED BY <1>1, <1>2 DEF Databases

(* What is stored of a record's values are values.                         *)
LEMMA ValuesType ==
    ASSUME NEW r, r.identity \in Identities, r.payload \in Payloads
    PROVE  ValuesOf(r) \subseteq LedgerValues
BY DEF ValuesOf, LedgerValues

(* What a ledger is to whoever opens it.                                   *)
LEMMA LedgerIsSound ==
    ASSUME NEW d, Ledger(d)
    PROVE  Sound(d)
<1>1. d \in Databases
  BY DEF Ledger
<1>2. IsFiniteSet(DOMAIN d.records)
  <2>1. DOMAIN d.records \subseteq 1 .. Position(d) /\ Position(d) \in Int
    BY DEF Ledger
  <2>2. IsFiniteSet(1 .. Position(d))
    BY <2>1, FS_Interval
  <2> QED BY <2>1, <2>2, FS_Subset
<1>3. Cardinality(Live(d)) = Cardinality(DOMAIN d.records)
  <2> DEFINE S == DOMAIN d.records
             f == [id \in S |-> d.records[id].line]
  <2>1. f \in [S -> Live(d)] /\ \A x, y \in S : f[x] = f[y] => x = y
    BY DEF Live, Ledger, RowsOwnLines
  <2>2. \A t \in Live(d) : \E x \in S : f[x] = t
    BY DEF Live
  <2> HIDE DEF f, S
  <2>3. f \in Bijection(S, Live(d))
    BY <2>1, <2>2, Fun_IsBij
  <2> QED BY <1>2, <2>3, FS_Bijection DEF ExistsBijection, S
<1>4. {r.identity : r \in Held(d)} = UsedIdentities(d)
  BY DEF Held, UsedIdentities
<1>5. UNION {ValuesOf(r) : r \in Held(d)} = UsedValues(d)
  BY DEF Held, UsedValues
<1>6. DOMAIN d.edits = DOMAIN d.records /\ \A id \in DOMAIN d.records : d.records[id].edits = d.edits[id]
  BY DEF Ledger, RowsOwnLines
<1>7. /\ Live(d) \cup d.gone = Passed(d) /\ Live(d) \cap d.gone = {}
      /\ Cardinality(d.gone) = Removals(d)
      /\ d.identities = UsedIdentities(d) /\ d.values = UsedValues(d)
  BY DEF Ledger
<1> QED BY <1>3, <1>4, <1>5, <1>6, <1>7 DEF Sound, Live, Passed, Removals

(* The new database is a ledger.                                           *)
LEMMA NewLedgerIsLedger == Ledger(NewLedger)
<1> DEFINE d == NewLedger
           none == [id \in {} |-> 0]
<1>1. /\ d.generation = 0 /\ d.next = 1 /\ d.records = none /\ d.edits = none
      /\ d.identities = {} /\ d.values = {} /\ d.progress = Missing /\ d.removals = Missing /\ d.gone = {}
  BY DEF NewLedger
<1>2. none \in [{} -> LedgerRows] /\ none \in [{} -> Nat] /\ DOMAIN none = {}
  OBVIOUS
<1>3. d \in Databases
  <2> HIDE DEF none
  <2>1. d = [generation |-> 0, records |-> none, next |-> 1, identities |-> {}, values |-> {},
             progress |-> Missing, removals |-> Missing, gone |-> {}, edits |-> none]
    BY DEF NewLedger, none
  <2> HIDE DEF d
  <2> QED BY <1>2, <2>1, MakeDatabase
<1> HIDE DEF none, d
<1>4. Live(d) = {} /\ Passed(d) = {} /\ Removals(d) = 0 /\ Position(d) = 0
      /\ UsedIdentities(d) = {} /\ UsedValues(d) = {}
  BY <1>1, <1>2 DEF Live, Passed, Removals, Position, UsedIdentities, UsedValues
<1>5. RowsOwnLines(d) /\ RevisionsKnown(d)
  BY <1>1, <1>2 DEF RowsOwnLines, RevisionsKnown
<1>6. Cardinality(d.gone) = 0
  BY <1>1, FS_EmptySet
<1>7. Position(d) \in 0 .. Len(LineOf)
  BY <1>4, LinesAssumption
<1> QED BY <1>1, <1>2, <1>3, <1>4, <1>5, <1>6, <1>7 DEF Ledger, d

-----------------------------------------------------------------------------
(* Batches.  The rounds of a batch, one mutation after the other.          *)

Change == [id : {0} \cup Lines, revision : Nat, delete : BOOLEAN, archived : BOOLEAN, edits : Nat,
           line : Files \X Lines, identity : Identities, payload : Payloads]

(* S is d with record id rewritten, or added, as m says.                   *)
StoredFields(d, id, m, S) ==
    /\ S \in Databases
    /\ S.generation = d.generation /\ S.next = d.next /\ S.progress = d.progress
    /\ S.removals = d.removals /\ S.gone = d.gone
    /\ DOMAIN S.records = DOMAIN d.records \cup {id}
    /\ \A i \in DOMAIN S.records : S.records[i] = IF i = id THEN Row(d, m) ELSE d.records[i]
    /\ DOMAIN S.edits = DOMAIN d.edits \cup {id}
    /\ \A i \in DOMAIN S.edits :
         S.edits[i] = IF i # id THEN d.edits[i] ELSE IF id \in DOMAIN d.edits THEN d.edits[id] + 1 ELSE 0
    /\ S.identities = d.identities \cup {m.identity}
    /\ S.values = d.values \cup ValuesOf(m)

(* The row a mutation writes.                                              *)
LEMMA RowType ==
    ASSUME NEW d \in Databases, NEW m \in Change
    PROVE  /\ Row(d, m) \in LedgerRows
           /\ Row(d, m).revision = d.generation /\ Row(d, m).edits = m.edits
           /\ Row(d, m).line = m.line /\ Row(d, m).identity = m.identity
           /\ Row(d, m).payload = m.payload /\ ValuesOf(Row(d, m)) = ValuesOf(m)
           /\ ValuesOf(m) \subseteq LedgerValues
<1>1. d.generation \in Nat
  BY DatabaseFields
<1>2. /\ m.edits \in Nat /\ m.archived \in BOOLEAN /\ m.line \in Files \X Lines
      /\ m.identity \in Identities /\ m.payload \in Payloads
  BY DEF Change
<1>3. /\ Row(d, m).revision = d.generation /\ Row(d, m).edits = m.edits
      /\ Row(d, m).line = m.line /\ Row(d, m).identity = m.identity /\ Row(d, m).payload = m.payload
  BY DEF Row
<1>4. Row(d, m) \in LedgerRows
  BY <1>1, <1>2 DEF Row, LedgerRows
<1>5. ValuesOf(Row(d, m)) = ValuesOf(m)
  BY <1>3 DEF ValuesOf
<1> QED BY <1>2, <1>3, <1>4, <1>5, ValuesType

(* Writing a row (applyState of sqlite_ledger.go) changes that row, its    *)
(* count of edits, and adds what it needs to identities and values.        *)
LEMMA StoredEffect ==
    ASSUME NEW d \in Databases, NEW id \in Lines, NEW m \in Change
    PROVE  StoredFields(d, id, m, Stored(d, id, m))
<1> DEFINE row == Row(d, m)
           I == DOMAIN d.records \cup {id}
           J == DOMAIN d.edits \cup {id}
           records == [i \in I |-> IF i = id THEN row ELSE d.records[i]]
           edits == [i \in J |-> IF i # id THEN d.edits[i] ELSE IF i \in DOMAIN d.edits THEN d.edits[i] + 1 ELSE 0]
           identities == d.identities \cup {row.identity}
           values == d.values \cup ValuesOf(row)
           S == Stored(d, id, m)
<1>1. S = [d EXCEPT !.records = records, !.edits = edits, !.identities = identities, !.values = values]
  BY DEF Stored
<1>2. /\ row \in LedgerRows /\ row.identity = m.identity /\ ValuesOf(row) = ValuesOf(m)
      /\ ValuesOf(m) \subseteq LedgerValues /\ m.identity \in Identities
  BY RowType DEF Change
<1>3. I \subseteq Lines /\ records \in [I -> LedgerRows]
  BY <1>2, DatabaseFields
<1>4. J \subseteq Lines /\ edits \in [J -> Nat]
  <2>1. DOMAIN d.edits \subseteq Lines /\ \A i \in DOMAIN d.edits : d.edits[i] \in Nat
    BY DatabaseFields
  <2> QED BY <2>1
<1>5. identities \subseteq Identities /\ values \subseteq LedgerValues
  BY <1>2, DatabaseFields
<1> HIDE DEF records, edits, identities, values, row
<1>6. /\ S.generation = d.generation /\ S.next = d.next /\ S.progress = d.progress
      /\ S.removals = d.removals /\ S.gone = d.gone
      /\ S.records = records /\ S.edits = edits /\ S.identities = identities /\ S.values = values
      /\ S = [generation |-> d.generation, records |-> records, next |-> d.next,
              identities |-> identities, values |-> values, progress |-> d.progress,
              removals |-> d.removals, gone |-> d.gone, edits |-> edits]
  BY <1>1 DEF Databases
<1> HIDE DEF S
<1>7. /\ d.generation \in Nat /\ d.next \in Nat /\ d.gone \subseteq Files \X Lines
      /\ d.progress \in {Missing} \cup [file : Files, position : Nat]
      /\ d.removals \in {Missing} \cup [revision : Nat, value : Nat]
  BY DatabaseFields
<1>8. S \in Databases
  BY <1>3, <1>4, <1>5, <1>6, <1>7, MakeDatabase
<1>9. DOMAIN records = I /\ DOMAIN edits = J
  BY DEF records, edits
<1>10. /\ \A i \in I : records[i] = IF i = id THEN Row(d, m) ELSE d.records[i]
       /\ \A i \in J : edits[i] = IF i # id THEN d.edits[i] ELSE IF id \in DOMAIN d.edits THEN d.edits[id] + 1 ELSE 0
  BY DEF records, edits, row
<1>11. identities = d.identities \cup {m.identity} /\ values = d.values \cup ValuesOf(m)
  BY <1>2 DEF identities, values
<1> QED BY <1>6, <1>8, <1>9, <1>10, <1>11 DEF StoredFields, S

(* The three kinds of mutation.                                            *)
LEMMA MutatedKinds ==
    ASSUME NEW d, NEW m
    PROVE  /\ m.id = 0 /\ m.delete = FALSE => Mutated(d, m) = [Stored(d, d.next, m) EXCEPT !.next = @ + 1]
           /\ m.id # 0 /\ m.delete = FALSE => Mutated(d, m) = Stored(d, m.id, m)
           /\ m.id # 0 /\ m.delete = TRUE => Mutated(d, m) =
                [d EXCEPT !.gone = @ \cup {d.records[m.id].line},
                          !.records = [i \in DOMAIN @ \ {m.id} |-> @[i]],
                          !.edits = [i \in DOMAIN @ \ {m.id} |-> @[i]]]
<1>1. ASSUME m.id = 0, m.delete = FALSE
      PROVE  Mutated(d, m) = [Stored(d, d.next, m) EXCEPT !.next = @ + 1]
  BY <1>1 DEF Mutated
<1>2. ASSUME m.id # 0, m.delete = FALSE PROVE Mutated(d, m) = Stored(d, m.id, m)
  BY <1>2 DEF Mutated
<1>3. ASSUME m.id # 0, m.delete = TRUE
      PROVE  Mutated(d, m) = [d EXCEPT !.gone = @ \cup {d.records[m.id].line},
                                       !.records = [i \in DOMAIN @ \ {m.id} |-> @[i]],
                                       !.edits = [i \in DOMAIN @ \ {m.id} |-> @[i]]]
  BY <1>3 DEF Mutated
<1> QED BY <1>1, <1>2, <1>3

(* What an insertion does.                                                 *)
InsertedFields(d, m, S) ==
    /\ S \in Databases
    /\ S.generation = d.generation /\ S.next = d.next + 1 /\ S.progress = d.progress
    /\ S.removals = d.removals /\ S.gone = d.gone
    /\ DOMAIN S.records = DOMAIN d.records \cup {d.next}
    /\ \A i \in DOMAIN S.records : S.records[i] = IF i = d.next THEN Row(d, m) ELSE d.records[i]
    /\ DOMAIN S.edits = DOMAIN d.edits \cup {d.next}
    /\ \A i \in DOMAIN S.edits : S.edits[i] = IF i # d.next THEN d.edits[i] ELSE 0
    /\ S.identities = d.identities \cup {m.identity}
    /\ S.values = d.values \cup ValuesOf(m)

(* An insertion adds the row under the next number.                        *)
LEMMA InsertedEffect ==
    ASSUME NEW d \in Databases, d.next \in Lines, d.next \notin DOMAIN d.edits, NEW m \in Change,
           m.id = 0, m.delete = FALSE
    PROVE  InsertedFields(d, m, Mutated(d, m))
<1> DEFINE T == Stored(d, d.next, m)
           S == Mutated(d, m)
<1>1. StoredFields(d, d.next, m, T)
  BY StoredEffect
<1>2. S = [T EXCEPT !.next = @ + 1]
  BY MutatedKinds
<1> HIDE DEF T, S
<1>3. T \in Databases
  BY <1>1 DEF StoredFields
<1>4. /\ S.generation = T.generation /\ S.next = T.next + 1 /\ S.progress = T.progress
      /\ S.removals = T.removals /\ S.gone = T.gone /\ S.records = T.records /\ S.edits = T.edits
      /\ S.identities = T.identities /\ S.values = T.values
  BY <1>2, <1>3 DEF Databases
<1>5. S \in Databases
  BY <1>2, <1>3 DEF Databases
<1> QED BY <1>1, <1>4, <1>5 DEF StoredFields, InsertedFields, S

(* What a deletion does.                                                   *)
DeletedFields(d, id, S) ==
    /\ S \in Databases
    /\ S.generation = d.generation /\ S.next = d.next /\ S.progress = d.progress
    /\ S.removals = d.removals /\ S.gone = d.gone \cup {d.records[id].line}
    /\ DOMAIN S.records = DOMAIN d.records \ {id}
    /\ \A i \in DOMAIN S.records : S.records[i] = d.records[i]
    /\ DOMAIN S.edits = DOMAIN d.edits \ {id}
    /\ \A i \in DOMAIN S.edits : S.edits[i] = d.edits[i]
    /\ S.identities = d.identities /\ S.values = d.values

(* A deletion takes the row and adds its line to those gone; identities    *)
(* and values wait for the collection.                                     *)
LEMMA DeletedEffect ==
    ASSUME NEW d \in Databases, NEW m, m.id \in DOMAIN d.records, m.id # 0, m.delete = TRUE
    PROVE  DeletedFields(d, m.id, Mutated(d, m))
<1> DEFINE id == m.id
           I == DOMAIN d.records \ {id}
           J == DOMAIN d.edits \ {id}
           records == [i \in I |-> d.records[i]]
           edits == [i \in J |-> d.edits[i]]
           gone == d.gone \cup {d.records[id].line}
           S == Mutated(d, m)
<1>1. S = [d EXCEPT !.gone = gone, !.records = records, !.edits = edits]
  BY MutatedKinds
<1>2. gone \subseteq Files \X Lines
  BY DatabaseFields, RowFields
<1>3. I \subseteq Lines /\ records \in [I -> LedgerRows] /\ J \subseteq Lines /\ edits \in [J -> Nat]
  BY DatabaseFields
<1> HIDE DEF records, edits, gone, S
<1>4. /\ S.generation = d.generation /\ S.next = d.next /\ S.progress = d.progress
      /\ S.removals = d.removals /\ S.gone = gone
      /\ S.records = records /\ S.edits = edits /\ S.identities = d.identities /\ S.values = d.values
      /\ S = [generation |-> d.generation, records |-> records, next |-> d.next,
              identities |-> d.identities, values |-> d.values, progress |-> d.progress,
              removals |-> d.removals, gone |-> gone, edits |-> edits]
  BY <1>1 DEF Databases
<1>5. /\ d.generation \in Nat /\ d.next \in Nat /\ d.identities \subseteq Identities
      /\ d.values \subseteq LedgerValues
      /\ d.progress \in {Missing} \cup [file : Files, position : Nat]
      /\ d.removals \in {Missing} \cup [revision : Nat, value : Nat]
  BY DatabaseFields
<1>6. S \in Databases
  <2>1. records \in UNION {[ids -> LedgerRows] : ids \in SUBSET Lines}
    BY <1>3
  <2>2. edits \in UNION {[ids -> Nat] : ids \in SUBSET Lines}
    BY <1>3
  <2> QED BY <1>2, <1>4, <1>5, <2>1, <2>2 DEF Databases
<1>7. DOMAIN records = I /\ DOMAIN edits = J
      /\ (\A i \in I : records[i] = d.records[i]) /\ (\A i \in J : edits[i] = d.edits[i])
  BY DEF records, edits
<1> QED BY <1>4, <1>6, <1>7 DEF DeletedFields, gone, S

(* The database when the transaction has begun: the generation, the cursor *)
(* and the removals are those of the batch, the records as they were.      *)
Opened(d, batch) ==
    [d EXCEPT !.generation = @ + 1,
              !.progress = IF batch.progress = Missing THEN @
                           ELSE [file |-> batch.progress.file, position |-> batch.progress.to],
              !.removals = IF batch.state = Missing THEN @
                           ELSE [revision |-> d.generation + 1, value |-> batch.state.value]]

Rounds(o, q, N, f) == f = [n \in 0 .. N |-> IF n = 0 THEN o ELSE Mutated(f[n - 1], q[n])]

(* The rounds of a batch are a function of their number.                   *)
LEMMA BatchRoundsExist ==
    ASSUME NEW o, NEW q, NEW N \in Nat
    PROVE  \E f : Rounds(o, q, N, f)
<1> DEFINE T == {m \in Nat : \E f : f = [n \in 0 .. m |-> IF n = 0 THEN o ELSE Mutated(f[n - 1], q[n])]}
<1>1. 0 \in T
  <2> DEFINE f == [n \in 0 .. 0 |-> o]
  <2>1. f = [n \in 0 .. 0 |-> IF n = 0 THEN o ELSE Mutated(f[n - 1], q[n])]
    OBVIOUS
  <2> QED BY <2>1
<1>2. ASSUME NEW m \in 0 .. N - 1, m \in T PROVE m + 1 \in T
  <2>1. PICK f : f = [n \in 0 .. m |-> IF n = 0 THEN o ELSE Mutated(f[n - 1], q[n])]
    BY <1>2
  <2> DEFINE g == [n \in 0 .. m + 1 |-> IF n = m + 1 THEN Mutated(f[m], q[m + 1]) ELSE f[n]]
  <2>2. \A n \in 0 .. m + 1 : g[n] = IF n = 0 THEN o ELSE Mutated(g[n - 1], q[n])
    <3> SUFFICES ASSUME NEW n \in 0 .. m + 1
                 PROVE  g[n] = IF n = 0 THEN o ELSE Mutated(g[n - 1], q[n])
      OBVIOUS
    <3>1. CASE n = 0
      BY <2>1, <3>1
    <3>2. CASE n \in 1 .. m
      <4>1. f[n] = Mutated(f[n - 1], q[n])
        BY <2>1, <3>2
      <4>2. g[n] = f[n] /\ g[n - 1] = f[n - 1]
        BY <3>2
      <4> HIDE DEF g
      <4> QED BY <3>2, <4>1, <4>2
    <3>3. CASE n = m + 1
      <4>1. g[n] = Mutated(f[m], q[m + 1]) /\ g[n - 1] = f[m] /\ n # 0
        BY <3>3
      <4> HIDE DEF g
      <4> QED BY <3>3, <4>1
    <3> QED BY <3>1, <3>2, <3>3
  <2>3. g = [n \in 0 .. m + 1 |-> g[n]]
    OBVIOUS
  <2> HIDE DEF g
  <2>4. g = [n \in 0 .. m + 1 |-> IF n = 0 THEN o ELSE Mutated(g[n - 1], q[n])]
    BY <2>2, <2>3
  <2> QED BY <2>4
<1> HIDE DEF T
<1>3. N \in T
  BY <1>1, <1>2, RoundInduction
<1> QED BY <1>3 DEF T, Rounds

(* A batch is its rounds, then the collection.                             *)
LEMMA AppliedRounds ==
    ASSUME NEW d, NEW batch, Len(batch.mutations) \in Nat
    PROVE  \E f : /\ f[0] = Opened(d, batch)
                  /\ \A n \in 0 .. Len(batch.mutations) - 1 : f[n + 1] = Mutated(f[n], batch.mutations[n + 1])
                  /\ Applied(d, batch) = Collected(d, f[Len(batch.mutations)], Named(batch))
<1> DEFINE o == Opened(d, batch)
           q == batch.mutations
           N == Len(q)
           f == CHOOSE f : f = [n \in 0 .. N |-> IF n = 0 THEN o ELSE Mutated(f[n - 1], q[n])]
<1>1. Applied(d, batch) = Collected(d, f[N], Named(batch))
  BY DEF Applied, Opened
<1>2. f = [n \in 0 .. N |-> IF n = 0 THEN o ELSE Mutated(f[n - 1], q[n])]
  <2> HIDE DEF N, o, q
  <2>1. \E g : Rounds(o, q, N, g)
    BY BatchRoundsExist DEF N, q
  <2> QED BY <2>1 DEF Rounds
<1> HIDE DEF f
<1>3. f[0] = o
  BY <1>2
<1>4. ASSUME NEW n \in 0 .. N - 1 PROVE f[n + 1] = Mutated(f[n], q[n + 1])
  <2>1. n + 1 \in 0 .. N /\ n + 1 # 0 /\ (n + 1) - 1 = n
    OBVIOUS
  <2> QED BY <1>2, <2>1
<1> QED BY <1>1, <1>3, <1>4

(* What is left of the invariant between rounds.  N is the records named   *)
(* so far, o the database the transaction began with.  Identities and      *)
(* values may be held that only records of before used.                    *)
Pending(o, M, N) ==
    /\ M \in Databases
    /\ M.generation = o.generation /\ M.progress = o.progress /\ M.removals = o.removals
    /\ \A id \in DOMAIN M.records :
         \/ M.records[id].revision = M.generation
         \/ id \in DOMAIN o.records /\ M.records[id] = o.records[id]
    /\ RowsOwnLines(M)
    /\ UsedIdentities(M) \subseteq M.identities
    /\ \A x \in M.identities :
         x \in UsedIdentities(M) \/ \E id \in N : id \in DOMAIN o.records /\ x = o.records[id].identity
    /\ UsedValues(M) \subseteq M.values
    /\ \A v \in M.values :
         v \in UsedValues(M) \/ \E id \in N : id \in DOMAIN o.records /\ v \in ValuesOf(o.records[id])

(* After the collection only what is used is left.                         *)
CollectedFields(M, e) ==
    /\ e \in Databases
    /\ e.generation = M.generation /\ e.next = M.next /\ e.progress = M.progress
    /\ e.removals = M.removals /\ e.gone = M.gone /\ e.records = M.records /\ e.edits = M.edits
    /\ e.identities = UsedIdentities(M) /\ e.values = UsedValues(M)

(* The collection leaves of identities and values what some row uses: what *)
(* was pending is exactly what only named rows had.                        *)
LEMMA CollectedEffect ==
    ASSUME NEW d, NEW o, o.records = d.records, NEW N, N \subseteq DOMAIN d.records,
           NEW M, Pending(o, M, N)
    PROVE  CollectedFields(M, Collected(d, M, N))
<1> DEFINE old == {d.records[id] : id \in N}
           dead == {r.identity : r \in old} \ {r.identity : r \in Held(M)}
           before == UNION {ValuesOf(r) : r \in old}
           lost == before \ (UNION {ValuesOf(r) : r \in Held(M)})
           e == Collected(d, M, N)
<1>1. e = [M EXCEPT !.identities = @ \ dead, !.values = @ \ lost]
  BY DEF Collected
<1>2. {r.identity : r \in Held(M)} = UsedIdentities(M) /\ UNION {ValuesOf(r) : r \in Held(M)} = UsedValues(M)
  BY DEF Held, UsedIdentities, UsedValues
<1>3. M.identities \ dead = UsedIdentities(M)
  <2>1. dead = {d.records[id].identity : id \in N} \ UsedIdentities(M)
    BY <1>2
  <2> HIDE DEF dead
  <2>2. \A x \in M.identities : x \in UsedIdentities(M) \/ \E id \in N : x = d.records[id].identity
    BY DEF Pending
  <2>3. UsedIdentities(M) \subseteq M.identities
    BY DEF Pending
  <2>4. \A x : x \in dead <=> x \notin UsedIdentities(M) /\ \E id \in N : x = d.records[id].identity
    BY <2>1
  <2> QED BY <2>2, <2>3, <2>4
<1>4. M.values \ lost = UsedValues(M)
  <2>1. lost = before \ UsedValues(M)
    <3> HIDE DEF before
    <3> QED BY <1>2
  <2> HIDE DEF lost
  <2>2. \A v \in M.values : v \in UsedValues(M) \/ \E id \in N : v \in ValuesOf(d.records[id])
    BY DEF Pending
  <2>3. UsedValues(M) \subseteq M.values
    BY DEF Pending
  <2>4. \A v : v \in lost <=> v \notin UsedValues(M) /\ \E id \in N : v \in ValuesOf(d.records[id])
    <3>1. \A v : v \in before <=> \E id \in N : v \in ValuesOf(d.records[id])
      <4> TAKE v
      <4>1. v \in before <=> \E T \in {ValuesOf(r) : r \in old} : v \in T
        OBVIOUS
      <4> QED BY <4>1
    <3> HIDE DEF before
    <3> QED BY <2>1, <3>1
  <2> QED BY <2>2, <2>3, <2>4
<1> HIDE DEF dead, lost, before, e
<1>5. e = [M EXCEPT !.identities = UsedIdentities(M), !.values = UsedValues(M)]
  BY <1>1, <1>3, <1>4
<1>6. M \in Databases /\ UsedIdentities(M) \subseteq Identities /\ UsedValues(M) \subseteq LedgerValues
  <2>1. M \in Databases /\ UsedIdentities(M) \subseteq M.identities /\ UsedValues(M) \subseteq M.values
    BY DEF Pending
  <2> QED BY <2>1, DatabaseFields
<1>7. e \in Databases
  BY <1>5, <1>6 DEF Databases
<1> QED BY <1>5, <1>6, <1>7 DEF CollectedFields, e, Databases

-----------------------------------------------------------------------------
(* The database when the transaction has begun.                            *)
OpenedFields(d, batch, o) ==
    /\ o \in Databases
    /\ o.generation = d.generation + 1 /\ o.next = d.next /\ o.records = d.records /\ o.edits = d.edits
    /\ o.identities = d.identities /\ o.values = d.values /\ o.gone = d.gone
    /\ o.progress = IF batch.progress = Missing THEN d.progress
                    ELSE [file |-> batch.progress.file, position |-> batch.progress.to]
    /\ o.removals = IF batch.state = Missing THEN d.removals
                    ELSE [revision |-> d.generation + 1, value |-> batch.state.value]

(* A batch moves the cursor within the file, if at all, and counts in Nat. *)
BatchFields(batch) ==
    /\ batch.progress # Missing => batch.progress.file \in Files /\ batch.progress.to \in Nat
    /\ batch.state # Missing => batch.state.value \in Nat

(* Opening a transaction changes the generation, the cursor and the count  *)
(* of removals.                                                            *)
LEMMA OpenedEffect ==
    ASSUME NEW d \in Databases, NEW batch, BatchFields(batch)
    PROVE  OpenedFields(d, batch, Opened(d, batch))
<1> DEFINE progress == IF batch.progress = Missing THEN d.progress
                       ELSE [file |-> batch.progress.file, position |-> batch.progress.to]
           removals == IF batch.state = Missing THEN d.removals
                       ELSE [revision |-> d.generation + 1, value |-> batch.state.value]
           o == Opened(d, batch)
<1>1. o = [d EXCEPT !.generation = @ + 1, !.progress = progress, !.removals = removals]
  BY DEF Opened
<1>2. d.generation \in Nat
  BY DatabaseFields
<1>3. progress \in {Missing} \cup [file : Files, position : Nat]
  <2>1. CASE batch.progress = Missing
    BY <2>1, DatabaseFields
  <2>2. CASE batch.progress # Missing
    BY <2>2 DEF BatchFields
  <2> QED BY <2>1, <2>2
<1>4. removals \in {Missing} \cup [revision : Nat, value : Nat]
  <2>1. CASE batch.state = Missing
    BY <2>1, DatabaseFields
  <2>2. CASE batch.state # Missing
    BY <1>2, <2>2 DEF BatchFields
  <2> QED BY <2>1, <2>2
<1> HIDE DEF o, progress, removals
<1>5. /\ o.generation = d.generation + 1 /\ o.next = d.next /\ o.records = d.records /\ o.edits = d.edits
      /\ o.identities = d.identities /\ o.values = d.values /\ o.gone = d.gone
      /\ o.progress = progress /\ o.removals = removals
  BY <1>1 DEF Databases
<1>6. o \in Databases
  <2>1. /\ d.records \in UNION {[ids -> LedgerRows] : ids \in SUBSET Lines}
        /\ d.edits \in UNION {[ids -> Nat] : ids \in SUBSET Lines}
    BY DEF Databases
  <2>2. /\ d.next \in Nat /\ d.identities \subseteq Identities /\ d.values \subseteq LedgerValues
        /\ d.gone \subseteq Files \X Lines /\ d.generation + 1 \in Nat
    BY <1>2, DatabaseFields
  <2>3. o = [generation |-> d.generation + 1, records |-> d.records, next |-> d.next,
             identities |-> d.identities, values |-> d.values, progress |-> progress,
             removals |-> removals, gone |-> d.gone, edits |-> d.edits]
    BY <1>1 DEF Databases
  <2> QED BY <1>3, <1>4, <2>1, <2>2, <2>3 DEF Databases
<1> QED BY <1>5, <1>6 DEF OpenedFields, progress, removals, o

(* What is used of a ledger just opened is what it holds.                  *)
LEMMA OpenedPending ==
    ASSUME NEW d, Ledger(d), NEW batch, NEW o, OpenedFields(d, batch, o)
    PROVE  Pending(o, o, {}) /\ Live(o) = Live(d)
<1>1. UsedIdentities(o) = o.identities /\ UsedValues(o) = o.values /\ Live(o) = Live(d)
  BY DEF OpenedFields, Ledger, UsedIdentities, UsedValues, Live
<1>2. RowsOwnLines(o)
  BY DEF OpenedFields, Ledger, RowsOwnLines
<1>3. o \in Databases
  BY DEF OpenedFields
<1> QED BY <1>1, <1>2, <1>3 DEF Pending

(* An import: records of the lines of a file that follow the cursor.       *)
Imports(batch, file, from, n) ==
    /\ batch.progress = [file |-> file, from |-> from, to |-> from + n] /\ batch.state = Missing
    /\ batch.mutations \in Seq(Change) /\ Len(batch.mutations) = n
    /\ \A i \in 1 .. n :
         LET m == batch.mutations[i]
         IN m.id = 0 /\ m.delete = FALSE /\ m.edits = 0 /\ m.line = <<file, from + i>>

Imported(o, M, file, from, n) ==
    /\ Pending(o, M, {})
    /\ M.next = from + n + 1 /\ M.gone = o.gone
    /\ DOMAIN M.records \subseteq 1 .. from + n
    /\ \A t : t \in Live(M) <=> t \in Live(o) \/ \E l \in from + 1 .. from + n : t = <<file, l>>

(* One insertion of an import: the record of the next line, under its      *)
(* number.                                                                 *)
LEMMA ImportRound ==
    ASSUME NEW o, NEW M, NEW file \in Files, NEW from \in Nat, NEW n \in Nat, from + n + 1 \in Lines,
           Imported(o, M, file, from, n), \A t \in Live(o) : \E l \in 1 .. from : t = <<file, l>>,
           NEW m \in Change, m.id = 0, m.delete = FALSE, m.edits = 0, m.line = <<file, from + n + 1>>
    PROVE  Imported(o, Mutated(M, m), file, from, n + 1)
<1> DEFINE S == Mutated(M, m)
           k == from + n + 1
<1>1. M \in Databases /\ M.next = k /\ RowsOwnLines(M)
  BY DEF Imported, Pending
<1>2. k \notin DOMAIN M.records /\ DOMAIN M.edits = DOMAIN M.records
  BY DEF Imported, Pending, RowsOwnLines
<1>3. InsertedFields(M, m, S)
  BY <1>1, <1>2, InsertedEffect
<1> HIDE DEF S
<1>4. /\ Row(M, m).revision = M.generation /\ Row(M, m).edits = 0 /\ Row(M, m).line = <<file, k>>
      /\ Row(M, m).identity = m.identity /\ ValuesOf(Row(M, m)) = ValuesOf(m)
  BY <1>1, RowType
<1> HIDE DEF k
<1>5. DOMAIN S.records = DOMAIN M.records \cup {k} /\ S.records[k] = Row(M, m)
      /\ \A i \in DOMAIN M.records : S.records[i] = M.records[i]
  BY <1>1, <1>2, <1>3 DEF InsertedFields
<1>6. <<file, k>> \notin Live(M)
  <2> SUFFICES ASSUME <<file, k>> \in Live(M) PROVE FALSE
    OBVIOUS
  <2>1. PICK l \in 1 .. from + n : <<file, k>> = <<file, l>>
    BY DEF Imported
  <2> QED BY <2>1 DEF k
<1>7. \A t : t \in Live(S) <=> t \in Live(M) \/ t = <<file, k>>
  BY <1>4, <1>5 DEF Live
<1>8. RowsOwnLines(S)
  <2>1. \A id1, id2 \in DOMAIN S.records : S.records[id1].line = S.records[id2].line => id1 = id2
    <3> SUFFICES ASSUME NEW id1 \in DOMAIN S.records, NEW id2 \in DOMAIN S.records,
                        S.records[id1].line = S.records[id2].line
                 PROVE  id1 = id2
      OBVIOUS
    <3>1. \A i \in DOMAIN M.records : S.records[i].line \in Live(M)
      BY <1>5 DEF Live
    <3>2. CASE id1 = k \/ id2 = k
      BY <1>4, <1>5, <1>6, <3>1, <3>2
    <3>3. CASE id1 # k /\ id2 # k
      BY <1>1, <1>5, <3>3 DEF RowsOwnLines
    <3> QED BY <3>2, <3>3
  <2>2. DOMAIN S.edits = DOMAIN S.records
    BY <1>1, <1>2, <1>3 DEF InsertedFields
  <2>3. \A i \in DOMAIN S.records : S.records[i].edits = S.edits[i]
    BY <1>1, <1>3, <1>4, <1>5, <2>2 DEF InsertedFields, RowsOwnLines
  <2> QED BY <2>1, <2>2, <2>3 DEF RowsOwnLines
<1>9. \A x : x \in UsedIdentities(S) <=> x \in UsedIdentities(M) \/ x = m.identity
  BY <1>4, <1>5 DEF UsedIdentities
<1>10. \A v : v \in UsedValues(S) <=> v \in UsedValues(M) \/ v \in ValuesOf(m)
  <2> TAKE v
  <2>1. v \in UsedValues(S) <=> \E i \in DOMAIN S.records : v \in ValuesOf(S.records[i])
    BY DEF UsedValues
  <2>2. v \in UsedValues(M) <=> \E i \in DOMAIN M.records : v \in ValuesOf(M.records[i])
    BY DEF UsedValues
  <2> QED BY <1>4, <1>5, <2>1, <2>2
<1>11. /\ S \in Databases /\ S.generation = M.generation /\ S.progress = M.progress
       /\ S.removals = M.removals /\ S.gone = M.gone /\ S.next = k + 1
       /\ S.identities = M.identities \cup {m.identity} /\ S.values = M.values \cup ValuesOf(m)
  BY <1>1, <1>3 DEF InsertedFields
<1>12. /\ M.generation = o.generation /\ M.progress = o.progress /\ M.removals = o.removals
       /\ \A id \in DOMAIN M.records :
            \/ M.records[id].revision = M.generation
            \/ id \in DOMAIN o.records /\ M.records[id] = o.records[id]
       /\ UsedIdentities(M) = M.identities /\ UsedValues(M) = M.values
  BY DEF Imported, Pending
<1>13. \A id \in DOMAIN S.records :
         \/ S.records[id].revision = S.generation
         \/ id \in DOMAIN o.records /\ S.records[id] = o.records[id]
  <2> SUFFICES ASSUME NEW id \in DOMAIN S.records
               PROVE  \/ S.records[id].revision = S.generation
                      \/ id \in DOMAIN o.records /\ S.records[id] = o.records[id]
    OBVIOUS
  <2>1. CASE id = k
    BY <1>4, <1>5, <1>11, <2>1
  <2>2. CASE id \in DOMAIN M.records
    BY <1>5, <1>11, <1>12, <2>2
  <2> QED BY <1>5, <2>1, <2>2
<1>14. Pending(o, S, {})
  BY <1>8, <1>9, <1>10, <1>11, <1>12, <1>13 DEF Pending
<1>15. DOMAIN S.records \subseteq 1 .. from + (n + 1) /\ S.next = from + (n + 1) + 1
  BY <1>5, <1>11 DEF Imported, k
<1>16. \A t : t \in Live(S) <=> t \in Live(o) \/ \E l \in from + 1 .. from + (n + 1) : t = <<file, l>>
  BY <1>7 DEF Imported, k
<1>17. S.gone = o.gone
  BY <1>11 DEF Imported
<1> QED BY <1>14, <1>15, <1>16, <1>17 DEF Imported, S

(* After all rounds.                                                       *)
LEMMA ImportRounds ==
    ASSUME NEW d, Ledger(d), NEW batch, NEW file \in Files, NEW from \in Nat, NEW n \in Nat,
           from + n \in Lines, Imports(batch, file, from, n), from = Position(d),
           \A t \in Live(d) : \E l \in 1 .. from : t = <<file, l>>,
           NEW o, OpenedFields(d, batch, o),
           NEW f, f[0] = o, \A k \in 0 .. n - 1 : f[k + 1] = Mutated(f[k], batch.mutations[k + 1])
    PROVE  Imported(o, f[n], file, from, n)
<1> DEFINE T == {k \in 0 .. n : Imported(o, f[k], file, from, k)}
<1>1. Pending(o, o, {}) /\ Live(o) = Live(d)
  BY OpenedPending
<1>2. 0 \in T
  <2>1. o.next = from + 0 + 1 /\ DOMAIN o.records \subseteq 1 .. from + 0
    BY DEF OpenedFields, Ledger
  <2> QED BY <1>1, <2>1 DEF Imported
<1>3. ASSUME NEW k \in 0 .. n - 1, k \in T PROVE k + 1 \in T
  <2> DEFINE m == batch.mutations[k + 1]
  <2>1. k + 1 \in 1 .. n /\ from + k + 1 \in Lines /\ k \in Nat
    BY LinesAssumption
  <2>2. m \in Change
    <3>1. batch.mutations \in Seq(Change) /\ k + 1 \in DOMAIN batch.mutations
      BY <2>1 DEF Imports
    <3> QED BY <3>1
  <2>3. m.id = 0 /\ m.delete = FALSE /\ m.edits = 0 /\ m.line = <<file, from + (k + 1)>>
    BY <2>1 DEF Imports
  <2>4. from + (k + 1) = from + k + 1 /\ f[k + 1] = Mutated(f[k], m)
    OBVIOUS
  <2> HIDE DEF m
  <2>5. Imported(o, f[k], file, from, k)
    BY <1>3
  <2>6. Imported(o, Mutated(f[k], m), file, from, k + 1)
    BY <1>1, <2>1, <2>2, <2>3, <2>4, <2>5, ImportRound
  <2> QED BY <2>1, <2>4, <2>6
<1> HIDE DEF T
<1>4. n \in T
  <2>1. \A k \in 0 .. n - 1 : k \in T => k + 1 \in T
    BY <1>3
  <2>2. \A k \in 0 .. n : k \in T
    BY <1>2, <2>1, RoundInduction
  <2> QED BY <2>2
<1> QED BY <1>4 DEF T

-----------------------------------------------------------------------------
(* A repair: the records N of the database o are written again, or gone.   *)
Edited(o, M, N) ==
    /\ Pending(o, M, N) /\ M.next = o.next /\ M.gone = o.gone
    /\ DOMAIN M.records = DOMAIN o.records
    /\ \A i \in DOMAIN M.records :
         M.records[i].line = o.records[i].line /\ (i \notin N => M.records[i] = o.records[i])

Removed(o, M, N, k) ==
    /\ Pending(o, M, N) /\ M.next = o.next
    /\ DOMAIN M.records = DOMAIN o.records \ N
    /\ \A i \in DOMAIN M.records : M.records[i] = o.records[i]
    /\ \A t : t \in M.gone <=> t \in o.gone \/ \E i \in N : t = o.records[i].line
    /\ IsFiniteSet(M.gone) /\ Cardinality(M.gone) = Cardinality(o.gone) + k

(* What a change of the rows does to the identities and values in use.     *)
LEMMA UsedMembers ==
    ASSUME NEW d
    PROVE  /\ \A x : x \in UsedIdentities(d) <=> \E i \in DOMAIN d.records : x = d.records[i].identity
           /\ \A v : v \in UsedValues(d) <=> \E i \in DOMAIN d.records : v \in ValuesOf(d.records[i])
<1>1. \A x : x \in UsedIdentities(d) <=> \E i \in DOMAIN d.records : x = d.records[i].identity
  BY DEF UsedIdentities
<1>2. ASSUME NEW v PROVE v \in UsedValues(d) <=> \E i \in DOMAIN d.records : v \in ValuesOf(d.records[i])
  BY DEF UsedValues
<1> QED BY <1>1, <1>2

Covered(o, S, N) ==
    /\ UsedIdentities(S) \subseteq S.identities
    /\ \A x \in S.identities :
         x \in UsedIdentities(S) \/ \E i \in N : i \in DOMAIN o.records /\ x = o.records[i].identity
    /\ UsedValues(S) \subseteq S.values
    /\ \A v \in S.values :
         v \in UsedValues(S) \/ \E i \in N : i \in DOMAIN o.records /\ v \in ValuesOf(o.records[i])

(* One row replaced or left out: what is held remains in use or is of a    *)
(* row that was named.                                                     *)
LEMMA StillPending ==
    ASSUME NEW o, NEW M, NEW N, Pending(o, M, N), NEW id \in DOMAIN o.records,
           id \in DOMAIN M.records, M.records[id] = o.records[id],
           NEW S,
           DOMAIN M.records \ {id} \subseteq DOMAIN S.records,
           DOMAIN S.records \subseteq DOMAIN M.records,
           \A i \in DOMAIN S.records \ {id} : S.records[i] = M.records[i],
           \A x : x \in S.identities <=>
             x \in M.identities \/ (id \in DOMAIN S.records /\ x = S.records[id].identity),
           \A v : v \in S.values <=>
             v \in M.values \/ (id \in DOMAIN S.records /\ v \in ValuesOf(S.records[id]))
    PROVE  Covered(o, S, N \cup {id})
<1>1. /\ \A x : x \in UsedIdentities(S) <=> \E i \in DOMAIN S.records : x = S.records[i].identity
      /\ \A v : v \in UsedValues(S) <=> \E i \in DOMAIN S.records : v \in ValuesOf(S.records[i])
      /\ \A x : x \in UsedIdentities(M) <=> \E i \in DOMAIN M.records : x = M.records[i].identity
      /\ \A v : v \in UsedValues(M) <=> \E i \in DOMAIN M.records : v \in ValuesOf(M.records[i])
  BY UsedMembers
<1>2. UsedIdentities(M) \subseteq M.identities /\ UsedValues(M) \subseteq M.values
  BY DEF Pending
<1>3. \A x \in M.identities :
        x \in UsedIdentities(M) \/ \E i \in N : i \in DOMAIN o.records /\ x = o.records[i].identity
  BY DEF Pending
<1>4. \A v \in M.values :
        v \in UsedValues(M) \/ \E i \in N : i \in DOMAIN o.records /\ v \in ValuesOf(o.records[i])
  BY DEF Pending
<1>5. UsedIdentities(S) \subseteq S.identities
  <2> SUFFICES ASSUME NEW x \in UsedIdentities(S) PROVE x \in S.identities
    OBVIOUS
  <2>1. PICK i \in DOMAIN S.records : x = S.records[i].identity
    BY <1>1
  <2>2. CASE i = id
    BY <2>1, <2>2
  <2>3. CASE i # id
    BY <1>1, <1>2, <2>1, <2>3
  <2> QED BY <2>2, <2>3
<1>6. UsedValues(S) \subseteq S.values
  <2> SUFFICES ASSUME NEW v \in UsedValues(S) PROVE v \in S.values
    OBVIOUS
  <2>1. PICK i \in DOMAIN S.records : v \in ValuesOf(S.records[i])
    BY <1>1
  <2>2. CASE i = id
    BY <2>1, <2>2
  <2>3. CASE i # id
    BY <1>1, <1>2, <2>1, <2>3
  <2> QED BY <2>2, <2>3
<1>7. ASSUME NEW x \in S.identities
      PROVE  \/ x \in UsedIdentities(S)
             \/ \E i \in N \cup {id} : i \in DOMAIN o.records /\ x = o.records[i].identity
  <2>1. CASE x \notin M.identities
    BY <1>1, <2>1
  <2>2. CASE x \in M.identities /\ x \notin UsedIdentities(M)
    BY <1>3, <2>2
  <2>3. CASE x \in UsedIdentities(M)
    <3>1. PICK i \in DOMAIN M.records : x = M.records[i].identity
      BY <1>1, <2>3
    <3>2. CASE i = id
      BY <3>1, <3>2
    <3>3. CASE i # id
      BY <1>1, <3>1, <3>3
    <3> QED BY <3>2, <3>3
  <2> QED BY <2>1, <2>2, <2>3
<1>8. ASSUME NEW v \in S.values
      PROVE  \/ v \in UsedValues(S)
             \/ \E i \in N \cup {id} : i \in DOMAIN o.records /\ v \in ValuesOf(o.records[i])
  <2>1. CASE v \notin M.values
    BY <1>1, <2>1
  <2>2. CASE v \in M.values /\ v \notin UsedValues(M)
    BY <1>4, <2>2
  <2>3. CASE v \in UsedValues(M)
    <3>1. PICK i \in DOMAIN M.records : v \in ValuesOf(M.records[i])
      BY <1>1, <2>3
    <3>2. CASE i = id
      BY <3>1, <3>2
    <3>3. CASE i # id
      BY <1>1, <3>1, <3>3
    <3> QED BY <3>2, <3>3
  <2> QED BY <2>1, <2>2, <2>3
<1> QED BY <1>5, <1>6, <1>7, <1>8 DEF Covered

(* One edit of a repair: the named row gets the revision of this batch and *)
(* keeps its line.                                                         *)
LEMMA EditRound ==
    ASSUME NEW o, NEW M, NEW N, Edited(o, M, N), NEW m \in Change, m.id \in DOMAIN o.records \ N,
           m.id # 0, m.delete = FALSE, m.line = o.records[m.id].line,
           m.edits = o.records[m.id].edits + 1
    PROVE  Edited(o, Mutated(M, m), N \cup {m.id})
<1> DEFINE S == Mutated(M, m)
           id == m.id
<1>1. M \in Databases /\ Pending(o, M, N) /\ RowsOwnLines(M) /\ M.generation \in Nat
  BY DatabaseFields DEF Edited, Pending
<1>2. id \in DOMAIN M.records /\ M.records[id] = o.records[id] /\ DOMAIN M.records \subseteq Lines
  BY <1>1, DatabaseFields DEF Edited
<1>3. StoredFields(M, id, m, S)
  <2>1. S = Stored(M, id, m)
    BY MutatedKinds
  <2>2. id \in Lines
    BY <1>2
  <2> HIDE DEF S, id
  <2> QED BY <1>1, <2>1, <2>2, StoredEffect
<1> HIDE DEF S
<1>4. /\ Row(M, m).revision = M.generation /\ Row(M, m).edits = m.edits /\ Row(M, m).line = m.line
      /\ Row(M, m).identity = m.identity /\ ValuesOf(Row(M, m)) = ValuesOf(m)
  BY <1>1, RowType
<1>5. DOMAIN S.records = DOMAIN M.records /\ S.records[id] = Row(M, m)
      /\ \A i \in DOMAIN M.records \ {id} : S.records[i] = M.records[i]
  BY <1>2, <1>3 DEF StoredFields
<1>6. /\ S \in Databases /\ S.generation = M.generation /\ S.progress = M.progress
      /\ S.removals = M.removals /\ S.gone = M.gone /\ S.next = M.next
      /\ S.identities = M.identities \cup {m.identity} /\ S.values = M.values \cup ValuesOf(m)
  BY <1>3 DEF StoredFields
<1>7. \A i \in DOMAIN S.records : S.records[i].line = M.records[i].line
  BY <1>2, <1>4, <1>5
<1>8. DOMAIN S.edits = DOMAIN M.edits
      /\ S.edits[id] = M.edits[id] + 1 /\ \A i \in DOMAIN M.edits \ {id} : S.edits[i] = M.edits[i]
  <2>1. DOMAIN M.edits = DOMAIN M.records
    BY <1>1 DEF RowsOwnLines
  <2> QED BY <1>2, <1>3, <2>1 DEF StoredFields
<1>9. RowsOwnLines(S)
  <2>1. \A id1, id2 \in DOMAIN S.records : S.records[id1].line = S.records[id2].line => id1 = id2
    BY <1>1, <1>5, <1>7 DEF RowsOwnLines
  <2>2. DOMAIN S.edits = DOMAIN S.records
    BY <1>1, <1>5, <1>8 DEF RowsOwnLines
  <2>3. \A i \in DOMAIN S.records : S.records[i].edits = S.edits[i]
    <3> SUFFICES ASSUME NEW i \in DOMAIN S.records PROVE S.records[i].edits = S.edits[i]
      OBVIOUS
    <3>1. M.records[i].edits = M.edits[i] /\ i \in DOMAIN M.edits
      BY <1>1, <1>5 DEF RowsOwnLines
    <3>2. CASE i = id
      BY <1>2, <1>4, <1>5, <1>8, <3>1, <3>2
    <3>3. CASE i # id
      BY <1>5, <1>8, <3>1, <3>3
    <3> QED BY <3>2, <3>3
  <2> QED BY <2>1, <2>2, <2>3 DEF RowsOwnLines
<1>10. Covered(o, S, N \cup {id})
  <2>1. id \in DOMAIN o.records
    OBVIOUS
  <2>2. DOMAIN M.records \ {id} \subseteq DOMAIN S.records /\ DOMAIN S.records \subseteq DOMAIN M.records
        /\ id \in DOMAIN S.records /\ \A i \in DOMAIN S.records \ {id} : S.records[i] = M.records[i]
    BY <1>2, <1>5
  <2>3. /\ \A x : x \in S.identities <=>
             x \in M.identities \/ (id \in DOMAIN S.records /\ x = S.records[id].identity)
        /\ \A v : v \in S.values <=>
             v \in M.values \/ (id \in DOMAIN S.records /\ v \in ValuesOf(S.records[id]))
    BY <1>2, <1>4, <1>5, <1>6
  <2> HIDE DEF id
  <2> QED BY <1>1, <1>2, <2>1, <2>2, <2>3, StillPending
<1>11. \A i \in DOMAIN S.records :
         \/ S.records[i].revision = S.generation
         \/ i \in DOMAIN o.records /\ S.records[i] = o.records[i]
  <2> SUFFICES ASSUME NEW i \in DOMAIN S.records
               PROVE  \/ S.records[i].revision = S.generation
                      \/ i \in DOMAIN o.records /\ S.records[i] = o.records[i]
    OBVIOUS
  <2>1. CASE i = id
    BY <1>4, <1>5, <1>6, <2>1
  <2>2. CASE i # id
    BY <1>1, <1>5, <1>6, <2>2 DEF Pending
  <2> QED BY <2>1, <2>2
<1>12. S.generation = o.generation /\ S.progress = o.progress /\ S.removals = o.removals
  BY <1>1, <1>6 DEF Pending
<1>13. Pending(o, S, N \cup {id})
  BY <1>6, <1>9, <1>10, <1>11, <1>12 DEF Pending, Covered
<1>14. \A i \in DOMAIN S.records :
         S.records[i].line = o.records[i].line /\ (i \notin N \cup {id} => S.records[i] = o.records[i])
  BY <1>5, <1>7 DEF Edited
<1>15. DOMAIN S.records = DOMAIN o.records /\ S.next = o.next /\ S.gone = o.gone
  BY <1>5, <1>6 DEF Edited
<1> QED BY <1>13, <1>14, <1>15 DEF Edited, S

(* One deletion of a repair: a row less, a line gone more.                 *)
LEMMA RemovalRound ==
    ASSUME NEW o, Live(o) \cap o.gone = {}, RowsOwnLines(o),
           NEW M, NEW N, N \subseteq DOMAIN o.records, NEW k \in Nat,
           Cardinality(o.gone) \in Nat, Removed(o, M, N, k),
           NEW m \in Change, m.id \in DOMAIN o.records \ N, m.id # 0, m.delete = TRUE
    PROVE  Removed(o, Mutated(M, m), N \cup {m.id}, k + 1)
<1> DEFINE S == Mutated(M, m)
           id == m.id
           line == o.records[id].line
<1>1. M \in Databases /\ Pending(o, M, N) /\ RowsOwnLines(M)
  BY DEF Removed, Pending
<1>2. id \in DOMAIN M.records /\ M.records[id] = o.records[id]
  BY DEF Removed
<1>3. DeletedFields(M, id, S)
  BY <1>1, <1>2, DeletedEffect
<1> HIDE DEF S
<1>4. /\ S \in Databases /\ S.generation = M.generation /\ S.progress = M.progress
      /\ S.removals = M.removals /\ S.gone = M.gone \cup {line} /\ S.next = M.next
      /\ S.identities = M.identities /\ S.values = M.values
      /\ DOMAIN S.records = DOMAIN M.records \ {id}
      /\ \A i \in DOMAIN S.records : S.records[i] = M.records[i]
  BY <1>2, <1>3 DEF DeletedFields
<1>5. RowsOwnLines(S)
  <2>1. DOMAIN S.edits = DOMAIN M.edits \ {id} /\ \A i \in DOMAIN S.edits : S.edits[i] = M.edits[i]
    BY <1>3 DEF DeletedFields
  <2> QED BY <1>1, <1>4, <2>1 DEF RowsOwnLines
<1>6. Covered(o, S, N \cup {id})
  <2>1. id \in DOMAIN o.records
    OBVIOUS
  <2>2. DOMAIN M.records \ {id} \subseteq DOMAIN S.records /\ DOMAIN S.records \subseteq DOMAIN M.records
        /\ id \notin DOMAIN S.records /\ \A i \in DOMAIN S.records \ {id} : S.records[i] = M.records[i]
    BY <1>4
  <2>3. /\ \A x : x \in S.identities <=>
             x \in M.identities \/ (id \in DOMAIN S.records /\ x = S.records[id].identity)
        /\ \A v : v \in S.values <=>
             v \in M.values \/ (id \in DOMAIN S.records /\ v \in ValuesOf(S.records[id]))
    BY <1>4
  <2> HIDE DEF id
  <2> QED BY <1>1, <1>2, <2>1, <2>2, <2>3, StillPending
<1>7. \A i \in DOMAIN S.records : i \in DOMAIN o.records /\ S.records[i] = o.records[i]
  BY <1>4 DEF Removed
<1>8. S.generation = o.generation /\ S.progress = o.progress /\ S.removals = o.removals
  BY <1>1, <1>4 DEF Pending
<1>9. Pending(o, S, N \cup {id})
  BY <1>4, <1>5, <1>6, <1>7, <1>8 DEF Pending, Covered
<1>10. line \notin M.gone
  <2> SUFFICES ASSUME line \in M.gone PROVE FALSE
    OBVIOUS
  <2>1. line \in Live(o)
    BY DEF Live
  <2>2. PICK i \in N : line = o.records[i].line
    BY <2>1 DEF Removed
  <2> QED BY <2>2 DEF RowsOwnLines
<1>11. IsFiniteSet(S.gone) /\ Cardinality(S.gone) = Cardinality(o.gone) + (k + 1)
  <2>1. IsFiniteSet(M.gone) /\ Cardinality(M.gone) = Cardinality(o.gone) + k
    BY DEF Removed
  <2> HIDE DEF line
  <2>2. IsFiniteSet(M.gone \cup {line}) /\ Cardinality(M.gone \cup {line}) = Cardinality(M.gone) + 1
    BY <1>10, <2>1, FS_AddElement
  <2> QED BY <1>4, <2>1, <2>2
<1>12. \A t : t \in S.gone <=> t \in o.gone \/ \E i \in N \cup {id} : t = o.records[i].line
  BY <1>4 DEF Removed
<1>13. DOMAIN S.records = DOMAIN o.records \ (N \cup {id}) /\ S.next = o.next
  BY <1>4 DEF Removed
<1> QED BY <1>7, <1>9, <1>11, <1>12, <1>13 DEF Removed, S

-----------------------------------------------------------------------------
(* What a database of a later generation keeps of an earlier one: a row    *)
(* or the number of removals is as it was, or of a later batch.            *)
Follows(d, e) ==
    /\ d.generation <= e.generation
    /\ \A id \in DOMAIN e.records :
         \/ e.records[id].revision > d.generation
         \/ id \in DOMAIN d.records /\ e.records[id] = d.records[id]
    /\ \/ e.removals = d.removals
       \/ e.removals # Missing /\ e.removals.revision > d.generation

(* A database follows itself.                                              *)
LEMMA FollowsItself == ASSUME NEW d, Ledger(d) PROVE Follows(d, d)
BY DatabaseFields DEF Ledger, Follows

(* To follow is transitive.                                                *)
LEMMA FollowsOn ==
    ASSUME NEW d, Ledger(d), NEW e, Ledger(e), NEW g, Ledger(g), Follows(d, e), Follows(e, g)
    PROVE  Follows(d, g)
<1>1. d.generation \in Nat /\ e.generation \in Nat /\ g.generation \in Nat
  BY DatabaseFields DEF Ledger
<1>2. d.generation <= e.generation /\ e.generation <= g.generation
  BY DEF Follows
<1>3. \A id \in DOMAIN g.records : g.records[id].revision \in Nat
  BY RowFields DEF Ledger
<1>4. ASSUME NEW id \in DOMAIN g.records
      PROVE  \/ g.records[id].revision > d.generation
             \/ id \in DOMAIN d.records /\ g.records[id] = d.records[id]
  <2>1. CASE g.records[id].revision > e.generation
    BY <1>1, <1>2, <1>3, <2>1
  <2>2. CASE id \in DOMAIN e.records /\ g.records[id] = e.records[id]
    BY <2>2 DEF Follows
  <2> QED BY <2>1, <2>2 DEF Follows
<1>5. \/ g.removals = d.removals
      \/ g.removals # Missing /\ g.removals.revision > d.generation
  <2>1. g.removals # Missing => g.removals.revision \in Nat
    BY DatabaseFields DEF Ledger
  <2>2. CASE g.removals # Missing /\ g.removals.revision > e.generation
    BY <1>1, <1>2, <2>1, <2>2
  <2>3. CASE g.removals = e.removals
    BY <2>3 DEF Follows
  <2> QED BY <2>2, <2>3 DEF Follows
<1>6. d.generation <= g.generation
  BY <1>1, <1>2
<1> QED BY <1>4, <1>5, <1>6 DEF Follows

(* The collection makes a ledger of what the rounds have left.             *)
LEMMA CollectedLedger ==
    ASSUME NEW d, Ledger(d), NEW batch, BatchFields(batch), NEW o, OpenedFields(d, batch, o),
           NEW N, N \subseteq DOMAIN d.records, NEW M, Pending(o, M, N),
           Position(M) \in 0 .. Len(LineOf), M.next = Position(M) + 1,
           DOMAIN M.records \subseteq 1 .. Position(M),
           Live(M) \cup M.gone = Passed(M), Live(M) \cap M.gone = {},
           Cardinality(M.gone) = Removals(M)
    PROVE  /\ Ledger(Collected(d, M, N)) /\ Follows(d, Collected(d, M, N))
           /\ Collected(d, M, N).generation = d.generation + 1
<1> DEFINE e == Collected(d, M, N)
<1>1. o.records = d.records /\ o.generation = d.generation + 1
  BY DEF OpenedFields
<1>2. CollectedFields(M, e)
  BY <1>1, CollectedEffect
<1> HIDE DEF e
<1>3. /\ e \in Databases /\ e.generation = M.generation /\ e.next = M.next /\ e.progress = M.progress
      /\ e.removals = M.removals /\ e.gone = M.gone /\ e.records = M.records /\ e.edits = M.edits
      /\ e.identities = UsedIdentities(M) /\ e.values = UsedValues(M)
  BY <1>2 DEF CollectedFields
<1>4. /\ Position(e) = Position(M) /\ Passed(e) = Passed(M) /\ Live(e) = Live(M)
      /\ Removals(e) = Removals(M)
      /\ UsedIdentities(e) = UsedIdentities(M) /\ UsedValues(e) = UsedValues(M)
  BY <1>3 DEF Position, Passed, Live, Removals, UsedIdentities, UsedValues
<1>5. RowsOwnLines(e)
  BY <1>3 DEF Pending, RowsOwnLines
<1>6. d.generation \in Nat /\ e.generation = d.generation + 1
  BY <1>1, <1>3, DatabaseFields DEF Pending, Ledger
<1>7. \A id \in DOMAIN e.records :
        \/ e.records[id].revision = e.generation
        \/ id \in DOMAIN d.records /\ e.records[id] = d.records[id]
  BY <1>1, <1>3 DEF Pending
<1>8. e.removals = d.removals \/ (e.removals # Missing /\ e.removals.revision = d.generation + 1)
  <2>1. e.removals = o.removals
    BY <1>3 DEF Pending
  <2>2. CASE batch.state = Missing
    BY <2>1, <2>2 DEF OpenedFields
  <2>3. CASE batch.state # Missing
    <3>1. o.removals = [revision |-> d.generation + 1, value |-> batch.state.value]
      BY <2>3 DEF OpenedFields
    <3>2. o.removals \in [revision : Nat, value : Nat]
      BY <1>6, <2>3, <3>1 DEF BatchFields
    <3> QED BY <2>1, <3>1, <3>2, MissingAssumption
  <2> QED BY <2>2, <2>3
<1>9. RevisionsKnown(e)
  <2>1. ASSUME NEW id \in DOMAIN e.records PROVE e.records[id].revision <= e.generation
    <3>1. id \in DOMAIN d.records => d.records[id].revision \in Nat /\ d.records[id].revision <= d.generation
      BY RowFields DEF Ledger, RevisionsKnown
    <3>2. e.records[id].revision \in Nat
      BY <1>3, RowFields
    <3> QED BY <1>6, <1>7, <3>1, <3>2
  <2>2. ASSUME e.removals # Missing PROVE e.removals.revision \in 1 .. e.generation
    BY <1>6, <1>8, <2>2 DEF Ledger, RevisionsKnown
  <2> QED BY <2>1, <2>2 DEF RevisionsKnown
<1>10. Ledger(e)
  BY <1>3, <1>4, <1>5, <1>9 DEF Ledger
<1>11. Follows(d, e)
  BY <1>6, <1>7, <1>8 DEF Follows
<1> QED BY <1>6, <1>10, <1>11 DEF e

(* The rounds of an import, then the collection.                           *)
LEMMA ImportApplied ==
    ASSUME NEW d, Ledger(d), NEW batch, NEW file \in Files, NEW from \in Nat, NEW n \in Nat,
           from + n \in Lines, Imports(batch, file, from, n), ~Conflicts(d, batch)
    PROVE  /\ Ledger(Applied(d, batch)) /\ Follows(d, Applied(d, batch))
           /\ Applied(d, batch).generation = d.generation + 1
<1> DEFINE o == Opened(d, batch)
           q == batch.mutations
<1>1. /\ batch.progress = [file |-> file, from |-> from, to |-> from + n] /\ batch.state = Missing
      /\ q \in Seq(Change) /\ Len(q) = n /\ \A i \in 1 .. n : q[i].id = 0
  BY DEF Imports
<1>2. batch.progress # Missing
  BY <1>1, MissingAssumption
<1>3. BatchFields(batch)
  BY <1>1 DEF BatchFields
<1>4. from = Position(d) /\ (d.progress # Missing => d.progress.file = file)
  BY <1>1, <1>2 DEF Conflicts, CursorHolds, Position
<1>5. \A t : t \in Passed(d) <=> \E l \in 1 .. from : t = <<file, l>>
  BY <1>4 DEF Passed, Position
<1>6. d \in Databases /\ d.gone \subseteq Passed(d) /\ Live(d) \subseteq Passed(d)
      /\ Live(d) \cap d.gone = {} /\ (Live(d) \cup d.gone) = Passed(d) /\ Cardinality(d.gone) = Removals(d)
  BY DEF Ledger
<1>7. OpenedFields(d, batch, o)
  BY <1>3, <1>6, OpenedEffect
<1>8. PICK f : /\ f[0] = o
               /\ \A k \in 0 .. n - 1 : f[k + 1] = Mutated(f[k], q[k + 1])
               /\ Applied(d, batch) = Collected(d, f[n], Named(batch))
  BY <1>1, AppliedRounds
<1> HIDE DEF o
<1> DEFINE M == f[n]
<1>9. Imported(o, M, file, from, n)
  <2>1. \A t \in Live(d) : \E l \in 1 .. from : t = <<file, l>>
    BY <1>5, <1>6
  <2> QED BY <1>4, <1>7, <1>8, <2>1, ImportRounds
<1>10. Named(batch) = {}
  <2>1. \A i \in DOMAIN q : q[i].id = 0
    BY <1>1
  <2> QED BY <2>1 DEF Named
<1> HIDE DEF M, q
<1>11. Pending(o, M, {}) /\ M.next = from + n + 1 /\ M.gone = d.gone /\ DOMAIN M.records \subseteq 1 .. from + n
  BY <1>7, <1>9 DEF Imported, OpenedFields
<1>12. M.progress = [file |-> file, position |-> from + n] /\ M.removals = d.removals
  BY <1>1, <1>2, <1>7, <1>11 DEF Pending, OpenedFields
<1>13. M.progress # Missing
  BY <1>12, MissingAssumption
<1>14. Position(M) = from + n /\ \A t : t \in Passed(M) <=> \E l \in 1 .. from + n : t = <<file, l>>
  BY <1>12, <1>13 DEF Position, Passed
<1>15. Removals(M) = Removals(d)
  BY <1>12 DEF Removals
<1>16. \A t : t \in Live(M) <=> t \in Live(d) \/ \E l \in from + 1 .. from + n : t = <<file, l>>
  <2>1. Live(o) = Live(d)
    BY <1>7, OpenedPending
  <2> QED BY <1>9, <2>1 DEF Imported
<1>17. (Live(M) \cup M.gone) = Passed(M)
  <2> SUFFICES ASSUME NEW t PROVE t \in Live(M) \/ t \in d.gone <=> t \in Passed(M)
    BY <1>11
  <2>1. t \in Live(d) \/ t \in d.gone <=> \E l \in 1 .. from : t = <<file, l>>
    BY <1>5, <1>6
  <2>2. (\E l \in 1 .. from + n : t = <<file, l>>)
          <=> (\E l \in 1 .. from : t = <<file, l>>) \/ (\E l \in from + 1 .. from + n : t = <<file, l>>)
    OBVIOUS
  <2> QED BY <1>14, <1>16, <2>1, <2>2
<1>18. Live(M) \cap M.gone = {}
  <2> SUFFICES ASSUME NEW t, t \in Live(M), t \in d.gone PROVE FALSE
    BY <1>11
  <2>1. PICK k \in 1 .. from : t = <<file, k>>
    BY <1>5, <1>6
  <2>2. t \notin Live(d)
    BY <1>6
  <2>3. PICK l \in from + 1 .. from + n : t = <<file, l>>
    BY <1>16, <2>2
  <2> QED BY <2>1, <2>3
<1>19. Position(M) \in 0 .. Len(LineOf) /\ M.next = Position(M) + 1 /\ DOMAIN M.records \subseteq 1 .. Position(M)
       /\ Cardinality(M.gone) = Removals(M)
  BY <1>6, <1>11, <1>14, <1>15, LinesAssumption
<1>20. /\ Ledger(Collected(d, M, {})) /\ Follows(d, Collected(d, M, {}))
       /\ Collected(d, M, {}).generation = d.generation + 1
  BY <1>3, <1>7, <1>11, <1>17, <1>18, <1>19, CollectedLedger
<1> QED BY <1>8, <1>10, <1>20 DEF M

-----------------------------------------------------------------------------
(* A repair of what a view has shown: it names each record once, and knows *)
(* of a record, or of the removals, of the same revision what they are.    *)
Counts(batch, d) ==
    /\ batch.state \in [revision : Nat, value : Nat] /\ batch.state.revision <= d.generation
    /\ batch.state.revision = 0 => batch.state.value = Len(batch.mutations)
    /\ d.removals # Missing /\ d.removals.revision = batch.state.revision =>
         batch.state.value = d.removals.value + Len(batch.mutations)

KnowsRow(m, d, delete) ==
    /\ m.id # 0 /\ m.delete = delete /\ m.revision <= d.generation
    /\ m.id \in DOMAIN d.records /\ d.records[m.id].revision = m.revision =>
         m.line = d.records[m.id].line /\ m.edits = d.records[m.id].edits + 1

Repairs(batch, d, delete) ==
    /\ batch.progress = Missing /\ batch.mutations \in Seq(Change)
    /\ \A i \in 1 .. Len(batch.mutations) : KnowsRow(batch.mutations[i], d, delete)
    /\ \A i, j \in 1 .. Len(batch.mutations) : batch.mutations[i].id = batch.mutations[j].id => i = j
    /\ delete = TRUE => Counts(batch, d)
    /\ delete = FALSE => batch.state = Missing

(* What a repair knows stays true while others commit.                     *)
LEMMA RepairsKeep ==
    ASSUME NEW d, Ledger(d), NEW e, Ledger(e), Follows(d, e),
           NEW batch, NEW delete \in BOOLEAN, Repairs(batch, d, delete)
    PROVE  Repairs(batch, e, delete)
<1>1. d.generation \in Nat /\ e.generation \in Nat /\ d.generation <= e.generation
  BY DatabaseFields DEF Ledger, Follows
<1>2. ASSUME NEW i \in 1 .. Len(batch.mutations) PROVE KnowsRow(batch.mutations[i], e, delete)
  <2> DEFINE m == batch.mutations[i]
  <2>1. KnowsRow(m, d, delete)
    BY DEF Repairs
  <2>2. m \in Change
    <3>1. batch.mutations \in Seq(Change) /\ i \in DOMAIN batch.mutations
      BY DEF Repairs
    <3> QED BY <3>1
  <2> HIDE DEF m
  <2>3. m.revision \in Nat /\ m.revision <= d.generation
    BY <2>1, <2>2 DEF KnowsRow, Change
  <2>4. ASSUME m.id \in DOMAIN e.records, e.records[m.id].revision = m.revision
        PROVE  m.id \in DOMAIN d.records /\ e.records[m.id] = d.records[m.id]
    BY <1>1, <2>3, <2>4 DEF Follows
  <2>5. KnowsRow(m, e, delete)
    BY <1>1, <2>1, <2>3, <2>4 DEF KnowsRow
  <2> QED BY <2>5 DEF m
<1>3. ASSUME Counts(batch, d) PROVE Counts(batch, e)
  <2>1. batch.state.revision \in Nat /\ batch.state.revision <= d.generation
    BY <1>3 DEF Counts
  <2>2. batch.state.revision <= e.generation
    BY <1>1, <2>1
  <2>3. ASSUME e.removals # Missing, e.removals.revision = batch.state.revision
        PROVE  batch.state.value = e.removals.value + Len(batch.mutations)
    <3>1. e.removals = d.removals
      BY <1>1, <2>1, <2>3 DEF Follows
    <3> QED BY <1>3, <2>3, <3>1 DEF Counts
  <2> QED BY <1>3, <2>2, <2>3 DEF Counts
<1> QED BY <1>2, <1>3 DEF Repairs

NamedUpTo(batch, k) == {batch.mutations[i].id : i \in 1 .. k}

(* Before the first deletion nothing is removed.                           *)
LEMMA NothingRemoved ==
    ASSUME NEW o, Pending(o, o, {}), IsFiniteSet(o.gone), Cardinality(o.gone) \in Nat
    PROVE  Removed(o, o, {}, 0)
<1>1. DOMAIN o.records = (DOMAIN o.records) \ {}
  OBVIOUS
<1>2. Cardinality(o.gone) = Cardinality(o.gone) + 0
  OBVIOUS
<1>3. \A t : t \in o.gone <=> t \in o.gone \/ \E i \in {} : t = o.records[i].line
  OBVIOUS
<1> QED BY <1>1, <1>2, <1>3 DEF Removed

(* The rounds of a repair.                                                 *)
LEMMA RepairRounds ==
    ASSUME NEW d, Ledger(d), NEW batch, NEW delete \in BOOLEAN, Repairs(batch, d, delete),
           ~Conflicts(d, batch), NEW o, OpenedFields(d, batch, o),
           IsFiniteSet(d.gone), Cardinality(d.gone) \in Nat,
           NEW f, f[0] = o,
           \A k \in 0 .. Len(batch.mutations) - 1 : f[k + 1] = Mutated(f[k], batch.mutations[k + 1])
    PROVE  LET n == Len(batch.mutations)
           IN  IF delete THEN Removed(o, f[n], NamedUpTo(batch, n), n)
               ELSE Edited(o, f[n], NamedUpTo(batch, n))
<1> DEFINE q == batch.mutations
           n == Len(q)
           Done(k) == IF delete THEN Removed(o, f[k], NamedUpTo(batch, k), k)
                      ELSE Edited(o, f[k], NamedUpTo(batch, k))
           T == {k \in 0 .. n : Done(k)}
<1>1. n \in Nat /\ q \in Seq(Change) /\ o \in Databases /\ o.records = d.records /\ o.gone = d.gone
  <2>1. q \in Seq(Change)
    BY DEF Repairs
  <2> QED BY <2>1, LenProperties DEF OpenedFields
<1>2. Pending(o, o, {}) /\ Live(o) = Live(d) /\ Live(o) \cap o.gone = {} /\ RowsOwnLines(o)
  <2>1. Pending(o, o, {}) /\ Live(o) = Live(d)
    BY OpenedPending
  <2> QED BY <1>1, <2>1 DEF Pending, Ledger
<1>3. ASSUME NEW i \in 1 .. n
      PROVE  /\ q[i] \in Change /\ q[i].id \in DOMAIN o.records /\ q[i].id # 0 /\ q[i].delete = delete
             /\ q[i].line = o.records[q[i].id].line /\ q[i].edits = o.records[q[i].id].edits + 1
  <2>1. i \in DOMAIN q
    BY <1>1
  <2>2. q[i] \in Change /\ KnowsRow(q[i], d, delete)
    <3>1. q[i] \in Change
      BY <1>1, <2>1
    <3>2. KnowsRow(q[i], d, delete)
      BY DEF Repairs
    <3> QED BY <3>1, <3>2
  <2>3. RevisionHolds(d, q[i])
    BY <2>1 DEF Conflicts
  <2> HIDE DEF q
  <2> QED BY <1>1, <2>2, <2>3 DEF KnowsRow, RevisionHolds
<1>4. \A i, j \in 1 .. n : q[i].id = q[j].id => i = j
  BY DEF Repairs
<1>5. NamedUpTo(batch, 0) = {} /\ \A k \in 0 .. n : NamedUpTo(batch, k) \subseteq DOMAIN o.records
  BY <1>1, <1>3 DEF NamedUpTo
<1>6. 0 \in T
  <2>1. Edited(o, o, {})
    BY <1>2 DEF Edited
  <2>2. Removed(o, o, {}, 0)
    BY <1>1, <1>2, NothingRemoved
  <2>3. f[0] = o /\ NamedUpTo(batch, 0) = {} /\ 0 \in 0 .. n
    BY <1>1, <1>5
  <2>4. Done(0)
    BY <2>1, <2>2, <2>3
  <2> HIDE DEF Done, n
  <2> QED BY <2>3, <2>4
<1>7. ASSUME NEW k \in 0 .. n - 1, k \in T PROVE k + 1 \in T
  <2> DEFINE m == q[k + 1]
             N == NamedUpTo(batch, k)
  <2>1. k \in Nat /\ k \in 0 .. n /\ k + 1 \in 1 .. n /\ k + 1 \in 0 .. n
    BY <1>1
  <2>2. f[k + 1] = Mutated(f[k], m)
    OBVIOUS
  <2>3. m \in Change /\ m.id \in DOMAIN o.records /\ m.id # 0 /\ m.delete = delete
        /\ m.line = o.records[m.id].line /\ m.edits = o.records[m.id].edits + 1
    BY <1>3, <2>1
  <2>4. m.id \notin N
    BY <1>4, <2>1 DEF NamedUpTo
  <2>5. NamedUpTo(batch, k + 1) = N \cup {m.id}
    <3>1. \A i : i \in 1 .. k + 1 <=> i \in 1 .. k \/ i = k + 1
      BY <2>1
    <3> QED BY <3>1 DEF NamedUpTo
  <2>6. N \subseteq DOMAIN o.records
    BY <1>5, <2>1
  <2>7. Done(k)
    BY <1>7
  <2> HIDE DEF m, N, q, n
  <2>8. CASE delete = TRUE
    <3>1. Removed(o, f[k], N, k)
      BY <2>7, <2>8 DEF N
    <3>2. Removed(o, Mutated(f[k], m), N \cup {m.id}, k + 1)
      BY <1>1, <1>2, <2>1, <2>3, <2>4, <2>6, <2>8, <3>1, RemovalRound
    <3> QED BY <2>1, <2>2, <2>5, <2>8, <3>2
  <2>9. CASE delete = FALSE
    <3>1. Edited(o, f[k], N)
      BY <2>7, <2>9 DEF N
    <3>2. Edited(o, Mutated(f[k], m), N \cup {m.id})
      BY <2>3, <2>4, <2>9, <3>1, EditRound
    <3> QED BY <2>1, <2>2, <2>5, <2>9, <3>2
  <2> QED BY <2>8, <2>9
<1> HIDE DEF T, n
<1>8. n \in T
  <2>1. \A k \in 0 .. n - 1 : k \in T => k + 1 \in T
    BY <1>7
  <2>2. \A k \in 0 .. n : k \in T
    BY <1>1, <1>6, <2>1, RoundInduction
  <2> QED BY <1>1, <2>2
<1> QED BY <1>8 DEF T, n

-----------------------------------------------------------------------------
(* The lines deleted are finitely many.                                    *)
LEMMA GoneFinite ==
    ASSUME NEW d, Ledger(d)
    PROVE  IsFiniteSet(d.gone) /\ Cardinality(d.gone) \in Nat
<1>1. d.gone \subseteq Passed(d) /\ Position(d) \in 0 .. Len(LineOf)
  BY DEF Ledger
<1>2. IsFiniteSet(Passed(d))
  <2>1. CASE d.progress = Missing
    BY <2>1, FS_EmptySet DEF Passed
  <2>2. CASE d.progress # Missing
    <3> DEFINE p == d.progress.position
               P == 1 .. p
               g == [l \in P |-> <<d.progress.file, l>>]
    <3>1. Passed(d) = {<<d.progress.file, l>> : l \in P}
      BY <2>2 DEF Passed
    <3>2. p \in Int
      BY <1>1, <2>2, LinesAssumption DEF Position
    <3>3. IsFiniteSet(P)
      <4> HIDE DEF p
      <4>1. IsFiniteSet(1 .. p)
        BY <3>2, FS_Interval
      <4> QED BY <4>1
    <3>4. g \in [P -> Passed(d)] /\ \A t \in Passed(d) : \E l \in P : g[l] = t
      <4>1. \A l \in P : g[l] \in Passed(d)
        BY <3>1
      <4>2. \A t \in Passed(d) : \E l \in P : t = <<d.progress.file, l>>
        BY <3>1
      <4>3. \A l \in P : g[l] = <<d.progress.file, l>>
        OBVIOUS
      <4>4. g \in [P -> Passed(d)]
        BY <4>1
      <4> HIDE DEF g, P
      <4> QED BY <4>2, <4>3, <4>4
    <3> HIDE DEF P, g
    <3>5. g \in Surjection(P, Passed(d))
      BY <3>4, Fun_IsSurj
    <3> QED BY <3>3, <3>5, FS_Surjection
  <2> QED BY <2>1, <2>2
<1> QED BY <1>1, <1>2, FS_Subset, FS_CardinalityType

(* A batch of a repair, applied where it does not conflict.                *)
LEMMA RepairApplied ==
    ASSUME NEW d, Ledger(d), NEW batch, NEW delete \in BOOLEAN, Repairs(batch, d, delete),
           ~Conflicts(d, batch)
    PROVE  /\ Ledger(Applied(d, batch)) /\ Follows(d, Applied(d, batch))
           /\ Applied(d, batch).generation = d.generation + 1
<1> DEFINE o == Opened(d, batch)
           q == batch.mutations
           n == Len(q)
<1>1. batch.progress = Missing /\ q \in Seq(Change) /\ n \in Nat
      /\ (delete = FALSE => batch.state = Missing)
  <2>1. q \in Seq(Change)
    BY DEF Repairs
  <2> QED BY <2>1, LenProperties DEF Repairs
<1>2. delete = TRUE => batch.state \in [revision : Nat, value : Nat] /\ batch.state # Missing
  BY MissingAssumption DEF Repairs, Counts
<1>3. BatchFields(batch)
  BY <1>1, <1>2 DEF BatchFields
<1>4. d \in Databases /\ Live(d) \cap d.gone = {} /\ (Live(d) \cup d.gone) = Passed(d)
      /\ Cardinality(d.gone) = Removals(d)
      /\ d.next = Position(d) + 1 /\ DOMAIN d.records \subseteq 1 .. Position(d) /\ RowsOwnLines(d)
      /\ Position(d) \in 0 .. Len(LineOf)
  BY DEF Ledger
<1>5. OpenedFields(d, batch, o)
  BY <1>3, <1>4, OpenedEffect
<1>6. PICK f : /\ f[0] = o
               /\ \A k \in 0 .. n - 1 : f[k + 1] = Mutated(f[k], q[k + 1])
               /\ Applied(d, batch) = Collected(d, f[n], Named(batch))
  BY <1>1, AppliedRounds
<1>7. IsFiniteSet(d.gone) /\ Cardinality(d.gone) \in Nat
  BY GoneFinite
<1> HIDE DEF o
<1> DEFINE M == f[n]
           N == NamedUpTo(batch, n)
<1>8. IF delete THEN Removed(o, M, N, n) ELSE Edited(o, M, N)
  BY <1>5, <1>6, <1>7, RepairRounds
<1>9. \A i \in 1 .. n : q[i].id \in DOMAIN d.records /\ q[i].id # 0
  <2> TAKE i \in 1 .. n
  <2>1. i \in DOMAIN q
    BY <1>1
  <2>2. q[i].id # 0
    BY DEF Repairs, KnowsRow
  <2>3. RevisionHolds(d, q[i])
    BY <2>1 DEF Conflicts
  <2> QED BY <2>2, <2>3 DEF RevisionHolds
<1>10. Named(batch) = N /\ N \subseteq DOMAIN d.records
  <2>1. DOMAIN q = 1 .. n
    BY <1>1
  <2> QED BY <1>9, <2>1 DEF Named, NamedUpTo
<1> HIDE DEF M, N, n, q
<1>11. o.records = d.records /\ o.gone = d.gone /\ o.next = d.next /\ o.progress = d.progress
  BY <1>1, <1>5 DEF OpenedFields
<1>12. Pending(o, M, N) /\ M.next = d.next /\ M.progress = d.progress /\ M.removals = o.removals
  BY <1>8, <1>11 DEF Removed, Edited, Pending
<1>13. Position(M) = Position(d) /\ Passed(M) = Passed(d)
  BY <1>12 DEF Position, Passed
<1>14. DOMAIN M.records \subseteq 1 .. Position(M)
  BY <1>4, <1>8, <1>11, <1>13 DEF Removed, Edited
<1>15. /\ (Live(M) \cup M.gone) = Passed(M) /\ Live(M) \cap M.gone = {}
       /\ Cardinality(M.gone) = Removals(M)
  <2>1. CASE delete = FALSE
    <3>1. Edited(o, M, N) /\ batch.state = Missing
      BY <1>1, <1>8, <2>1
    <3>2. M.removals = d.removals /\ M.gone = d.gone
      BY <1>5, <1>11, <1>12, <3>1 DEF OpenedFields, Edited
    <3>3. Live(M) = Live(d)
      BY <1>11, <3>1 DEF Live, Edited
    <3> QED BY <1>4, <1>13, <3>2, <3>3 DEF Removals
  <2>2. CASE delete = TRUE
    <3>1. Removed(o, M, N, n) /\ Counts(batch, d) /\ batch.state # Missing
      BY <1>2, <1>8, <2>2 DEF Repairs
    <3>2. /\ DOMAIN M.records = DOMAIN d.records \ N
          /\ \A i \in DOMAIN M.records : M.records[i] = d.records[i]
          /\ \A t : t \in M.gone <=> t \in d.gone \/ \E i \in N : t = d.records[i].line
          /\ Cardinality(M.gone) = Cardinality(d.gone) + n
      BY <1>11, <3>1 DEF Removed
    <3>3. \A t : t \in Live(M) <=> \E i \in DOMAIN d.records \ N : t = d.records[i].line
      BY <3>2 DEF Live
    <3>4. \A t : t \in Live(d) <=> \E i \in DOMAIN d.records : t = d.records[i].line
      BY DEF Live
    <3>5. (Live(M) \cup M.gone) = Live(d) \cup d.gone
      <4> SUFFICES ASSUME NEW t PROVE t \in Live(M) \/ t \in M.gone <=> t \in Live(d) \/ t \in d.gone
        OBVIOUS
      <4> QED BY <1>10, <3>2, <3>3, <3>4
    <3>6. Live(M) \cap M.gone = {}
      <4> SUFFICES ASSUME NEW t, t \in Live(M), t \in M.gone PROVE FALSE
        OBVIOUS
      <4>1. PICK i \in DOMAIN d.records \ N : t = d.records[i].line
        BY <3>3
      <4>2. t \notin d.gone
        BY <1>4, <3>4, <4>1
      <4>3. PICK j \in N : t = d.records[j].line
        BY <3>2, <4>2
      <4> QED BY <1>4, <1>10, <4>1, <4>3 DEF RowsOwnLines
    <3>7. Cardinality(M.gone) = Removals(M)
      <4>1. M.removals = [revision |-> d.generation + 1, value |-> batch.state.value]
        BY <1>5, <1>12, <3>1 DEF OpenedFields
      <4>2. M.removals # Missing
        <5>1. d.generation + 1 \in Nat /\ batch.state.value \in Nat
          BY <1>2, <1>4, <2>2, DatabaseFields
        <5> QED BY <4>1, <5>1, MissingAssumption
      <4>3. Removals(M) = batch.state.value
        BY <4>1, <4>2 DEF Removals
      <4>4. StateHolds(d, batch.state)
        BY <3>1 DEF Conflicts
      <4>5. batch.state.value = Removals(d) + n
        <5>1. CASE batch.state.revision = 0
          BY <1>1, <3>1, <4>4, <5>1 DEF Counts, StateHolds, Removals, n, q
        <5>2. CASE batch.state.revision # 0
          BY <3>1, <4>4, <5>2 DEF Counts, StateHolds, Removals, n, q
        <5> QED BY <5>1, <5>2
      <4> QED BY <1>4, <3>2, <4>3, <4>5
    <3> QED BY <1>4, <1>13, <3>5, <3>6, <3>7
  <2> QED BY <2>1, <2>2
<1>16. Position(M) \in 0 .. Len(LineOf) /\ M.next = Position(M) + 1
  BY <1>4, <1>12, <1>13
<1>17. /\ Ledger(Collected(d, M, N)) /\ Follows(d, Collected(d, M, N))
       /\ Collected(d, M, N).generation = d.generation + 1
  BY <1>3, <1>5, <1>10, <1>12, <1>14, <1>15, <1>16, CollectedLedger
<1> QED BY <1>6, <1>10, <1>17 DEF M, n

-----------------------------------------------------------------------------
(* The rows a query matches are keyed by their ids, each one of the        *)
(* database.                                                               *)
LEMMA MatchingKeyed ==
    ASSUME NEW d, Ledger(d), NEW query
    PROVE  /\ Keyed(Matching(d, query))
           /\ \A r \in Matching(d, query) : r.id \in DOMAIN d.records
<1> DEFINE rowOf(id) == [id |-> id, revision |-> d.records[id].revision, at |-> LineOf[d.records[id].line[2]].at,
                         weight |-> IF d.records[id].payload \in Large THEN PageBytes ELSE 1]
           S == {i \in DOMAIN d.records : /\ d.records[i].archived => query.accounting
                                          /\ LineOf[d.records[i].line[2]].at >= query.cutoff}
           rows == Matching(d, query)
           g == [id \in S |-> rowOf(id)]
<1>1. d \in Databases /\ DOMAIN d.records \subseteq 1 .. Position(d) /\ Position(d) \in Int
  BY DEF Ledger
<1>2. rows = {rowOf(id) : id \in S}
  BY DEF Matching
<1>3. S \subseteq DOMAIN d.records
  OBVIOUS
<1>4. IsFiniteSet(S)
  <2>1. IsFiniteSet(1 .. Position(d))
    BY <1>1, FS_Interval
  <2>2. S \subseteq 1 .. Position(d)
    BY <1>1, <1>3
  <2> HIDE DEF S
  <2> QED BY <2>1, <2>2, FS_Subset
<1>5. \A id : rowOf(id).id = id /\ rowOf(id).at = LineOf[d.records[id].line[2]].at
  OBVIOUS
<1>6. \A id \in S : LineOf[d.records[id].line[2]].at \in Int /\ id \in Int
  <2> TAKE id \in S
  <2>1. d.records[id].line \in Files \X Lines /\ id \in Lines
    BY <1>1, <1>3, RowFields
  <2>2. d.records[id].line[2] \in Lines
    BY <2>1
  <2> QED BY <2>1, <2>2, LinesAssumption
<1> HIDE DEF rowOf, S, rows
<1>7. \A r \in rows : \E id \in S : r = rowOf(id)
  BY <1>2
<1>8. \A id \in S : rowOf(id) \in rows
  BY <1>2
<1>9. IsFiniteSet(rows)
  <2>1. g \in [S -> rows]
    BY <1>8
  <2>2. \A t \in rows : \E id \in S : g[id] = t
    BY <1>7
  <2> HIDE DEF g
  <2>3. g \in Surjection(S, rows)
    BY <2>1, <2>2, Fun_IsSurj
  <2> QED BY <1>4, <2>3, FS_Surjection
<1>10. \A r \in rows : r.id \in S /\ r = rowOf(r.id) /\ r.at \in Int /\ r.id \in Int
  <2> TAKE r \in rows
  <2>1. PICK id \in S : r = rowOf(id)
    BY <1>7
  <2>2. r.id = id /\ r.at = LineOf[d.records[id].line[2]].at
    BY <1>5, <2>1
  <2> QED BY <1>6, <2>1, <2>2
<1>11. \A r, s \in rows : r.id = s.id => r = s
  <2> TAKE r, s \in rows
  <2>1. r = rowOf(r.id) /\ s = rowOf(s.id)
    BY <1>10
  <2> QED BY <2>1
<1> QED BY <1>3, <1>9, <1>10, <1>11 DEF Keyed, rows

(* The pages joined are the matching rows from the first on.               *)
LEMMA JoinedIsPrefix ==
    ASSUME NEW rows, Keyed(rows), NEW pages, NEW ended, Joined(pages, rows, ended)
    PROVE  /\ pages \in Seq(rows) /\ IsPrefix(pages, Ordered(rows))
           /\ ended => pages = Ordered(rows)
<1> DEFINE N == Cardinality(rows)
           f == Ordered(rows)
<1>1. Enumerates(f, N, rows) /\ N \in Nat
  BY OrderedEnumerates
<1>2. PICK k \in 0 .. N : pages = FirstRows(rows, k) /\ (ended => k = N)
  BY DEF Joined
<1>3. pages = [i \in 1 .. k |-> f[i]]
  BY <1>2 DEF FirstRows
<1> HIDE DEF f, N
<1>4. f \in [1 .. N -> rows] /\ f \in Seq(rows) /\ Len(f) = N
  <2>1. f \in [1 .. N -> rows]
    BY <1>1 DEF Enumerates
  <2>2. f \in Seq(rows)
    BY <1>1, <2>1, SeqDef
  <2> QED BY <1>1, <2>1, <2>2, LenProperties
<1>5. pages \in Seq(rows) /\ Len(pages) = k
  <2>1. pages \in [1 .. k -> rows] /\ k \in Nat
    BY <1>1, <1>2, <1>3, <1>4
  <2>2. pages \in Seq(rows)
    BY <2>1, SeqDef
  <2> QED BY <2>1, <2>2, LenProperties
<1>6. \A i \in 1 .. k : SubSeq(pages, 1, k)[i] = f[i] /\ SubSeq(f, 1, k)[i] = f[i]
  BY <1>1, <1>2, <1>3, <1>4, <1>5, SubSeqProperties
<1>7. SubSeq(pages, 1, k) = SubSeq(f, 1, k)
  <2>1. /\ SubSeq(pages, 1, k) \in Seq(rows) /\ Len(SubSeq(pages, 1, k)) = k
        /\ SubSeq(f, 1, k) \in Seq(rows) /\ Len(SubSeq(f, 1, k)) = k
    BY <1>1, <1>2, <1>4, <1>5, SubSeqProperties
  <2> QED BY <1>6, <2>1, SeqEqual
<1>8. IsPrefix(pages, f)
  BY <1>1, <1>2, <1>4, <1>5, <1>7 DEF IsPrefix
<1>9. ASSUME ended PROVE pages = f
  <2>1. f = [i \in 1 .. N |-> f[i]]
    BY <1>4
  <2> QED BY <1>2, <1>3, <1>9, <2>1
<1> QED BY <1>5, <1>8, <1>9 DEF f

(* A finite set as a sequence without repetition.                          *)
LEMMA SetAsSequence ==
    ASSUME NEW S, IsFiniteSet(S)
    PROVE  /\ SetToSeq(S) \in Seq(S) /\ Len(SetToSeq(S)) = Cardinality(S)
           /\ \A i, j \in 1 .. Cardinality(S) : SetToSeq(S)[i] = SetToSeq(S)[j] => i = j
<1> DEFINE n == Cardinality(S)
           f == SetToSeq(S)
<1>1. n \in Nat /\ ExistsBijection(1 .. n, S)
  BY FS_CardinalityType
<1>2. PICK b : b \in Bijection(1 .. n, S)
  BY <1>1 DEF ExistsBijection
<1>3. b \in [1 .. n -> S] /\ IsInjective(b)
  BY <1>2 DEF Bijection, Injection, IsInjective
<1>4. f \in [1 .. n -> S] /\ IsInjective(f)
  BY <1>3 DEF SetToSeq
<1> HIDE DEF f, n
<1>5. f \in Seq(S)
  BY <1>1, <1>4, SeqDef
<1>6. Len(f) = n
  BY <1>1, <1>4, <1>5, LenProperties
<1>7. \A i, j \in 1 .. n : f[i] = f[j] => i = j
  BY <1>4 DEF IsInjective
<1> QED BY <1>5, <1>6, <1>7 DEF f, n

-----------------------------------------------------------------------------
(* The batches callers make, and what they know of the database.           *)
Prepared(batch, d) ==
    \/ \E file \in Files, from \in Nat, n \in Nat : from + n \in Lines /\ Imports(batch, file, from, n)
    \/ \E delete \in BOOLEAN : Repairs(batch, d, delete)

ImportOf(file, from, n) ==
    [progress |-> [file |-> file, from |-> from, to |-> from + n], state |-> Missing,
     mutations |-> [i \in 1 .. n |->
         [id |-> 0, revision |-> 0, delete |-> FALSE, archived |-> FALSE, edits |-> 0, line |-> <<file, from + i>>,
          identity |-> LineOf[from + i].identity, payload |-> LineOf[from + i].payload]]]

(* What ResumeImport asks for is an import.                                *)
LEMMA ImportPrepared ==
    ASSUME NEW file \in Files, NEW from \in Nat, NEW n \in Nat, from + n \in Lines
    PROVE  Imports(ImportOf(file, from, n), file, from, n)
<1> DEFINE change(i) == [id |-> 0, revision |-> 0, delete |-> FALSE, archived |-> FALSE, edits |-> 0,
                         line |-> <<file, from + i>>,
                         identity |-> LineOf[from + i].identity, payload |-> LineOf[from + i].payload]
           q == [i \in 1 .. n |-> change(i)]
           batch == ImportOf(file, from, n)
<1>1. batch.progress = [file |-> file, from |-> from, to |-> from + n] /\ batch.state = Missing
      /\ batch.mutations = q
  BY DEF ImportOf
<1>2. ASSUME NEW i \in 1 .. n PROVE change(i) \in Change
  <2>1. from + i \in Lines
    BY LinesAssumption
  <2>2. <<file, from + i>> \in Files \X Lines /\ LineOf[from + i].identity \in Identities
        /\ LineOf[from + i].payload \in Payloads
    BY <2>1 DEF Identities, Payloads
  <2> QED BY <2>2 DEF Change
<1>3. \A i : /\ change(i).id = 0 /\ change(i).delete = FALSE /\ change(i).edits = 0
             /\ change(i).line = <<file, from + i>>
  OBVIOUS
<1> HIDE DEF change, batch
<1>4. q \in [1 .. n -> Change] /\ \A i \in 1 .. n : q[i] = change(i)
  BY <1>2
<1> HIDE DEF q
<1>5. q \in Seq(Change)
  BY <1>4, SeqDef
<1>6. Len(q) = n
  BY <1>4, <1>5, LenProperties
<1> QED BY <1>1, <1>3, <1>4, <1>5, <1>6 DEF Imports, batch

(* A repair as Amend makes it of the database v that a view has shown.     *)
EditOf(v, id, delete) ==
    [id |-> id, revision |-> v.records[id].revision, delete |-> delete, archived |-> TRUE,
     edits |-> v.records[id].edits + 1,
     line |-> v.records[id].line, identity |-> OtherIdentity, payload |-> "brief"]

CountOf(v, n) ==
    IF v.removals = Missing THEN [revision |-> 0, value |-> n]
    ELSE [revision |-> v.removals.revision, value |-> v.removals.value + n]

RepairOf(v, ids, delete) ==
    [progress |-> Missing, state |-> IF delete THEN CountOf(v, Cardinality(ids)) ELSE Missing,
     mutations |-> SetToSeq({EditOf(v, id, delete) : id \in ids})]

(* An edit of a record of the view knows that record, if no one has        *)
(* written it since.                                                       *)
LEMMA EditPrepared ==
    ASSUME NEW v, Ledger(v), NEW d, Ledger(d), Follows(v, d), NEW id \in DOMAIN v.records,
           NEW delete \in BOOLEAN
    PROVE  /\ EditOf(v, id, delete) \in Change /\ KnowsRow(EditOf(v, id, delete), d, delete)
           /\ EditOf(v, id, delete).id = id
<1> DEFINE m == EditOf(v, id, delete)
           r == v.records[id]
<1>1. /\ id \in Lines /\ r.revision \in Nat /\ r.edits \in Nat /\ r.line \in Files \X Lines
      /\ r.revision <= v.generation /\ id # 0
  <2>1. /\ id \in Lines /\ r.revision \in Nat /\ r.edits \in Nat /\ r.line \in Files \X Lines
    BY RowFields DEF Ledger
  <2>2. r.revision <= v.generation
    BY DEF Ledger, RevisionsKnown
  <2> QED BY <2>1, <2>2, LinesAssumption
<1>2. m \in Change
  BY <1>1 DEF EditOf, Change, Identities, Payloads
<1>3. m.id = id /\ m.revision = r.revision /\ m.delete = delete /\ m.line = r.line /\ m.edits = r.edits + 1
  BY DEF EditOf
<1> HIDE DEF m, r
<1>4. v.generation \in Nat /\ d.generation \in Nat /\ v.generation <= d.generation
  BY DatabaseFields DEF Ledger, Follows
<1>5. ASSUME id \in DOMAIN d.records, d.records[id].revision = m.revision
      PROVE  d.records[id] = r
  BY <1>1, <1>3, <1>4, <1>5 DEF Follows, r
<1>6. KnowsRow(m, d, delete)
  BY <1>1, <1>3, <1>4, <1>5 DEF KnowsRow
<1> QED BY <1>2, <1>3, <1>6 DEF m

(* The count of removals a repair asks for adds its own to those of the    *)
(* view, if no one has counted since.                                      *)
LEMMA CountPrepared ==
    ASSUME NEW v, Ledger(v), NEW d, Ledger(d), Follows(v, d), NEW n \in Nat,
           NEW batch, batch.state = CountOf(v, n), Len(batch.mutations) = n
    PROVE  Counts(batch, d)
<1>1. v.generation \in Nat /\ d.generation \in Nat /\ v.generation <= d.generation
  BY DatabaseFields DEF Ledger, Follows
<1>2. d.removals # Missing => d.removals.revision \in 1 .. d.generation
  BY DEF Ledger, RevisionsKnown
<1>3. CASE v.removals = Missing
  <2>1. batch.state = [revision |-> 0, value |-> n]
    BY <1>3 DEF CountOf
  <2> QED BY <1>1, <1>2, <2>1 DEF Counts
<1>4. CASE v.removals # Missing
  <2>1. batch.state = [revision |-> v.removals.revision, value |-> v.removals.value + n]
    BY <1>4 DEF CountOf
  <2>2. v.removals.revision \in 1 .. v.generation /\ v.removals.value \in Nat
    BY <1>4, DatabaseFields DEF Ledger, RevisionsKnown
  <2>3. ASSUME d.removals # Missing, d.removals.revision = batch.state.revision
        PROVE  d.removals = v.removals
    BY <1>1, <2>1, <2>2, <2>3 DEF Follows
  <2>4. batch.state.revision = v.removals.revision /\ batch.state.value = v.removals.value + n
    BY <2>1
  <2>5. batch.state \in [revision : Nat, value : Nat]
    BY <2>1, <2>2
  <2> QED BY <1>1, <2>2, <2>3, <2>4, <2>5 DEF Counts
<1> QED BY <1>3, <1>4

(* What Amend asks for is a repair.                                        *)
LEMMA RepairPrepared ==
    ASSUME NEW v, Ledger(v), NEW d, Ledger(d), Follows(v, d), NEW ids, ids \subseteq DOMAIN v.records,
           NEW delete \in BOOLEAN
    PROVE  Repairs(RepairOf(v, ids, delete), d, delete)
<1> DEFINE S == {EditOf(v, id, delete) : id \in ids}
           q == SetToSeq(S)
           n == Cardinality(ids)
           batch == RepairOf(v, ids, delete)
<1>1. batch.progress = Missing /\ batch.mutations = q
      /\ batch.state = IF delete THEN CountOf(v, n) ELSE Missing
  BY DEF RepairOf
<1>2. \A id \in ids : /\ EditOf(v, id, delete) \in Change /\ KnowsRow(EditOf(v, id, delete), d, delete)
                      /\ EditOf(v, id, delete).id = id
  BY EditPrepared
<1>3. IsFiniteSet(ids) /\ n \in Nat
  <2>1. DOMAIN v.records \subseteq 1 .. Position(v) /\ Position(v) \in Int
    BY DEF Ledger
  <2>2. IsFiniteSet(1 .. Position(v))
    BY <2>1, FS_Interval
  <2>3. ids \subseteq 1 .. Position(v)
    BY <2>1
  <2> QED BY <2>2, <2>3, FS_Subset, FS_CardinalityType
<1>4. IsFiniteSet(S) /\ Cardinality(S) = n
  <2> DEFINE g == [id \in ids |-> EditOf(v, id, delete)]
  <2>1. g \in [ids -> S] /\ \A x, y \in ids : g[x] = g[y] => x = y
    BY <1>2
  <2>2. \A t \in S : \E x \in ids : g[x] = t
    OBVIOUS
  <2> HIDE DEF g, S
  <2>3. g \in Bijection(ids, S)
    BY <2>1, <2>2, Fun_IsBij
  <2>4. ExistsBijection(ids, S)
    BY <2>3 DEF ExistsBijection
  <2> QED BY <1>3, <2>4, FS_Bijection
<1>5. q \in Seq(S) /\ Len(q) = n /\ \A i, j \in 1 .. n : q[i] = q[j] => i = j
  <2> HIDE DEF S
  <2> QED BY <1>4, SetAsSequence
<1>6. \A i \in 1 .. n : \E id \in ids : q[i] = EditOf(v, id, delete)
  <2> TAKE i \in 1 .. n
  <2>1. q[i] \in S
    <3> HIDE DEF S, q, n
    <3> QED BY <1>5, ElementOfSeq
  <2> QED BY <2>1
<1>7. q \in Seq(Change)
  <2>1. \A t \in S : t \in Change
    BY <1>2
  <2> HIDE DEF S, q
  <2>2. q \in [1 .. n -> S]
    BY <1>5, LenProperties
  <2>3. q \in [1 .. n -> Change]
    BY <2>1, <2>2
  <2> QED BY <1>3, <2>3, SeqDef
<1> HIDE DEF S, q, n, batch
<1>8. \A i \in 1 .. n : KnowsRow(q[i], d, delete)
  BY <1>2, <1>6
<1>9. \A i, j \in 1 .. n : q[i].id = q[j].id => i = j
  <2> TAKE i, j \in 1 .. n
  <2>1. q[i] = EditOf(v, q[i].id, delete) /\ q[j] = EditOf(v, q[j].id, delete)
    BY <1>2, <1>6
  <2> QED BY <1>5, <2>1
<1>10. ASSUME delete = TRUE PROVE Counts(batch, d)
  BY <1>1, <1>3, <1>5, <1>10, CountPrepared
<1>11. delete = FALSE => batch.state = Missing
  BY <1>1
<1> QED BY <1>1, <1>5, <1>7, <1>8, <1>9, <1>10, <1>11 DEF Repairs, batch

(* A batch that does not conflict makes of a ledger the next one.          *)
LEMMA BatchApplied ==
    ASSUME NEW d, Ledger(d), NEW batch, Prepared(batch, d), ~Conflicts(d, batch)
    PROVE  Ledger(Applied(d, batch)) /\ Follows(d, Applied(d, batch))
<1>1. CASE \E file \in Files, from \in Nat, n \in Nat : from + n \in Lines /\ Imports(batch, file, from, n)
  BY <1>1, ImportApplied
<1>2. CASE \E delete \in BOOLEAN : Repairs(batch, d, delete)
  BY <1>2, RepairApplied
<1> QED BY <1>1, <1>2 DEF Prepared

(* A batch that is prepared stays so while others commit.                  *)
LEMMA PreparedKeeps ==
    ASSUME NEW d, Ledger(d), NEW e, Ledger(e), Follows(d, e), NEW batch, Prepared(batch, d)
    PROVE  Prepared(batch, e)
<1>1. CASE \E delete \in BOOLEAN : Repairs(batch, d, delete)
  BY <1>1, RepairsKeep DEF Prepared
<1> QED BY <1>1 DEF Prepared

-----------------------------------------------------------------------------
(* The invariant.                                                          *)
ViewOK(c, d) ==
    /\ c = [op |-> "view", db |-> c.db, query |-> c.query, pages |-> c.pages, ended |-> c.ended]
    /\ Ledger(c.db) /\ Follows(c.db, d)
    /\ Joined(c.pages, Matching(c.db, c.query), c.ended)
    /\ c.ended \in BOOLEAN

AskingOK(c, d) == c = [op |-> "apply", batch |-> c.batch] /\ Prepared(c.batch, d)

ClientOK(c, d) == c = Resting \/ ViewOK(c, d) \/ AskingOK(c, d)

BackupOK(b) ==
    /\ b = [made |-> b.made, running |-> b.running, file |-> b.file, manifest |-> b.manifest]
    /\ b.file # Missing => b.file = Rotten \/ Ledger(b.file)
    /\ b.manifest # Missing => Ledger(b.manifest)
    /\ b.file = Rotten /\ b.file # Missing => b.manifest # Missing

RestoredOK == restored # Missing => restored # Rotten /\ Ledger(restored)

ClientsOK == client = [a \in Callers |-> client[a]] /\ \A a \in Callers : ClientOK(client[a], db)

BackupsOK == backup = [b \in Directories |-> backup[b]] /\ \A b \in Directories : BackupOK(backup[b])

SqliteInvariant == Ledger(db) /\ ClientsOK /\ BackupsOK /\ RestoredOK

(* A ledger is not a file gone bad.                                        *)
LEMMA LedgerNotRotten == ASSUME NEW d, Ledger(d) PROVE d # Rotten
BY RottenAssumption DEF Ledger

(* A caller is in one of three states, told apart by op.                   *)
LEMMA OpTags ==
    ASSUME NEW c, NEW d, ClientOK(c, d)
    PROVE  /\ c # Resting /\ c.op = "view" => ViewOK(c, d)
           /\ c.op = "view" => c # Resting /\ ViewOK(c, d)
           /\ c.op = "apply" => AskingOK(c, d)
<1>1. CASE c = Resting
  <2>1. c.op = "resting"
    BY <1>1 DEF Resting
  <2> QED BY <1>1, <2>1
<1>2. CASE ViewOK(c, d)
  <2>1. c.op = "view"
    BY <1>2 DEF ViewOK
  <2>2. c # Resting
    BY <2>1 DEF Resting
  <2> QED BY <1>2, <2>1, <2>2
<1>3. CASE AskingOK(c, d)
  <2>1. c.op = "apply"
    BY <1>3 DEF AskingOK
  <2> QED BY <1>3, <2>1
<1> QED BY <1>1, <1>2, <1>3 DEF ClientOK

(* What a caller knows stays true when another commits.                    *)
LEMMA ClientKeeps ==
    ASSUME NEW d, Ledger(d), NEW e, Ledger(e), Follows(d, e), NEW c, ClientOK(c, d)
    PROVE  ClientOK(c, e)
<1>1. CASE ViewOK(c, d)
  <2>1. Follows(c.db, e)
    BY <1>1, FollowsOn DEF ViewOK
  <2> QED BY <1>1, <2>1 DEF ViewOK, ClientOK
<1>2. CASE AskingOK(c, d)
  <2>1. Prepared(c.batch, e)
    BY <1>2, PreparedKeeps DEF AskingOK
  <2> QED BY <1>2, <2>1 DEF AskingOK, ClientOK
<1>3. CASE c = Resting
  BY <1>3 DEF ClientOK
<1> QED BY <1>1, <1>2, <1>3 DEF ClientOK

(* A step of one caller that leaves the database alone.                    *)
LEMMA OneCaller ==
    ASSUME ClientsOK, NEW a \in Callers, NEW c, ClientOK(c, db),
           client' = [client EXCEPT ![a] = c], db' = db
    PROVE  ClientsOK'
<1>1. client' = [x \in Callers |-> client'[x]]
  BY DEF ClientsOK
<1>2. ASSUME NEW x \in Callers PROVE ClientOK(client'[x], db')
  <2>1. client'[x] = IF x = a THEN c ELSE client[x]
    BY DEF ClientsOK
  <2> QED BY <2>1 DEF ClientsOK
<1> QED BY <1>1, <1>2 DEF ClientsOK

(* Steps that leave the callers and the database alone.                    *)
LEMMA ClientsSame == ASSUME ClientsOK, UNCHANGED <<client, db>> PROVE ClientsOK'
BY DEF ClientsOK

(* A step of one backup directory.                                         *)
LEMMA OneDirectory ==
    ASSUME BackupsOK, NEW b \in Directories, NEW x, BackupOK(x), backup' = [backup EXCEPT ![b] = x]
    PROVE  BackupsOK'
<1>1. backup' = [y \in Directories |-> backup'[y]]
  BY DEF BackupsOK
<1>2. ASSUME NEW y \in Directories PROVE BackupOK(backup'[y])
  <2>1. backup'[y] = IF y = b THEN x ELSE backup[y]
    BY DEF BackupsOK
  <2> QED BY <2>1 DEF BackupsOK
<1> QED BY <1>1, <1>2 DEF BackupsOK

(* Steps that leave the backups alone.                                     *)
LEMMA RestSame ==
    ASSUME BackupsOK, RestoredOK, UNCHANGED <<backup, restored>>
    PROVE  BackupsOK' /\ RestoredOK'
BY DEF BackupsOK, RestoredOK

(* The new database, no caller at work, no backup.                         *)
LEMMA SqliteInitially == SqliteInit => SqliteInvariant
<1> SUFFICES ASSUME SqliteInit PROVE SqliteInvariant
  OBVIOUS
<1>1. Ledger(db)
  BY NewLedgerIsLedger DEF SqliteInit
<1>2. ClientsOK
  BY DEF SqliteInit, ClientsOK, ClientOK
<1>3. BackupOK(NoDirectory)
  BY DEF NoDirectory, BackupOK
<1>4. BackupsOK
  BY <1>3 DEF SqliteInit, BackupsOK
<1> QED BY <1>1, <1>2, <1>4 DEF SqliteInit, SqliteInvariant, RestoredOK

(* The steps of a view.                                                    *)
LEMMA ReadViewStep == ASSUME SqliteInvariant, NEW a \in Callers, ReadView(a) PROVE SqliteInvariant'
<1>1. PICK query \in Queries :
        client' = [client EXCEPT ![a] = [op |-> "view", db |-> db, query |-> query, pages |-> <<>>, ended |-> FALSE]]
  BY DEF ReadView
<1> DEFINE c == [op |-> "view", db |-> db, query |-> query, pages |-> <<>>, ended |-> FALSE]
<1>2. UNCHANGED <<db, backup, restored>>
  BY DEF ReadView
<1>3. Ledger(db) /\ ClientsOK /\ BackupsOK /\ RestoredOK
  BY DEF SqliteInvariant
<1>4. Joined(<<>>, Matching(db, query), FALSE)
  <2> DEFINE rows == Matching(db, query)
  <2>1. Cardinality(rows) \in Nat
    BY <1>3, MatchingKeyed, FS_CardinalityType DEF Keyed
  <2>2. FirstRows(rows, 0) = <<>>
    BY DEF FirstRows
  <2> HIDE DEF rows
  <2>3. Joined(<<>>, rows, FALSE)
    BY <2>1, <2>2 DEF Joined
  <2> QED BY <2>3 DEF rows
<1>5. c.db = db /\ c.query = query /\ c.pages = <<>> /\ c.ended = FALSE
      /\ c = [op |-> "view", db |-> c.db, query |-> c.query, pages |-> c.pages, ended |-> c.ended]
  OBVIOUS
<1> HIDE DEF c
<1>6. ViewOK(c, db)
  BY <1>3, <1>4, <1>5, FollowsItself DEF ViewOK
<1>7. ClientsOK'
  BY <1>1, <1>2, <1>3, <1>6, OneCaller DEF ClientOK, c
<1> QED BY <1>2, <1>3, <1>7, RestSame DEF SqliteInvariant

(* A view with another page joined.                                        *)
LEMMA PageAdded ==
    ASSUME NEW c, c = [op |-> "view", db |-> c.db, query |-> c.query, pages |-> c.pages, ended |-> c.ended],
           NEW pages, NEW ended, NEW d, d = [c EXCEPT !.pages = pages, !.ended = ended]
    PROVE  d = [op |-> "view", db |-> c.db, query |-> c.query, pages |-> pages, ended |-> ended]
<1>1. DOMAIN c = {"op", "db", "query", "pages", "ended"} /\ c.op = "view"
  OBVIOUS
<1> QED BY <1>1

(* The next page of a view: readPage resumes behind the last row by its    *)
(* time and id, in the generation the view has pinned.                     *)
LEMMA ReadPageStep ==
    ASSUME SqliteInvariant, NEW a \in Callers, NEW limit \in Limits, ReadPage(a, limit)
    PROVE  SqliteInvariant'
<1> DEFINE c == client[a]
           all == Matching(c.db, c.query)
           page == Fitting(Ordered({r \in all : c.pages # <<>> => PageOrder(Last(c.pages), r)}), limit)
           new == [c EXCEPT !.pages = @ \o page, !.ended = page = <<>>]
<1>1. Ledger(db) /\ ClientsOK /\ BackupsOK /\ RestoredOK
  BY DEF SqliteInvariant
<1>2. c.op = "view" /\ ~c.ended /\ UNCHANGED <<db, backup, restored>>
  BY DEF ReadPage
<1>3. ViewOK(c, db)
  BY <1>1, <1>2, OpTags DEF ClientsOK
<1>4. client' = [client EXCEPT ![a] = new]
  <2>1. client' = [client EXCEPT ![a].pages = @ \o page, ![a].ended = page = <<>>]
    BY DEF ReadPage, PinnedRows
  <2> HIDE DEF page
  <2> QED BY <2>1
<1>5. Joined(c.pages \o page, all, page = <<>>)
  <2>1. Keyed(all)
    BY <1>3, MatchingKeyed DEF ViewOK
  <2>2. Joined(c.pages, all, FALSE)
    BY <1>3 DEF ViewOK, Joined
  <2>3. limit \in Nat \ {0}
    BY LimitsAssumption
  <2> HIDE DEF all, c
  <2> QED BY <2>1, <2>2, <2>3, NextPage
<1> DEFINE joined == c.pages \o page
           end == page = <<>>
           open == [c EXCEPT !.pages = joined, !.ended = end]
<1>6. new = open /\ Joined(joined, all, end) /\ end \in BOOLEAN
  BY <1>5
<1> HIDE DEF page, all, joined, end, new
<1>7. /\ open.pages = joined /\ open.ended = end /\ open.db = c.db /\ open.query = c.query
      /\ open = [op |-> "view", db |-> open.db, query |-> open.query, pages |-> open.pages, ended |-> open.ended]
  <2>1. open = [c EXCEPT !.pages = joined, !.ended = end]
    OBVIOUS
  <2>2. c = [op |-> "view", db |-> c.db, query |-> c.query, pages |-> c.pages, ended |-> c.ended]
    BY <1>3 DEF ViewOK
  <2> HIDE DEF c, open
  <2>3. open = [op |-> "view", db |-> c.db, query |-> c.query, pages |-> joined, ended |-> end]
    BY <2>1, <2>2, PageAdded
  <2> QED BY <2>3
<1> HIDE DEF open
<1>8. ViewOK(new, db)
  BY <1>3, <1>6, <1>7 DEF ViewOK, all
<1>9. ClientsOK'
  BY <1>1, <1>2, <1>4, <1>8, OneCaller DEF ClientOK
<1> QED BY <1>1, <1>2, <1>9, RestSame DEF SqliteInvariant

(* A caller that has prepared a batch.                                     *)
LEMMA AskingStep ==
    ASSUME SqliteInvariant, NEW a \in Callers, NEW batch, Prepared(batch, db), Asking(a, batch)
    PROVE  SqliteInvariant'
<1> DEFINE c == [op |-> "apply", batch |-> batch]
<1>1. Ledger(db) /\ ClientsOK /\ BackupsOK /\ RestoredOK
  BY DEF SqliteInvariant
<1>2. client' = [client EXCEPT ![a] = c] /\ UNCHANGED <<db, backup, restored>>
  BY DEF Asking
<1>3. ClientOK(c, db)
  BY DEF AskingOK, ClientOK
<1> HIDE DEF c
<1>4. ClientsOK'
  BY <1>1, <1>2, <1>3, OneCaller
<1> QED BY <1>1, <1>2, <1>4, RestSame DEF SqliteInvariant

(* A migration resumes at the cursor of its view.                          *)
LEMMA ResumeImportStep ==
    ASSUME SqliteInvariant, NEW a \in Callers, NEW file \in Files, NEW n \in Lines, ResumeImport(a, file, n)
    PROVE  SqliteInvariant'
<1> DEFINE seen == client[a].db.progress
           from == IF seen = Missing THEN 0 ELSE seen.position
<1>1. from + n \in Lines /\ Asking(a, ImportOf(file, from, n))
  BY DEF ResumeImport, ImportOf
<1>2. ViewOK(client[a], db)
  BY OpTags DEF SqliteInvariant, ClientsOK, ResumeImport
<1>3. from \in Nat
  BY <1>2, DatabaseFields DEF ViewOK, Ledger
<1>4. n \in Nat
  BY LinesAssumption
<1> HIDE DEF from
<1>5. Prepared(ImportOf(file, from, n), db)
  BY <1>1, <1>3, <1>4, ImportPrepared DEF Prepared
<1> QED BY <1>1, <1>5, AskingStep

(* A repair is prepared of records the pages of its view have shown.       *)
LEMMA AmendStep ==
    ASSUME SqliteInvariant, NEW a \in Callers, NEW delete \in BOOLEAN, Amend(a, delete)
    PROVE  SqliteInvariant'
<1> DEFINE c == client[a]
           v == c.db
<1>1. PICK ids \in SUBSET {r.id : r \in ToSet(c.pages)} : Asking(a, RepairOf(v, ids, delete))
  BY DEF Amend, RepairOf, EditOf, CountOf
<1>2. ViewOK(c, db)
  BY OpTags DEF SqliteInvariant, ClientsOK, Amend
<1>3. Ledger(v) /\ Follows(v, db) /\ Ledger(db)
  BY <1>2 DEF ViewOK, SqliteInvariant
<1>4. ids \subseteq DOMAIN v.records
  <2> DEFINE rows == Matching(v, c.query)
  <2>1. Keyed(rows) /\ \A r \in rows : r.id \in DOMAIN v.records
    BY <1>3, MatchingKeyed
  <2>2. Joined(c.pages, rows, c.ended)
    BY <1>2 DEF ViewOK
  <2> HIDE DEF rows
  <2>3. c.pages \in Seq(rows)
    BY <2>1, <2>2, JoinedIsPrefix
  <2>4. \A r \in ToSet(c.pages) : r \in rows
    BY <2>3, ElementOfSeq DEF ToSet
  <2> QED BY <2>1, <2>4
<1> HIDE DEF v, c
<1>5. Prepared(RepairOf(v, ids, delete), db)
  BY <1>3, <1>4, RepairPrepared DEF Prepared
<1> QED BY <1>1, <1>5, AskingStep

(* A commit: the others know less than before, but nothing that is false.  *)
LEMMA ApplyBatchStep == ASSUME SqliteInvariant, NEW a \in Callers, ApplyBatch(a) PROVE SqliteInvariant'
<1>1. Ledger(db) /\ ClientsOK /\ BackupsOK /\ RestoredOK
  BY DEF SqliteInvariant
<1>2. client[a].op = "apply" /\ UNCHANGED <<backup, restored>>
  BY DEF ApplyBatch
<1>3. Prepared(client[a].batch, db)
  BY <1>1, <1>2, OpTags DEF ClientsOK, AskingOK
<1>4. Ledger(db') /\ Follows(db, db')
  <2>1. CASE Conflicts(db, client[a].batch)
    BY <1>1, <2>1, FollowsItself DEF ApplyBatch
  <2>2. CASE ~Conflicts(db, client[a].batch)
    <3>1. db' = Applied(db, client[a].batch)
      BY <2>2 DEF ApplyBatch
    <3> QED BY <1>1, <1>3, <2>2, <3>1, BatchApplied
  <2> QED BY <2>1, <2>2
<1>5. client' = [client EXCEPT ![a] = Resting] \/ client' = client
  BY DEF ApplyBatch
<1>6. client' = [x \in Callers |-> client'[x]]
      /\ \A x \in Callers : client'[x] = Resting \/ client'[x] = client[x]
  <2>1. CASE client' = [client EXCEPT ![a] = Resting]
    BY <1>1, <2>1 DEF ClientsOK
  <2>2. CASE client' = client
    BY <1>1, <2>2 DEF ClientsOK
  <2> QED BY <1>5, <2>1, <2>2
<1>7. ASSUME NEW x \in Callers PROVE ClientOK(client'[x], db')
  <2>1. ClientOK(client[x], db')
    BY <1>1, <1>4, ClientKeeps DEF ClientsOK
  <2> QED BY <1>6, <2>1 DEF ClientOK
<1>8. ClientsOK'
  BY <1>6, <1>7 DEF ClientsOK
<1> QED BY <1>1, <1>2, <1>4, <1>8, RestSame DEF SqliteInvariant

(* A caller gives up.                                                      *)
LEMMA AbandonStep == ASSUME SqliteInvariant, NEW a \in Callers, Abandon(a) PROVE SqliteInvariant'
<1>1. Ledger(db) /\ ClientsOK /\ BackupsOK /\ RestoredOK
  BY DEF SqliteInvariant
<1>2. client' = [client EXCEPT ![a] = Resting] /\ UNCHANGED <<db, backup, restored>>
  BY DEF Abandon
<1>3. ClientsOK'
  BY <1>1, <1>2, OneCaller DEF ClientOK
<1> QED BY <1>1, <1>2, <1>3, RestSame DEF SqliteInvariant

(* The steps of a backup.                                                  *)
LEMMA DirectoryStep ==
    ASSUME SqliteInvariant, NEW b \in Directories, NEW x, BackupOK(x), backup' = [backup EXCEPT ![b] = x],
           UNCHANGED <<db, client, restored>>
    PROVE  SqliteInvariant'
<1>1. BackupsOK'
  BY OneDirectory DEF SqliteInvariant
<1>2. ClientsOK'
  BY ClientsSame DEF SqliteInvariant
<1> QED BY <1>1, <1>2 DEF SqliteInvariant, RestoredOK

(* Whether a directory is made, or written to, is nothing to what it       *)
(* holds.                                                                  *)
LEMMA OtherFlags ==
    ASSUME NEW x, BackupOK(x), NEW made, NEW running
    PROVE  /\ BackupOK([x EXCEPT !.running = running])
           /\ BackupOK([x EXCEPT !.made = made, !.running = running])
<1> DEFINE y == [x EXCEPT !.running = running]
           z == [x EXCEPT !.made = made, !.running = running]
<1>1. /\ y.made = x.made /\ y.running = running /\ y.file = x.file /\ y.manifest = x.manifest
      /\ y = [made |-> y.made, running |-> y.running, file |-> y.file, manifest |-> y.manifest]
  BY DEF BackupOK
<1>2. /\ z.file = x.file /\ z.manifest = x.manifest
      /\ z = [made |-> z.made, running |-> z.running, file |-> z.file, manifest |-> z.manifest]
  <2>1. z = [x EXCEPT !.made = made, !.running = running]
    OBVIOUS
  <2>2. x = [made |-> x.made, running |-> x.running, file |-> x.file, manifest |-> x.manifest]
    BY DEF BackupOK
  <2> HIDE DEF z
  <2>3. z = [made |-> made, running |-> running, file |-> x.file, manifest |-> x.manifest]
    BY <2>1, <2>2
  <2> QED BY <2>3
<1> HIDE DEF y, z
<1>3. BackupOK(y) /\ BackupOK(z)
  BY <1>1, <1>2 DEF BackupOK
<1> QED BY <1>3 DEF y, z

(* A backup is made, published, removed, or goes bad.                      *)
LEMMA BackupStep ==
    ASSUME SqliteInvariant, NEW b \in Directories,
           \/ MakeDirectory(b) \/ VacuumInto(b) \/ PublishManifest(b)
           \/ BackupDone(b) \/ BackupFails(b) \/ Rot(b)
    PROVE  SqliteInvariant'
<1> DEFINE x == backup[b]
<1>1. BackupOK(x) /\ Ledger(db) /\ UNCHANGED <<db, client, restored>>
  BY DEF SqliteInvariant, BackupsOK, MakeDirectory, VacuumInto, PublishManifest, BackupDone, BackupFails, Rot
<1>2. CASE MakeDirectory(b)
  <2>1. BackupOK(NoDirectory)
    BY DEF NoDirectory, BackupOK
  <2>2. BackupOK([NoDirectory EXCEPT !.made = TRUE, !.running = TRUE])
    BY <2>1, OtherFlags, Zenon
  <2> QED BY <1>1, <1>2, <2>2, DirectoryStep DEF MakeDirectory
<1>3. CASE BackupFails(b)
  <2>1. BackupOK(NoDirectory)
    BY DEF NoDirectory, BackupOK
  <2> QED BY <1>1, <1>3, <2>1, DirectoryStep DEF BackupFails
<1>4. CASE VacuumInto(b)
  <2> DEFINE y == [x EXCEPT !.file = db]
  <2>1. y = [made |-> x.made, running |-> x.running, file |-> db, manifest |-> x.manifest]
    BY <1>1 DEF BackupOK
  <2>2. backup' = [backup EXCEPT ![b] = y]
    BY <1>4 DEF VacuumInto
  <2> HIDE DEF y
  <2>3. BackupOK(y)
    BY <1>1, <2>1, LedgerNotRotten DEF BackupOK
  <2> QED BY <1>1, <2>2, <2>3, DirectoryStep
<1>5. CASE PublishManifest(b)
  <2> DEFINE y == [x EXCEPT !.manifest = x.file]
  <2>1. y = [made |-> x.made, running |-> x.running, file |-> x.file, manifest |-> x.file]
    BY <1>1 DEF BackupOK
  <2>2. backup' = [backup EXCEPT ![b] = y] /\ x.file # Missing /\ x.manifest = Missing
    BY <1>5 DEF PublishManifest
  <2> HIDE DEF y
  <2>3. BackupOK(y)
    BY <1>1, <2>1, <2>2 DEF BackupOK
  <2> QED BY <1>1, <2>2, <2>3, DirectoryStep
<1>6. CASE BackupDone(b)
  <2>1. BackupOK([x EXCEPT !.running = FALSE])
    BY <1>1, OtherFlags, Zenon
  <2>2. backup' = [backup EXCEPT ![b] = [x EXCEPT !.running = FALSE]]
    BY <1>6 DEF BackupDone
  <2> QED BY <1>1, <2>1, <2>2, DirectoryStep
<1>7. CASE Rot(b)
  <2> DEFINE y == [x EXCEPT !.file = Rotten]
  <2>1. y = [made |-> x.made, running |-> x.running, file |-> Rotten, manifest |-> x.manifest]
    BY <1>1 DEF BackupOK
  <2>2. backup' = [backup EXCEPT ![b] = y] /\ x.manifest # Missing
    BY <1>7 DEF Rot
  <2> HIDE DEF y
  <2>3. BackupOK(y)
    BY <1>1, <2>1, <2>2 DEF BackupOK
  <2> QED BY <1>1, <2>2, <2>3, DirectoryStep
<1> QED BY <1>2, <1>3, <1>4, <1>5, <1>6, <1>7

(* A verified backup is restored: its file is what the manifest says, so   *)
(* it is not rotten.                                                       *)
LEMMA RestoreBackupStep == ASSUME SqliteInvariant, NEW b \in Directories, RestoreBackup(b) PROVE SqliteInvariant'
<1>1. BackupOK(backup[b]) /\ backup[b].manifest # Missing /\ backup[b].file = backup[b].manifest
      /\ restored' = backup[b].file /\ UNCHANGED <<db, client, backup>>
  BY DEF SqliteInvariant, BackupsOK, RestoreBackup, Verified
<1>2. Ledger(restored')
  BY <1>1 DEF BackupOK
<1>3. RestoredOK'
  BY <1>2, LedgerNotRotten DEF RestoredOK
<1>4. ClientsOK' /\ BackupsOK'
  BY <1>1, ClientsSame DEF SqliteInvariant, BackupsOK
<1> QED BY <1>1, <1>3, <1>4 DEF SqliteInvariant

(* The process dies; committed data and files stay.                        *)
LEMMA ProcessDiesStep == ASSUME SqliteInvariant, ProcessDies PROVE SqliteInvariant'
<1>1. UNCHANGED <<db, restored>> /\ client' = [a \in Callers |-> Resting]
      /\ backup' = [b \in Directories |-> [backup[b] EXCEPT !.running = FALSE]]
  BY DEF ProcessDies
<1>2. ClientsOK'
  BY <1>1 DEF ClientsOK, ClientOK
<1>3. ASSUME NEW b \in Directories PROVE BackupOK(backup'[b])
  <2>1. BackupOK(backup[b]) /\ backup'[b] = [backup[b] EXCEPT !.running = FALSE]
    BY <1>1 DEF SqliteInvariant, BackupsOK
  <2>2. BackupOK([backup[b] EXCEPT !.running = FALSE])
    BY <2>1, OtherFlags, Zenon
  <2> QED BY <2>1, <2>2
<1>4. BackupsOK'
  BY <1>1, <1>3 DEF BackupsOK
<1> QED BY <1>1, <1>2, <1>4 DEF SqliteInvariant, RestoredOK

(* Every step keeps the invariant.                                         *)
LEMMA SqliteKept == SqliteInvariant /\ [SqliteNext]_sqliteVars => SqliteInvariant'
<1> SUFFICES ASSUME SqliteInvariant, [SqliteNext]_sqliteVars PROVE SqliteInvariant'
  OBVIOUS
<1>1. CASE UNCHANGED sqliteVars
  <2>1. UNCHANGED <<db, client, backup, restored>>
    BY <1>1 DEF sqliteVars
  <2>2. ClientsOK'
    BY <2>1, ClientsSame DEF SqliteInvariant
  <2>3. BackupsOK' /\ RestoredOK'
    BY <2>1, RestSame DEF SqliteInvariant
  <2> QED BY <2>1, <2>2, <2>3 DEF SqliteInvariant
<1>2. CASE \E a \in Callers : ReadView(a) \/ ApplyBatch(a) \/ Abandon(a)
  BY <1>2, ReadViewStep, ApplyBatchStep, AbandonStep
<1>3. CASE \E a \in Callers, limit \in Limits : ReadPage(a, limit)
  BY <1>3, ReadPageStep
<1>4. CASE \E a \in Callers, file \in Files, n \in Lines : ResumeImport(a, file, n)
  BY <1>4, ResumeImportStep
<1>5. CASE \E a \in Callers, delete \in BOOLEAN : Amend(a, delete)
  BY <1>5, AmendStep
<1>6. CASE \E b \in Directories : \/ MakeDirectory(b) \/ VacuumInto(b) \/ PublishManifest(b)
                                  \/ BackupDone(b) \/ BackupFails(b) \/ Rot(b)
  BY <1>6, BackupStep
<1>7. CASE \E b \in Directories : RestoreBackup(b)
  BY <1>7, RestoreBackupStep
<1>8. CASE ProcessDies
  BY <1>8, ProcessDiesStep
<1> QED BY <1>1, <1>2, <1>3, <1>4, <1>5, <1>6, <1>7, <1>8 DEF SqliteNext

(* The invariant of the SQLite ledger.                                     *)
THEOREM SqliteHolds == SqliteSpec => []SqliteInvariant
<1> QED BY SqliteInitially, SqliteKept, PTL DEF SqliteSpec

(* Whoever opens the database, a view of it, a published backup or the     *)
(* file one was restored to finds a sound ledger, for any number of        *)
(* callers, files, lines and directories (applyState,                      *)
(* sqlite_ledger_backup.go).                                               *)
THEOREM LedgerAlwaysSound == SqliteSpec => []LedgerSound
<1>1. SqliteInvariant => LedgerSound
  <2> SUFFICES ASSUME SqliteInvariant PROVE LedgerSound
    OBVIOUS
  <2>1. Sound(db)
    BY LedgerIsSound DEF SqliteInvariant
  <2>2. ASSUME NEW a \in Callers, client[a].op = "view" PROVE Sound(client[a].db)
    <3>1. ViewOK(client[a], db)
      BY <2>2, OpTags DEF SqliteInvariant, ClientsOK
    <3> QED BY <3>1, LedgerIsSound DEF ViewOK
  <2>3. ASSUME NEW b \in Directories, backup[b].manifest # Missing PROVE Sound(backup[b].manifest)
    BY <2>3, LedgerIsSound DEF SqliteInvariant, BackupsOK, BackupOK
  <2>4. ASSUME restored # Missing PROVE restored # Rotten /\ Sound(restored)
    BY <2>4, LedgerIsSound DEF SqliteInvariant, RestoredOK
  <2> QED BY <2>1, <2>2, <2>3, <2>4 DEF LedgerSound
<1> QED BY <1>1, SqliteHolds, PTL

(* The pages a view has joined are the records of its generation in order, *)
(* none missing or twice, for every page size and budget (readPage of      *)
(* sqlite_ledger.go).                                                      *)
THEOREM PagesAlwaysComplete == SqliteSpec => []PagesComplete
<1>1. SqliteInvariant => PagesComplete
  <2> SUFFICES ASSUME SqliteInvariant, NEW a \in Callers, client[a].op = "view"
               PROVE  LET rows == Ordered(Matching(client[a].db, client[a].query))
                      IN /\ IsPrefix(client[a].pages, rows)
                         /\ client[a].ended => client[a].pages = rows
    BY DEF PagesComplete
  <2> DEFINE c == client[a]
             all == Matching(c.db, c.query)
  <2>1. ViewOK(c, db)
    BY OpTags DEF SqliteInvariant, ClientsOK
  <2>2. Keyed(all)
    BY <2>1, MatchingKeyed DEF ViewOK
  <2>3. Joined(c.pages, all, c.ended)
    BY <2>1 DEF ViewOK
  <2> HIDE DEF all, c
  <2>4. IsPrefix(c.pages, Ordered(all)) /\ (c.ended => c.pages = Ordered(all))
    BY <2>2, <2>3, JoinedIsPrefix
  <2> QED BY <2>4 DEF all, c
<1> QED BY <1>1, SqliteHolds, PTL
=============================================================================
