---------------------- MODULE AccountingBlocks_proofs ----------------------
(* Proofs about AccountingBlocks: the invariant of the blocks, the frozen  *)
(* headers and the aggregates, and the refinement of FrozenLedger.  The    *)
(* order is bottom up: positions, the effect of each operation on the rows *)
(* of the model and on those behind the frozen headers, the loops of       *)
(* removal and pruning by induction over their rounds, the steps.          *)
EXTENDS AccountingBlocks, Inductions, FiniteSetTheorems, FunctionTheorems,
        SequenceTheorems

-----------------------------------------------------------------------------
(* Positions.  A number in steps of n is ordered by whole steps first.     *)

(* Of two numbers of whole steps of n, the larger is a step further at     *)
(* least.                                                                  *)
LEMMA MoreSteps ==
    ASSUME NEW n \in Nat, NEW a \in Int, NEW b \in Int, a > b
    PROVE  a * n >= b * n + n
<1>1. PICK d \in Nat : a = b + 1 + d
  <2> a - b - 1 \in Nat /\ a = b + 1 + (a - b - 1)
    OBVIOUS
  <2> QED OBVIOUS
<1>2. a * n = b * n + n + d * n
  BY <1>1
<1>3. d * n >= 0 /\ d * n \in Int /\ b * n \in Int
  OBVIOUS
<1> QED BY <1>2, <1>3

(* Of two positions, the smaller has fewer whole steps, or as many and a   *)
(* smaller remainder.                                                      *)
LEMMA StepOrder ==
    ASSUME NEW n \in Nat, NEW p \in Int, NEW q \in Int, NEW s \in 1 .. n, NEW t \in 1 .. n,
           p * n + s < q * n + t
    PROVE  p < q \/ (p = q /\ s < t)
<1>1. p * n \in Int /\ q * n \in Int
  OBVIOUS
<1>2. p > q => p * n >= q * n + n
  BY MoreSteps
<1>3. p = q => p * n = q * n
  OBVIOUS
<1> QED BY ONLY p \in Int, q \in Int, n \in Nat, s \in 1 .. n, t \in 1 .. n,
               p * n + s < q * n + t, <1>1, <1>2, <1>3

(* The position after the last of a step is the first of the next one.     *)
LEMMA StepNext ==
    ASSUME NEW n \in Nat, NEW p \in Int, NEW q \in Int, NEW s \in 1 .. n, NEW t \in 1 .. n,
           p * n + s + 1 = q * n + t
    PROVE  IF s = n THEN q = p + 1 /\ t = 1 ELSE q = p /\ t = s + 1
<1>1. p * n \in Int /\ q * n \in Int /\ (p + 1) * n = p * n + n
  OBVIOUS
<1>2. p > q => p * n >= q * n + n
  BY MoreSteps
<1>3. q > p + 1 => q * n >= (p + 1) * n + n
  BY MoreSteps
<1>4. (q = p => q * n = p * n) /\ (q = p + 1 => q * n = p * n + n)
  BY <1>1
<1> QED BY ONLY p \in Int, q \in Int, n \in Nat, s \in 1 .. n, t \in 1 .. n,
               p * n + s + 1 = q * n + t, <1>1, <1>2, <1>3, <1>4

(* Row numbers are split into block and slot.                              *)
LEMMA PositionType ==
    \A i \in Nat : BlockOf(i) \in Nat \ {0} /\ SlotOf(i) \in 1 .. BlockRecords
BY SizesAssumption DEF BlockOf, SlotOf

(* A row number is the rows of the blocks before its own and its slot.     *)
LEMMA PositionSum ==
    ASSUME NEW i \in Nat
    PROVE  i + 1 = (BlockOf(i) - 1) * BlockRecords + SlotOf(i)
BY SizesAssumption DEF BlockOf, SlotOf

(* A row is in a group.                                                    *)
LEMMA GroupType == \A i \in Nat : GroupOf(i) \in Nat \ {0}
BY SizesAssumption DEF GroupOf

(* Row 0 is in the first slot of the first block.                          *)
LEMMA FirstPosition == BlockOf(0) = 1 /\ SlotOf(0) = 1
BY SizesAssumption DEF BlockOf, SlotOf

(* A later row is in a later block, or further in the same one.            *)
LEMMA PositionOrder ==
    ASSUME NEW i \in Nat, NEW j \in Nat, i < j
    PROVE  BlockOf(i) < BlockOf(j) \/ (BlockOf(i) = BlockOf(j) /\ SlotOf(i) < SlotOf(j))
<1> DEFINE p == BlockOf(i) - 1  q == BlockOf(j) - 1
<1>1. /\ p \in Int /\ q \in Int /\ BlockRecords \in Nat
      /\ SlotOf(i) \in 1 .. BlockRecords /\ SlotOf(j) \in 1 .. BlockRecords
  BY PositionType, SizesAssumption
<1>2. p * BlockRecords + SlotOf(i) < q * BlockRecords + SlotOf(j)
  BY PositionSum
<1> HIDE DEF p, q
<1>3. p < q \/ (p = q /\ SlotOf(i) < SlotOf(j))
  BY <1>1, <1>2, StepOrder
<1> QED BY <1>3, <1>1, PositionType DEF p, q

(* A later row is in no earlier block.                                     *)
LEMMA BlockMonotone ==
    ASSUME NEW i \in Nat, NEW j \in Nat, i <= j
    PROVE  BlockOf(i) <= BlockOf(j)
<1>1. CASE i = j
  BY <1>1, PositionType
<1>2. CASE i < j
  BY <1>2, PositionOrder, PositionType
<1> QED BY <1>1, <1>2

(* Two rows have two places.                                               *)
LEMMA PositionInjective ==
    ASSUME NEW i \in Nat, NEW j \in Nat, i # j
    PROVE  BlockOf(i) # BlockOf(j) \/ SlotOf(i) # SlotOf(j)
<1>1. CASE i < j
  BY <1>1, PositionOrder, PositionType
<1>2. CASE j < i
  BY <1>2, PositionOrder, PositionType
<1> QED BY <1>1, <1>2

(* After the last slot of a block comes the first of the next block.       *)
LEMMA NextPosition ==
    ASSUME NEW i \in Nat
    PROVE  IF SlotOf(i) = BlockRecords
           THEN BlockOf(i + 1) = BlockOf(i) + 1 /\ SlotOf(i + 1) = 1
           ELSE BlockOf(i + 1) = BlockOf(i) /\ SlotOf(i + 1) = SlotOf(i) + 1
<1> DEFINE p == BlockOf(i) - 1  q == BlockOf(i + 1) - 1
<1>1. i + 1 \in Nat /\ p \in Int /\ q \in Int
  BY PositionType
<1>2. p * BlockRecords + SlotOf(i) + 1 = q * BlockRecords + SlotOf(i + 1)
  BY <1>1, PositionSum
<1>3. SlotOf(i) \in 1 .. BlockRecords /\ SlotOf(i + 1) \in 1 .. BlockRecords /\ BlockRecords \in Nat
  BY <1>1, PositionType, SizesAssumption
<1> HIDE DEF p, q
<1>4. IF SlotOf(i) = BlockRecords THEN q = p + 1 /\ SlotOf(i + 1) = 1
      ELSE q = p /\ SlotOf(i + 1) = SlotOf(i) + 1
  BY <1>1, <1>2, <1>3, StepNext
<1> QED BY <1>4, <1>1, PositionType DEF p, q

-----------------------------------------------------------------------------
(* The shape of the structure.                                             *)

Header == [arr : Arrays, len : 1 .. BlockRecords]

Aggregate == [valid : BOOLEAN, end : Nat, rows : Seq(Values)]

Structure ==
    [heap : [Arrays -> Seq(Values \cup {Blank})], blocks : Seq(Header),
     shared : Seq(BOOLEAN), groups : Seq(Aggregate), count : Nat]

(* The headers of n rows: every block but the last is full.                *)
Shaped(headers, n) ==
    /\ headers \in Seq(Header)
    /\ n = 0 => headers = <<>>
    /\ n > 0 => Len(headers) = BlockOf(n - 1) /\ headers[Len(headers)].len = SlotOf(n - 1)
    /\ \A b \in 1 .. Len(headers) - 1 : headers[b].len = BlockRecords

(* Every row of the blocks is in their arrays.                             *)
Filled(L) ==
    \A b \in DOMAIN L.blocks :
        LET row == L.heap[L.blocks[b].arr]
        IN  /\ L.blocks[b].len <= Len(row)
            /\ \A s \in 1 .. L.blocks[b].len : row[s] \in Values

(* The rest of a block that no view may reference is cleared.              *)
TailsBlank(L) ==
    \A b \in DOMAIN L.blocks : ~IsShared(L, b) =>
        LET row == L.heap[L.blocks[b].arr]
        IN  \A s \in L.blocks[b].len + 1 .. Len(row) : row[s] = Blank

(* No two blocks of the model share an array.                              *)
Distinct(L) ==
    \A b, c \in DOMAIN L.blocks : b # c => L.blocks[b].arr # L.blocks[c].arr

(* A block that a view references is marked, and has all rows of the view. *)
Marked(L) ==
    \A w \in Views : \A c \in DOMAIN views[w], b \in DOMAIN L.blocks :
        views[w][c].arr = L.blocks[b].arr
            => IsShared(L, b) /\ views[w][c].len <= L.blocks[b].len

(* The invariant of the structure alone.                                   *)
Safe(L) ==
    /\ L \in Structure /\ L.count <= MaxCount
    /\ Shaped(L.blocks, L.count) /\ Filled(L)
    /\ Len(L.shared) <= Len(L.blocks)
    /\ TailsBlank(L) /\ Distinct(L) /\ Marked(L)

(* What a reader holds are the headers of some number of rows.             *)
ViewsShaped ==
    /\ views \in [Views -> Seq(Header)]
    /\ \A w \in Views : \E n \in 0 .. MaxCount : Shaped(views[w], n)

(* What no step may change: the rows behind the frozen headers.            *)
SameFrozen(L, M) ==
    \A w \in Views : \A c \in DOMAIN views[w] : \A s \in 1 .. views[w][c].len :
        M.heap[views[w][c].arr][s] = L.heap[views[w][c].arr][s]

-----------------------------------------------------------------------------
(* Where a row is.                                                         *)

(* A row of well-formed headers is in a block, below its length.           *)
LEMMA RowPosition ==
    ASSUME NEW headers, NEW n \in Nat, Shaped(headers, n), NEW i \in 0 .. n - 1
    PROVE  /\ BlockOf(i) \in DOMAIN headers
           /\ SlotOf(i) \in 1 .. headers[BlockOf(i)].len
<1>1. /\ i \in Nat /\ n - 1 \in Nat
      /\ BlockOf(i) \in Nat \ {0} /\ SlotOf(i) \in 1 .. BlockRecords
      /\ BlockOf(n - 1) \in Nat \ {0} /\ SlotOf(n - 1) \in 1 .. BlockRecords
      /\ Len(headers) = BlockOf(n - 1) /\ headers[Len(headers)].len = SlotOf(n - 1)
  <2>1. i \in Nat /\ n - 1 \in Nat /\ n > 0
    OBVIOUS
  <2> QED BY <2>1, PositionType DEF Shaped
<1>2. DOMAIN headers = 1 .. Len(headers) /\ Len(headers) \in Nat
  BY DEF Shaped
<1>3. CASE i = n - 1
  BY <1>1, <1>2, <1>3
<1>4. CASE i < n - 1
  <2>1. BlockOf(i) < BlockOf(n - 1) \/ (BlockOf(i) = BlockOf(n - 1) /\ SlotOf(i) < SlotOf(n - 1))
    BY <1>1, <1>4, PositionOrder
  <2>2. CASE BlockOf(i) < BlockOf(n - 1)
    <3>1. BlockOf(i) \in 1 .. Len(headers) - 1
      BY <1>1, <1>2, <2>2
    <3>2. headers[BlockOf(i)].len = BlockRecords
      BY <3>1 DEF Shaped
    <3> QED BY <1>1, <1>2, <3>1, <3>2
  <2> QED BY <1>1, <1>2, <2>1, <2>2
<1> QED BY <1>3, <1>4

(* The first n rows behind headers.                                        *)
RowsAt(heap, headers, n) ==
    [i \in 1 .. n |-> heap[headers[BlockOf(i - 1)].arr][SlotOf(i - 1)]]

(* The rows of well-formed headers are n, each at its place.               *)
LEMMA RowsOfShaped ==
    ASSUME NEW heap, NEW headers, NEW n \in Nat, Shaped(headers, n)
    PROVE  Rows(heap, headers) = RowsAt(heap, headers, n)
<1>1. CASE n = 0
  BY <1>1 DEF Rows, RowsAt, Shaped
<1>2. CASE n > 0
  <2>1. n = (Len(headers) - 1) * BlockRecords + headers[Len(headers)].len
    <3>1. n - 1 \in Nat /\ (n - 1) + 1 = n
      BY <1>2
    <3>2. n = (BlockOf(n - 1) - 1) * BlockRecords + SlotOf(n - 1)
      BY <3>1, PositionSum
    <3> QED BY <1>2, <3>2 DEF Shaped
  <2>2. Len(headers) # 0
    <3>1. n - 1 \in Nat
      BY <1>2
    <3> QED BY <1>2, <3>1, PositionType DEF Shaped
  <2> QED BY <2>1, <2>2 DEF Rows, RowsAt
<1> QED BY <1>1, <1>2

-----------------------------------------------------------------------------
(* There is always an array to move to.                                    *)

(* The image of a finite set has no more members.                          *)
LEMMA ImageBound ==
    ASSUME NEW S, IsFiniteSet(S), NEW T, NEW f \in [S -> T]
    PROVE  /\ IsFiniteSet({f[x] : x \in S})
           /\ Cardinality({f[x] : x \in S}) <= Cardinality(S)
<1>1. f \in Surjection(S, {f[x] : x \in S})
  BY DEF Surjection
<1> QED BY <1>1, FS_Surjection

(* What a header of a sequence of headers is.                              *)
LEMMA HeaderType ==
    ASSUME NEW headers \in Seq(Header), NEW b \in DOMAIN headers
    PROVE  headers[b] \in Header /\ headers[b].arr \in Arrays /\ headers[b].len \in 1 .. BlockRecords
<1>1. headers[b] \in Header
  OBVIOUS
<1> QED BY <1>1 DEF Header

(* An array that neither the model nor a view points to exists, as many    *)
(* rows and views as there may be.                                         *)
LEMMA UnusedExists ==
    ASSUME NEW L, Safe(L), ViewsShaped, MaxCount > 0
    PROVE  Unused(L) \in Arrays /\ Unused(L) \notin Reached(L.blocks) \cup Held
<1> DEFINE m == BlockOf(MaxCount - 1)
<1>1. m \in Nat
  BY PositionType, SizesAssumption
<1>2. ASSUME NEW headers, NEW n \in 0 .. MaxCount, Shaped(headers, n)
      PROVE  DOMAIN headers \subseteq 1 .. m
  <2>1. CASE n = 0
    BY <1>2, <2>1 DEF Shaped
  <2>2. CASE n > 0
    <3>1. n - 1 \in Nat /\ MaxCount - 1 \in Nat /\ n - 1 <= MaxCount - 1
      BY <2>2, SizesAssumption
    <3>2. BlockOf(n - 1) <= m
      BY <3>1, BlockMonotone DEF m
    <3> QED BY <1>2, <2>2, <3>2, <1>1 DEF Shaped
  <2> QED BY <2>1, <2>2
<1> HIDE DEF m
<1>3. IsFiniteSet(1 .. m) /\ Cardinality(1 .. m) = m
  BY <1>1, FS_Interval
<1>4. IsFiniteSet(Reached(L.blocks)) /\ Cardinality(Reached(L.blocks)) <= m
  <2>1. DOMAIN L.blocks \subseteq 1 .. m
    BY <1>2, SizesAssumption DEF Safe, Structure
  <2>2. IsFiniteSet(DOMAIN L.blocks) /\ Cardinality(DOMAIN L.blocks) <= m
    BY <1>3, <2>1, FS_Subset
  <2>3. [b \in DOMAIN L.blocks |-> L.blocks[b].arr] \in [DOMAIN L.blocks -> Arrays]
    <3>1. L.blocks \in Seq(Header)
      BY DEF Safe, Structure
    <3> QED BY <3>1, HeaderType
  <2> DEFINE f == [b \in DOMAIN L.blocks |-> L.blocks[b].arr]
  <2>4. Reached(L.blocks) = {f[b] : b \in DOMAIN L.blocks}
    BY DEF Reached
  <2> HIDE DEF f
  <2>5. IsFiniteSet({f[b] : b \in DOMAIN L.blocks})
        /\ Cardinality({f[b] : b \in DOMAIN L.blocks}) <= Cardinality(DOMAIN L.blocks)
    BY <2>2, <2>3, ImageBound DEF f
  <2> QED BY <1>1, <2>2, <2>4, <2>5, FS_CardinalityType
<1>5. IsFiniteSet(Held) /\ Cardinality(Held) <= Cardinality(Views) * m
  <2> DEFINE D == {p \in Views \X (1 .. m) : p[2] \in DOMAIN views[p[1]]}
             f == [p \in D |-> views[p[1]][p[2]].arr]
  <2>1. IsFiniteSet(Views \X (1 .. m)) /\ Cardinality(Views \X (1 .. m)) = Cardinality(Views) * m
    BY <1>3, ArraysAssumption, FS_Product
  <2>2. IsFiniteSet(D) /\ Cardinality(D) <= Cardinality(Views) * m
    BY <2>1, FS_Subset
  <2>3. f \in [D -> Arrays]
    <3>1. \A p \in D : p[1] \in Views /\ views[p[1]] \in Seq(Header) /\ p[2] \in DOMAIN views[p[1]]
      BY DEF ViewsShaped
    <3>2. \A p \in D : views[p[1]][p[2]].arr \in Arrays
      BY <3>1, HeaderType
    <3> QED BY <3>2
  <2>4. Held = {f[p] : p \in D}
    <3>1. ASSUME NEW w \in Views, NEW c \in DOMAIN views[w]
          PROVE  <<w, c>> \in D /\ f[<<w, c>>] = views[w][c].arr
      BY <1>2 DEF ViewsShaped
    <3>2. Held \subseteq {f[p] : p \in D}
      <4> SUFFICES ASSUME NEW a \in Held PROVE a \in {f[p] : p \in D}
        OBVIOUS
      <4>1. PICK w \in Views : a \in Reached(views[w])
        BY DEF Held
      <4>2. PICK c \in DOMAIN views[w] : a = views[w][c].arr
        BY <4>1 DEF Reached
      <4> HIDE DEF D, f
      <4> QED BY <3>1, <4>2
    <3>3. {f[p] : p \in D} \subseteq Held
      BY DEF Held, Reached
    <3> QED BY <3>2, <3>3
  <2> HIDE DEF D, f
  <2>5. IsFiniteSet({f[p] : p \in D}) /\ Cardinality({f[p] : p \in D}) <= Cardinality(D)
    BY <2>2, <2>3, ImageBound
  <2>6. Cardinality(Views) * m \in Nat
    BY <1>1, ArraysAssumption, FS_CardinalityType
  <2> QED BY <2>2, <2>4, <2>5, <2>6, FS_CardinalityType
<1> DEFINE used == Reached(L.blocks) \cup Held
<1>6. IsFiniteSet(used) /\ Cardinality(used) <= (Cardinality(Views) + 1) * m
  <2>1. /\ IsFiniteSet(used)
        /\ Cardinality(used) = Cardinality(Reached(L.blocks)) + Cardinality(Held)
                                - Cardinality(Reached(L.blocks) \cap Held)
    BY <1>4, <1>5, FS_Union
  <2>2. IsFiniteSet(Reached(L.blocks) \cap Held)
    BY <1>4, FS_Subset
  <2>3. /\ Cardinality(Reached(L.blocks) \cap Held) \in Nat /\ Cardinality(Views) \in Nat
        /\ Cardinality(Reached(L.blocks)) \in Nat /\ Cardinality(Held) \in Nat
    BY <1>4, <1>5, <2>2, ArraysAssumption, FS_CardinalityType
  <2>4. (Cardinality(Views) + 1) * m = Cardinality(Views) * m + m
    BY <1>1, <2>3
  <2>5. Cardinality(Views) * m \in Nat
    BY <1>1, <2>3
  <2> QED BY <1>1, <1>4, <1>5, <2>1, <2>3, <2>4, <2>5
<1>7. \E a \in Arrays : a \notin used
  <2> SUFFICES ASSUME Arrays \subseteq used PROVE FALSE
    OBVIOUS
  <2> HIDE DEF used
  <2>1. IsFiniteSet(Arrays) /\ Cardinality(Arrays) <= Cardinality(used)
    BY <1>6, FS_Subset
  <2>2. Cardinality(Arrays) > (Cardinality(Views) + 1) * m
    BY <2>1, ArraysAssumption DEF m
  <2>3. Cardinality(Arrays) \in Nat /\ Cardinality(used) \in Nat
    BY <1>6, <2>1, FS_CardinalityType
  <2>4. (Cardinality(Views) + 1) * m \in Nat
    BY <1>1, ArraysAssumption, FS_CardinalityType
  <2> QED BY <1>6, <2>1, <2>2, <2>3, <2>4
<1> QED BY <1>7 DEF Unused

-----------------------------------------------------------------------------
(* The first write to a block after a view was frozen copies it.           *)

(* Safe does not read the aggregates.                                      *)
LEMMA SafeFields ==
    ASSUME NEW L, Safe(L), NEW M \in Structure, M.heap = L.heap, M.blocks = L.blocks,
           M.shared = L.shared, M.count = L.count
    PROVE  Safe(M)
BY DEF Safe, Filled, TailsBlank, Distinct, Marked, IsShared

(* Invalidating a group changes that aggregate only.                       *)
LEMMA InvalidateFields ==
    ASSUME NEW L \in Structure, NEW g
    PROVE  LET M == Invalidate(L, g)
           IN  /\ M \in Structure /\ M.heap = L.heap /\ M.blocks = L.blocks
               /\ M.shared = L.shared /\ M.count = L.count
               /\ DOMAIN M.groups = DOMAIN L.groups
               /\ \A h \in DOMAIN L.groups :
                    M.groups[h] = IF h = g THEN NoAggregate ELSE L.groups[h]
<1>1. NoAggregate \in Aggregate
  BY DEF NoAggregate, Aggregate
<1>2. L.groups \in Seq(Aggregate)
  BY DEF Structure
<1>3. CASE g \in DOMAIN L.groups
  <2> DEFINE groups == [L.groups EXCEPT ![g] = NoAggregate]
  <2>1. groups \in Seq(Aggregate)
    BY <1>1, <1>2, <1>3
  <2>2. /\ DOMAIN groups = DOMAIN L.groups
        /\ \A h \in DOMAIN L.groups : groups[h] = IF h = g THEN NoAggregate ELSE L.groups[h]
    BY <1>2
  <2>3. Invalidate(L, g) = [L EXCEPT !.groups = groups]
    BY <1>3 DEF Invalidate, Structure
  <2> HIDE DEF groups
  <2> QED BY <2>1, <2>2, <2>3 DEF Structure
<1>4. CASE g \notin DOMAIN L.groups
  BY <1>4 DEF Invalidate
<1> QED BY <1>3, <1>4

(* What writing to block b may touch.                                      *)
Copied(L, W, b) ==
    /\ W.count = L.count /\ W.groups = L.groups
    /\ Len(W.blocks) = Len(L.blocks) /\ Len(W.shared) = Len(L.shared)
    /\ \A c \in DOMAIN L.blocks :
         /\ W.blocks[c].len = L.blocks[c].len
         /\ c # b => W.blocks[c].arr = L.blocks[c].arr
         /\ \A s \in 1 .. L.blocks[c].len :
              W.heap[W.blocks[c].arr][s] = L.heap[L.blocks[c].arr][s]
    /\ \A c : c # b => (IsShared(W, c) <=> IsShared(L, c))
    /\ \A a \in Reached(L.blocks) \cup Held : W.heap[a] = L.heap[a]
    /\ ~IsShared(L, b) => W.blocks[b].arr = L.blocks[b].arr /\ W.heap = L.heap
    /\ IsShared(L, b) => W.blocks[b].arr \notin Reached(L.blocks) \cup Held
    /\ ~IsShared(W, b)

(* A sequence with one entry replaced.                                     *)
LEMMA ExceptEntry ==
    ASSUME NEW S, NEW f \in Seq(S), NEW i \in DOMAIN f, NEW e \in S
    PROVE  LET g == [f EXCEPT ![i] = e]
           IN  /\ g \in Seq(S) /\ Len(g) = Len(f)
               /\ g[i] = e /\ \A j \in DOMAIN f : j # i => g[j] = f[j]
OBVIOUS

(* Copying a shared block: the header gets a private array with the same   *)
(* rows.                                                                   *)
LEMMA WritableFields ==
    ASSUME NEW L, Safe(L), ViewsShaped, NEW b \in DOMAIN L.blocks, IsShared(L, b)
    PROVE  LET W    == Writable(L, b)
               a    == Unused(L)
               old  == L.heap[L.blocks[b].arr]
           IN  /\ W \in Structure /\ W.count = L.count /\ W.groups = L.groups
               /\ a \in Arrays /\ a \notin Reached(L.blocks) \cup Held
               /\ Len(W.blocks) = Len(L.blocks)
               /\ \A c \in DOMAIN L.blocks :
                    W.blocks[c] = IF c = b THEN [arr |-> a, len |-> L.blocks[b].len] ELSE L.blocks[c]
               /\ Len(W.shared) = Len(L.shared)
               /\ W.shared[b] = FALSE /\ \A c \in DOMAIN L.shared : c # b => W.shared[c] = L.shared[c]
               /\ \A x \in Arrays : x # a => W.heap[x] = L.heap[x]
               /\ Len(W.heap[a]) = Len(old)
               /\ \A s \in 1 .. Len(old) :
                    W.heap[a][s] = IF s <= L.blocks[b].len THEN old[s] ELSE Blank
<1> DEFINE a == Unused(L)
           old == L.heap[L.blocks[b].arr]
           copy == [i \in DOMAIN old |-> IF i <= L.blocks[b].len THEN old[i] ELSE Blank]
           heap == [L.heap EXCEPT ![a] = copy]
           blocks == [L.blocks EXCEPT ![b].arr = a]
           shared == [L.shared EXCEPT ![b] = FALSE]
<1>1. a \in Arrays /\ a \notin Reached(L.blocks) \cup Held
  <2>1. L.count # 0
    BY DEF Safe, Shaped
  <2>2. MaxCount > 0
    BY <2>1, SizesAssumption DEF Safe, Structure
  <2> QED BY <2>2, UnusedExists
<1>2. /\ L.heap \in [Arrays -> Seq(Values \cup {Blank})] /\ L.blocks \in Seq(Header)
      /\ L.shared \in Seq(BOOLEAN)
  BY DEF Safe, Structure
<1>3. L.blocks[b] \in Header /\ L.blocks[b].arr \in Arrays
  BY <1>2, HeaderType
<1>4. old \in Seq(Values \cup {Blank}) /\ DOMAIN old = 1 .. Len(old)
  BY <1>2, <1>3
<1> HIDE DEF old
<1>5. copy \in Seq(Values \cup {Blank}) /\ Len(copy) = Len(old)
      /\ \A s \in 1 .. Len(old) : copy[s] = IF s <= L.blocks[b].len THEN old[s] ELSE Blank
  BY <1>4
<1>6. Writable(L, b) = [L EXCEPT !.heap = heap, !.blocks = blocks, !.shared = shared]
  BY DEF Writable, old, Safe, Structure
<1> HIDE DEF a, copy
<1>7. heap \in [Arrays -> Seq(Values \cup {Blank})] /\ heap[a] = copy
      /\ \A x \in Arrays : x # a => heap[x] = L.heap[x]
  BY <1>1, <1>2, <1>5
<1>8. blocks \in Seq(Header) /\ Len(blocks) = Len(L.blocks)
      /\ \A c \in DOMAIN L.blocks :
           blocks[c] = IF c = b THEN [arr |-> a, len |-> L.blocks[b].len] ELSE L.blocks[c]
  <2>1. [L.blocks[b] EXCEPT !.arr = a] = [arr |-> a, len |-> L.blocks[b].len]
        /\ [L.blocks[b] EXCEPT !.arr = a] \in Header
    BY <1>1, <1>3 DEF Header
  <2>2. blocks = [L.blocks EXCEPT ![b] = [arr |-> a, len |-> L.blocks[b].len]]
    BY <1>2, <2>1
  <2> QED BY <1>2, <2>1, <2>2
<1>9. shared \in Seq(BOOLEAN) /\ Len(shared) = Len(L.shared)
      /\ shared[b] = FALSE /\ \A c \in DOMAIN L.shared : c # b => shared[c] = L.shared[c]
  <2>1. b \in DOMAIN L.shared /\ DOMAIN L.shared = 1 .. Len(L.shared)
    BY <1>2 DEF IsShared
  <2>2. b \in 1 .. Len(L.shared) /\ FALSE \in BOOLEAN
    BY <2>1
  <2> QED BY <1>2, <2>1, <2>2, ExceptEntry
<1> HIDE DEF heap, blocks, shared
<1>10. Writable(L, b) \in Structure /\ Writable(L, b).heap = heap
       /\ Writable(L, b).blocks = blocks /\ Writable(L, b).shared = shared
       /\ Writable(L, b).count = L.count /\ Writable(L, b).groups = L.groups
  BY <1>6, <1>7, <1>8, <1>9 DEF Safe, Structure
<1> QED BY <1>1, <1>5, <1>7, <1>8, <1>9, <1>10 DEF a, old

(* A writable block keeps the invariant, its rows and every frozen view.   *)
LEMMA WritableCopied ==
    ASSUME NEW L, Safe(L), ViewsShaped, NEW b \in DOMAIN L.blocks
    PROVE  Safe(Writable(L, b)) /\ Copied(L, Writable(L, b), b)
<1> DEFINE W == Writable(L, b)
<1>1. CASE ~IsShared(L, b)
  <2>1. W = L
    BY <1>1 DEF Writable
  <2> QED BY <1>1, <2>1 DEF Copied
<1>2. CASE IsShared(L, b)
  <2> DEFINE a == Unused(L)
             old == L.heap[L.blocks[b].arr]
  <2>1. /\ W \in Structure /\ W.count = L.count /\ W.groups = L.groups
        /\ a \in Arrays /\ a \notin Reached(L.blocks) \cup Held
        /\ Len(W.blocks) = Len(L.blocks)
        /\ \A c \in DOMAIN L.blocks :
             W.blocks[c] = IF c = b THEN [arr |-> a, len |-> L.blocks[b].len] ELSE L.blocks[c]
        /\ Len(W.shared) = Len(L.shared)
        /\ W.shared[b] = FALSE /\ \A c \in DOMAIN L.shared : c # b => W.shared[c] = L.shared[c]
        /\ \A x \in Arrays : x # a => W.heap[x] = L.heap[x]
        /\ Len(W.heap[a]) = Len(old)
        /\ \A s \in 1 .. Len(old) :
             W.heap[a][s] = IF s <= L.blocks[b].len THEN old[s] ELSE Blank
    BY <1>2, WritableFields
  <2> HIDE DEF W, a
  <2>2. /\ DOMAIN W.blocks = DOMAIN L.blocks /\ DOMAIN W.shared = DOMAIN L.shared
        /\ L.blocks \in Seq(Header) /\ W.blocks \in Seq(Header)
    BY <2>1 DEF Safe, Structure
  <2>3. \A c \in DOMAIN L.blocks :
          /\ L.blocks[c].arr \in Arrays /\ L.blocks[c].arr \in Reached(L.blocks)
          /\ L.blocks[c].len \in 1 .. BlockRecords /\ L.blocks[c].arr # a
          /\ L.blocks[c].len <= Len(L.heap[L.blocks[c].arr])
          /\ Len(L.heap[L.blocks[c].arr]) \in Nat
    <3>1. \A c \in DOMAIN L.blocks : L.blocks[c].arr \in Arrays /\ L.blocks[c].len \in 1 .. BlockRecords
      BY <2>2, HeaderType
    <3>2. \A c \in DOMAIN L.blocks : L.blocks[c].arr \in Reached(L.blocks)
      BY DEF Reached
    <3>3. L.heap \in [Arrays -> Seq(Values \cup {Blank})]
      BY DEF Safe, Structure
    <3> QED BY <2>1, <3>1, <3>2, <3>3 DEF Safe, Filled
  <2>4. \A c \in DOMAIN L.blocks :
          /\ W.blocks[c].len = L.blocks[c].len
          /\ W.blocks[c].arr = IF c = b THEN a ELSE L.blocks[c].arr
    BY <2>1
  <2>5. \A c : IsShared(W, c) <=> (c # b /\ IsShared(L, c))
    BY <2>1, <2>2 DEF IsShared
  <2>6. \A x \in Reached(L.blocks) \cup Held : W.heap[x] = L.heap[x]
    <3>1. \A x \in Reached(L.blocks) : x \in Arrays
      BY <2>3 DEF Reached
    <3>2. \A x \in Held : x \in Arrays
      <4>1. \A w \in Views : \A c \in DOMAIN views[w] : views[w][c].arr \in Arrays
        BY HeaderType DEF ViewsShaped
      <4> QED BY <4>1 DEF Held, Reached
    <3> QED BY <2>1, <3>1, <3>2
  <2>7. \A c \in DOMAIN L.blocks : \A s \in 1 .. L.blocks[c].len :
          W.heap[W.blocks[c].arr][s] = L.heap[L.blocks[c].arr][s]
    <3> SUFFICES ASSUME NEW c \in DOMAIN L.blocks, NEW s \in 1 .. L.blocks[c].len
                 PROVE  W.heap[W.blocks[c].arr][s] = L.heap[L.blocks[c].arr][s]
      OBVIOUS
    <3>1. CASE c = b
      <4>1. s \in 1 .. Len(old) /\ s <= L.blocks[b].len
        BY <2>3, <3>1
      <4> QED BY <2>1, <2>4, <3>1, <4>1
    <3>2. CASE c # b
      BY <2>3, <2>4, <2>6, <3>2
    <3> QED BY <3>1, <3>2
  <2>8. Copied(L, W, b)
    BY <1>2, <2>1, <2>4, <2>5, <2>6, <2>7 DEF Copied
  <2>9. Shaped(W.blocks, W.count)
    BY <2>1, <2>2, <2>4 DEF Safe, Shaped
  <2>10. Filled(W)
    <3> SUFFICES ASSUME NEW c \in DOMAIN W.blocks
                 PROVE  /\ W.blocks[c].len <= Len(W.heap[W.blocks[c].arr])
                        /\ \A s \in 1 .. W.blocks[c].len : W.heap[W.blocks[c].arr][s] \in Values
      BY DEF Filled
    <3>1. W.blocks[c].len <= Len(W.heap[W.blocks[c].arr])
      <4>1. CASE c = b
        BY <2>1, <2>3, <2>4, <4>1
      <4>2. CASE c # b
        BY <2>2, <2>3, <2>4, <2>6, <4>2
      <4> QED BY <4>1, <4>2
    <3>2. ASSUME NEW s \in 1 .. W.blocks[c].len PROVE W.heap[W.blocks[c].arr][s] \in Values
      <4>1. c \in DOMAIN L.blocks /\ s \in 1 .. L.blocks[c].len
        BY <2>2, <2>4
      <4>2. W.heap[W.blocks[c].arr][s] = L.heap[L.blocks[c].arr][s]
        BY <2>7, <4>1
      <4>3. L.heap[L.blocks[c].arr][s] \in Values
        BY <4>1 DEF Safe, Filled
      <4> QED BY <4>2, <4>3
    <3> QED BY <3>1, <3>2
  <2>11. TailsBlank(W)
    <3> SUFFICES ASSUME NEW c \in DOMAIN W.blocks, ~IsShared(W, c),
                        NEW s \in W.blocks[c].len + 1 .. Len(W.heap[W.blocks[c].arr])
                 PROVE  W.heap[W.blocks[c].arr][s] = Blank
      BY DEF TailsBlank
    <3>1. CASE c = b
      <4>1. W.blocks[c].arr = a /\ s \in 1 .. Len(old) /\ ~(s <= L.blocks[b].len)
        BY <2>1, <2>2, <2>3, <2>4, <3>1
      <4> QED BY <2>1, <4>1
    <3>2. CASE c # b
      <4>1. ~IsShared(L, c) /\ W.heap[W.blocks[c].arr] = L.heap[L.blocks[c].arr]
            /\ W.blocks[c].len = L.blocks[c].len
        BY <2>2, <2>3, <2>4, <2>5, <2>6, <3>2
      <4> QED BY <2>2, <4>1 DEF Safe, TailsBlank
    <3> QED BY <3>1, <3>2
  <2>12. Distinct(W)
    BY <2>2, <2>3, <2>4 DEF Safe, Distinct
  <2>13. Marked(W)
    <3> SUFFICES ASSUME NEW w \in Views, NEW c \in DOMAIN views[w], NEW d \in DOMAIN W.blocks,
                        views[w][c].arr = W.blocks[d].arr
                 PROVE  IsShared(W, d) /\ views[w][c].len <= W.blocks[d].len
      BY DEF Marked
    <3>1. views[w][c].arr \in Held
      BY DEF Held, Reached
    <3>2. d # b
      BY <2>1, <2>2, <2>4, <3>1
    <3> QED BY <2>2, <2>4, <2>5, <3>2 DEF Safe, Marked
  <2>14. Len(W.shared) <= Len(W.blocks) /\ W.count <= MaxCount
    BY <2>1 DEF Safe
  <2> QED BY <2>1, <2>8, <2>9, <2>10, <2>11, <2>12, <2>13, <2>14 DEF Safe, W
<1> QED BY <1>1, <1>2

-----------------------------------------------------------------------------
(* Writing a row: it changes, and nothing else that anyone can see.        *)

Wrote(L, M, i, v) ==
    /\ M.count = L.count /\ M.groups = L.groups
    /\ M.blocks = L.blocks /\ M.shared = L.shared
    /\ \A k \in 0 .. L.count - 1 : At(M, k) = IF k = i THEN v ELSE At(L, k)
    /\ \A a \in Arrays : a # L.blocks[BlockOf(i)].arr => M.heap[a] = L.heap[a]
    /\ \A s : s # SlotOf(i) =>
         M.heap[L.blocks[BlockOf(i)].arr][s] = L.heap[L.blocks[BlockOf(i)].arr][s]

(* A row of a private block can be written in place: no view reads that    *)
(* array.                                                                  *)
LEMMA WritePrivate ==
    ASSUME NEW L, Safe(L), ViewsShaped, NEW i \in 0 .. L.count - 1, NEW v \in Values,
           ~IsShared(L, BlockOf(i))
    PROVE  LET M == [L EXCEPT !.heap[L.blocks[BlockOf(i)].arr][SlotOf(i)] = v]
           IN  Safe(M) /\ Wrote(L, M, i, v) /\ SameFrozen(L, M)
<1> DEFINE b == BlockOf(i)
           a == L.blocks[b].arr
           row == [L.heap[a] EXCEPT ![SlotOf(i)] = v]
           M == [L EXCEPT !.heap[a][SlotOf(i)] = v]
<1>1. /\ L.heap \in [Arrays -> Seq(Values \cup {Blank})] /\ L.blocks \in Seq(Header)
      /\ L.count \in Nat /\ i \in Nat
  BY DEF Safe, Structure
<1>2. b \in DOMAIN L.blocks /\ SlotOf(i) \in 1 .. L.blocks[b].len
  BY <1>1, RowPosition DEF Safe
<1>3. a \in Arrays /\ L.blocks[b].len \in 1 .. BlockRecords
  BY <1>1, <1>2, HeaderType
<1>4. L.heap[a] \in Seq(Values \cup {Blank}) /\ SlotOf(i) \in DOMAIN L.heap[a]
  BY <1>1, <1>2, <1>3 DEF Safe, Filled
<1>5. /\ row \in Seq(Values \cup {Blank}) /\ Len(row) = Len(L.heap[a])
      /\ row[SlotOf(i)] = v
      /\ \A s : s # SlotOf(i) => row[s] = L.heap[a][s]
  <2>1. row \in Seq(Values \cup {Blank}) /\ Len(row) = Len(L.heap[a]) /\ row[SlotOf(i)] = v
    BY <1>4, ExceptEntry
  <2>2. \A s : s # SlotOf(i) => row[s] = L.heap[a][s]
    BY <1>4
  <2> QED BY <2>1, <2>2
<1>6. /\ M \in Structure /\ M.blocks = L.blocks /\ M.shared = L.shared
      /\ M.groups = L.groups /\ M.count = L.count
      /\ M.heap[a] = row /\ \A x \in Arrays : x # a => M.heap[x] = L.heap[x]
  <2>1. M = [L EXCEPT !.heap = [L.heap EXCEPT ![a] = row]]
    BY <1>1, <1>3 DEF Safe, Structure
  <2>2. L.heap \in [Arrays -> Seq(Values \cup {Blank})]
    BY DEF Safe, Structure
  <2>3. row \in Seq(Values \cup {Blank}) /\ a \in Arrays
    BY <1>3, <1>5
  <2> HIDE DEF row, a
  <2>4. PICK heap : heap = [L.heap EXCEPT ![a] = row]
    OBVIOUS
  <2>5. heap \in [Arrays -> Seq(Values \cup {Blank})] /\ heap[a] = row
        /\ \A x \in Arrays : x # a => heap[x] = L.heap[x]
    BY <2>2, <2>3, <2>4
  <2>6. M = [L EXCEPT !.heap = heap]
    BY <2>1, <2>4
  <2>7. L \in Structure
    BY DEF Safe
  <2>8. M \in Structure /\ M.blocks = L.blocks /\ M.shared = L.shared
        /\ M.groups = L.groups /\ M.count = L.count /\ M.heap = heap
    BY <2>5, <2>6, <2>7 DEF Structure
  <2> QED BY <2>5, <2>8
<1> HIDE DEF M, row, a, b
<1>7. \A c \in DOMAIN L.blocks : c # b => L.blocks[c].arr # a /\ M.heap[L.blocks[c].arr] = L.heap[L.blocks[c].arr]
  <2>1. \A c \in DOMAIN L.blocks : L.blocks[c].arr \in Arrays
    BY <1>1, HeaderType
  <2> QED BY <1>2, <1>6, <2>1 DEF Safe, Distinct, a
<1>8. \A c, s : IsShared(M, c) <=> IsShared(L, c)
  BY <1>6 DEF IsShared
<1>9. Filled(M)
  <2> SUFFICES ASSUME NEW c \in DOMAIN L.blocks
               PROVE  /\ L.blocks[c].len <= Len(M.heap[L.blocks[c].arr])
                      /\ \A s \in 1 .. L.blocks[c].len : M.heap[L.blocks[c].arr][s] \in Values
    BY <1>6 DEF Filled
  <2>1. CASE c = b
    BY <1>5, <1>6, <2>1 DEF Safe, Filled, a
  <2>2. CASE c # b
    BY <1>7, <2>2 DEF Safe, Filled
  <2> QED BY <2>1, <2>2
<1>10. TailsBlank(M)
  <2> SUFFICES ASSUME NEW c \in DOMAIN L.blocks, ~IsShared(L, c),
                      NEW s \in L.blocks[c].len + 1 .. Len(M.heap[L.blocks[c].arr])
               PROVE  M.heap[L.blocks[c].arr][s] = Blank
    BY <1>6, <1>8 DEF TailsBlank
  <2>1. CASE c = b
    <3>1. s # SlotOf(i) /\ s \in L.blocks[c].len + 1 .. Len(L.heap[a])
      BY <1>2, <1>3, <1>5, <1>6, <2>1 DEF a
    <3> QED BY <1>5, <1>6, <2>1, <3>1 DEF Safe, TailsBlank, a
  <2>2. CASE c # b
    BY <1>7, <2>2 DEF Safe, TailsBlank
  <2> QED BY <2>1, <2>2
<1>11. Marked(M)
  BY <1>6, <1>8 DEF Safe, Marked
<1>12. Safe(M)
  BY <1>6, <1>9, <1>10, <1>11 DEF Safe, Distinct
<1>13. SameFrozen(L, M)
  <2> SUFFICES ASSUME NEW w \in Views, NEW c \in DOMAIN views[w]
               PROVE  M.heap[views[w][c].arr] = L.heap[views[w][c].arr]
    BY DEF SameFrozen
  <2>1. views[w][c].arr \in Arrays
    BY HeaderType DEF ViewsShaped
  <2>2. views[w][c].arr # a
    BY <1>2 DEF Safe, Marked, a, b
  <2> QED BY <1>6, <2>1, <2>2
<1>14. ASSUME NEW k \in 0 .. L.count - 1
       PROVE  At(M, k) = IF k = i THEN v ELSE At(L, k)
  <2>1. k \in Nat /\ BlockOf(k) \in DOMAIN L.blocks
    BY <1>1, RowPosition DEF Safe
  <2>2. At(M, k) = M.heap[L.blocks[BlockOf(k)].arr][SlotOf(k)]
    BY <1>6 DEF At
  <2>3. CASE BlockOf(k) = b
    <3>1. At(M, k) = row[SlotOf(k)]
      BY <1>6, <2>2, <2>3 DEF a
    <3>2. k # i => SlotOf(k) # SlotOf(i)
      BY <1>1, <2>1, <2>3, PositionInjective DEF b
    <3> QED BY <1>5, <2>3, <3>1, <3>2 DEF At, a
  <2>4. CASE BlockOf(k) # b
    BY <1>7, <2>1, <2>2, <2>4 DEF At, b
  <2> QED BY <2>3, <2>4
<1>15. Wrote(L, M, i, v)
  BY <1>5, <1>6, <1>14 DEF Wrote, a, b
<1> QED BY <1>12, <1>13, <1>15 DEF M, a, b

(* What Put does to the rows and the aggregates.                           *)
Rewrote(L, M, i, v) ==
    /\ M.count = L.count
    /\ DOMAIN M.groups = DOMAIN L.groups
    /\ \A h \in DOMAIN L.groups :
         M.groups[h] = IF h = GroupOf(i) THEN NoAggregate ELSE L.groups[h]
    /\ \A k \in 0 .. L.count - 1 : At(M, k) = IF k = i THEN v ELSE At(L, k)
    /\ SameFrozen(L, M)

(* And what a loop that reads through older headers may rely on.           *)
Moved(L, M, i) ==
    LET b == BlockOf(i)
        a == L.blocks[b].arr
    IN  /\ \A c \in DOMAIN L.blocks : c # b => M.blocks[c].arr = L.blocks[c].arr
        /\ \A c : c # b => (IsShared(M, c) <=> IsShared(L, c))
        /\ ~IsShared(M, b)
        /\ \A x \in Arrays : x # a /\ (x \in Reached(L.blocks) \/ ~IsShared(L, b))
                                => M.heap[x] = L.heap[x]
        /\ ~IsShared(L, b) => /\ M.blocks[b].arr = a
                              /\ \A s : s # SlotOf(i) => M.heap[a][s] = L.heap[a][s]
        /\ IsShared(L, b) => M.heap[a] = L.heap[a] /\ M.blocks[b].arr # a

(* Writing a row through mutableAt (accounting_blocks.go) keeps the        *)
(* invariant, rewrites that row of the model and no row of a view.         *)
LEMMA PutEffect ==
    ASSUME NEW L, Safe(L), ViewsShaped, NEW i \in 0 .. L.count - 1, NEW v \in Values
    PROVE  Safe(Put(L, i, v)) /\ Rewrote(L, Put(L, i, v), i, v) /\ Moved(L, Put(L, i, v), i)
<1> DEFINE b == BlockOf(i)
           I == Invalidate(L, GroupOf(i))
           W == Writable(I, b)
           M == Put(L, i, v)
<1>1. /\ I \in Structure /\ I.heap = L.heap /\ I.blocks = L.blocks
      /\ I.shared = L.shared /\ I.count = L.count
      /\ DOMAIN I.groups = DOMAIN L.groups
      /\ \A h \in DOMAIN L.groups :
           I.groups[h] = IF h = GroupOf(i) THEN NoAggregate ELSE L.groups[h]
  BY InvalidateFields DEF Safe
<1> HIDE DEF I
<1>2. Safe(I)
  BY <1>1, SafeFields
<1>3. b \in DOMAIN L.blocks /\ L.count \in Nat /\ L.blocks \in Seq(Header)
  BY RowPosition DEF Safe, Structure
<1>4. Safe(W) /\ Copied(I, W, b)
  BY <1>1, <1>2, <1>3, WritableCopied
<1>5. M = [W EXCEPT !.heap[W.blocks[b].arr][SlotOf(i)] = v]
  BY DEF Put, W, I
<1> HIDE DEF W, M
<1>6. /\ W.count = L.count /\ W.groups = I.groups
      /\ DOMAIN W.blocks = DOMAIN L.blocks
      /\ \A c \in DOMAIN L.blocks :
           /\ c # b => W.blocks[c].arr = L.blocks[c].arr
           /\ \A s \in 1 .. L.blocks[c].len :
                W.heap[W.blocks[c].arr][s] = L.heap[L.blocks[c].arr][s]
  <2>1. DOMAIN W.blocks = 1 .. Len(W.blocks) /\ DOMAIN L.blocks = 1 .. Len(L.blocks)
    BY <1>3, <1>4 DEF Safe, Structure
  <2> QED BY <1>1, <1>4, <2>1 DEF Copied
<1>7. \A c : IsShared(I, c) <=> IsShared(L, c)
  BY <1>1 DEF IsShared
<1>8. /\ \A c : c # b => (IsShared(W, c) <=> IsShared(L, c))
      /\ ~IsShared(W, b)
      /\ \A a \in Reached(L.blocks) \cup Held : W.heap[a] = L.heap[a]
      /\ ~IsShared(L, b) => W.blocks[b].arr = L.blocks[b].arr /\ W.heap = L.heap
      /\ IsShared(L, b) => W.blocks[b].arr \notin Reached(L.blocks) \cup Held
  BY <1>1, <1>4, <1>7 DEF Copied
<1>9. Safe(M) /\ Wrote(W, M, i, v) /\ SameFrozen(W, M)
  BY <1>4, <1>5, <1>6, <1>8, WritePrivate
<1>10. SameFrozen(L, M)
  <2>1. \A w \in Views : \A c \in DOMAIN views[w] : views[w][c].arr \in Held
    BY DEF Held, Reached
  <2> QED BY <1>8, <1>9, <2>1 DEF SameFrozen
<1>11. \A k \in 0 .. L.count - 1 : At(W, k) = At(L, k)
  <2> SUFFICES ASSUME NEW k \in 0 .. L.count - 1 PROVE At(W, k) = At(L, k)
    OBVIOUS
  <2>1. BlockOf(k) \in DOMAIN L.blocks /\ SlotOf(k) \in 1 .. L.blocks[BlockOf(k)].len
    BY <1>3, RowPosition DEF Safe
  <2> QED BY <1>6, <2>1 DEF At
<1>12. Rewrote(L, M, i, v)
  BY <1>1, <1>6, <1>9, <1>10, <1>11 DEF Wrote, Rewrote
<1>13. Moved(L, M, i)
  <2> DEFINE a == L.blocks[b].arr
  <2>1. a \in Reached(L.blocks) /\ a \in Arrays
    BY <1>3, HeaderType DEF Reached
  <2>2. /\ M.blocks = W.blocks /\ M.shared = W.shared
        /\ \A x \in Arrays : x # W.blocks[b].arr => M.heap[x] = W.heap[x]
        /\ \A s : s # SlotOf(i) => M.heap[W.blocks[b].arr][s] = W.heap[W.blocks[b].arr][s]
    BY <1>9 DEF Wrote
  <2>3. \A c : IsShared(M, c) <=> IsShared(W, c)
    BY <2>2 DEF IsShared
  <2>4. CASE IsShared(L, b)
    <3>1. \A x \in Reached(L.blocks) : x \in Arrays => M.heap[x] = L.heap[x]
      BY <1>8, <2>2, <2>4
    <3> QED BY <1>6, <1>8, <2>1, <2>2, <2>3, <2>4, <3>1 DEF Moved
  <2>5. CASE ~IsShared(L, b)
    BY <1>6, <1>8, <2>1, <2>2, <2>3, <2>5 DEF Moved
  <2> QED BY <2>4, <2>5
<1> QED BY <1>9, <1>12, <1>13 DEF M

-----------------------------------------------------------------------------
(* Truncation keeps the first rows.                                        *)

(* The first n entries of a sequence.                                      *)
LEMMA FirstEntries ==
    ASSUME NEW S, NEW q \in Seq(S), NEW n \in Nat
    PROVE  /\ First(q, n) \in Seq(S)
           /\ Len(First(q, n)) = IF Len(q) > n THEN n ELSE Len(q)
           /\ \A i \in DOMAIN First(q, n) : i \in DOMAIN q /\ i <= n /\ First(q, n)[i] = q[i]
<1> DEFINE m == IF Len(q) > n THEN n ELSE Len(q)
<1>1. m \in Nat /\ m <= Len(q) /\ m <= n /\ \A i \in 1 .. m : q[i] \in S
  OBVIOUS
<1>2. First(q, n) = SubSeq(q, 1, m)
  BY DEF First
<1> HIDE DEF m
<1>3. /\ SubSeq(q, 1, m) \in Seq(S)
      /\ Len(SubSeq(q, 1, m)) = IF 1 <= m THEN m - 1 + 1 ELSE 0
      /\ \A i \in 1 .. m - 1 + 1 : SubSeq(q, 1, m)[i] = q[1 + i - 1]
  BY <1>1, SubSeqProperties
<1>4. Len(SubSeq(q, 1, m)) = m /\ \A i \in 1 .. m : SubSeq(q, 1, m)[i] = q[i]
  BY <1>1, <1>3
<1> QED BY <1>1, <1>2, <1>3, <1>4 DEF m

(* What truncation does to the rows and the aggregates.                    *)
Shortened(L, M, n) ==
    /\ M.count = n
    /\ \A g \in DOMAIN M.groups :
         /\ n > 0 /\ g \in DOMAIN L.groups /\ g <= GroupOf(n - 1)
         /\ M.groups[g] = IF g >= GroupOf(n) THEN NoAggregate ELSE L.groups[g]
    /\ \A k \in 0 .. n - 1 : At(M, k) = At(L, k)
    /\ SameFrozen(L, M)

(* Invalidating from a row on changes the aggregates of its group and the  *)
(* later ones only.                                                        *)
LEMMA InvalidateFromFields ==
    ASSUME NEW L \in Structure, NEW i
    PROVE  LET M == InvalidateFrom(L, i)
           IN  /\ M \in Structure /\ M.heap = L.heap /\ M.blocks = L.blocks
               /\ M.shared = L.shared /\ M.count = L.count
               /\ DOMAIN M.groups = DOMAIN L.groups
               /\ \A h \in DOMAIN L.groups :
                    M.groups[h] = IF h >= GroupOf(i) THEN NoAggregate ELSE L.groups[h]
<1> DEFINE groups == [g \in DOMAIN L.groups |-> IF g >= GroupOf(i) THEN NoAggregate ELSE L.groups[g]]
<1>1. NoAggregate \in Aggregate
  BY DEF NoAggregate, Aggregate
<1>2. L.groups \in Seq(Aggregate)
  BY DEF Structure
<1>3. groups \in Seq(Aggregate) /\ DOMAIN groups = DOMAIN L.groups
  BY <1>1, <1>2
<1>4. InvalidateFrom(L, i) = [L EXCEPT !.groups = groups]
  BY DEF InvalidateFrom
<1>5. \A h \in DOMAIN L.groups : groups[h] = IF h >= GroupOf(i) THEN NoAggregate ELSE L.groups[h]
  OBVIOUS
<1> HIDE DEF groups
<1> QED BY <1>3, <1>4, <1>5 DEF Structure

(* Truncating to nothing gives the empty structure.                        *)
LEMMA TruncateToNothing ==
    ASSUME NEW L, Safe(L)
    PROVE  Safe(Truncate(L, 0)) /\ Shortened(L, Truncate(L, 0), 0)
<1> DEFINE M == Truncate(L, 0)
<1>1. M = [L EXCEPT !.blocks = <<>>, !.shared = <<>>, !.groups = <<>>, !.count = 0]
  BY DEF Truncate
<1>2. /\ M \in Structure /\ M.heap = L.heap /\ M.blocks = <<>> /\ M.shared = <<>>
      /\ M.groups = <<>> /\ M.count = 0
  <2>1. <<>> \in Seq(Header) /\ <<>> \in Seq(BOOLEAN) /\ <<>> \in Seq(Aggregate)
    BY EmptySeq
  <2>2. L \in Structure
    BY DEF Safe
  <2> HIDE DEF M
  <2> QED BY <1>1, <2>1, <2>2 DEF Structure
<1> HIDE DEF M
<1>3. Shaped(M.blocks, 0)
  BY <1>2 DEF Shaped
<1>4. Safe(M)
  BY <1>2, <1>3, SizesAssumption DEF Safe, Filled, TailsBlank, Distinct, Marked
<1>5. Shortened(L, M, 0)
  BY <1>2 DEF Shortened, SameFrozen
<1> QED BY <1>4, <1>5 DEF M

(* The structure after the last block to keep has become writable.         *)
Cut(W, n, upTo) ==
    LET last == BlockOf(n - 1)
        keep == SlotOf(n - 1)
        a    == W.blocks[last].arr
    IN  [W EXCEPT
          !.heap[a] = [i \in DOMAIN @ |-> IF i \in keep + 1..upTo THEN Blank ELSE @[i]],
          !.blocks = [SubSeq(@, 1, last) EXCEPT ![last].len = keep],
          !.shared = First(@, last),
          !.count = n,
          !.groups = First(@, GroupOf(n - 1))]

(* Its fields.                                                             *)
CutFields(W, M, n, upTo) ==
    LET last == BlockOf(n - 1)
        keep == SlotOf(n - 1)
        a    == W.blocks[last].arr
    IN  /\ M \in Structure /\ M.count = n
        /\ last \in DOMAIN W.blocks /\ keep \in 1 .. W.blocks[last].len
        /\ Len(M.blocks) = last
        /\ \A c \in 1 .. last :
             M.blocks[c] = IF c = last THEN [arr |-> a, len |-> keep] ELSE W.blocks[c]
        /\ Len(M.shared) <= last
        /\ \A c \in 1 .. last : IsShared(M, c) <=> IsShared(W, c)
        /\ \A x \in Arrays : x # a => M.heap[x] = W.heap[x]
        /\ Len(M.heap[a]) = Len(W.heap[a])
        /\ \A s \in 1 .. Len(W.heap[a]) :
             M.heap[a][s] = IF s \in keep + 1 .. upTo THEN Blank ELSE W.heap[a][s]
        /\ \A g \in DOMAIN M.groups :
             g \in DOMAIN W.groups /\ g <= GroupOf(n - 1) /\ M.groups[g] = W.groups[g]

(* The fields of the structure after the cut.                              *)
LEMMA TruncateFields ==
    ASSUME NEW W, Safe(W), NEW n \in 1 .. W.count, ~IsShared(W, BlockOf(n - 1)), NEW upTo \in Nat
    PROVE  CutFields(W, Cut(W, n, upTo), n, upTo)
<1> DEFINE last == BlockOf(n - 1)
           keep == SlotOf(n - 1)
           a == W.blocks[last].arr
           row == [i \in DOMAIN W.heap[a] |-> IF i \in keep + 1..upTo THEN Blank ELSE W.heap[a][i]]
           heap == [W.heap EXCEPT ![a] = row]
           front == SubSeq(W.blocks, 1, last)
           blocks == [front EXCEPT ![last].len = keep]
           shared == First(W.shared, last)
           groups == First(W.groups, GroupOf(n - 1))
           M == Cut(W, n, upTo)
<1>1. /\ W.heap \in [Arrays -> Seq(Values \cup {Blank})] /\ W.blocks \in Seq(Header)
      /\ W.shared \in Seq(BOOLEAN) /\ W.groups \in Seq(Aggregate) /\ W.count \in Nat
      /\ n - 1 \in Nat /\ n - 1 \in 0 .. W.count - 1 /\ n \in Nat
  BY DEF Safe, Structure
<1>2. last \in DOMAIN W.blocks /\ keep \in 1 .. W.blocks[last].len /\ DOMAIN W.blocks = 1 .. Len(W.blocks)
  BY <1>1, RowPosition DEF Safe
<1>3. a \in Arrays /\ W.blocks[last].len \in 1 .. BlockRecords /\ keep \in 1 .. BlockRecords /\ last \in Nat \ {0}
  BY <1>1, <1>2, HeaderType, PositionType
<1>4. W.heap[a] \in Seq(Values \cup {Blank})
  BY <1>1, <1>3
<1>5. M = [W EXCEPT !.heap = heap, !.blocks = blocks, !.shared = shared, !.count = n, !.groups = groups]
  BY <1>3 DEF Safe, Structure, Cut
<1> HIDE DEF a, last, keep, M
<1>6. row \in Seq(Values \cup {Blank}) /\ Len(row) = Len(W.heap[a])
      /\ \A s \in 1 .. Len(W.heap[a]) :
           row[s] = IF s \in keep + 1 .. upTo THEN Blank ELSE W.heap[a][s]
  BY <1>4
<1> HIDE DEF row
<1>7. heap \in [Arrays -> Seq(Values \cup {Blank})] /\ heap[a] = row
      /\ \A x \in Arrays : x # a => heap[x] = W.heap[x]
  BY <1>1, <1>3, <1>6
<1>8. front \in Seq(Header) /\ Len(front) = last /\ \A c \in 1 .. last : front[c] = W.blocks[c]
  <2>1. \A c \in 1 .. last : W.blocks[c] \in Header
    BY <1>1, <1>2, <1>3
  <2>2. /\ front \in Seq(Header)
        /\ Len(front) = IF 1 <= last THEN last - 1 + 1 ELSE 0
        /\ \A i \in 1 .. last - 1 + 1 : front[i] = W.blocks[1 + i - 1]
    BY <1>3, <2>1, SubSeqProperties
  <2> QED BY <1>3, <2>2
<1> HIDE DEF front
<1>9. blocks \in Seq(Header) /\ Len(blocks) = last
      /\ \A c \in 1 .. last : blocks[c] = IF c = last THEN [arr |-> a, len |-> keep] ELSE W.blocks[c]
  <2>1. front[last] = W.blocks[last] /\ W.blocks[last] \in Header /\ last \in DOMAIN front
    BY <1>1, <1>2, <1>3, <1>8
  <2>2. [front[last] EXCEPT !.len = keep] = [arr |-> a, len |-> keep]
        /\ [front[last] EXCEPT !.len = keep] \in Header
    BY <1>3, <2>1 DEF Header, a
  <2>3. blocks = [front EXCEPT ![last] = [arr |-> a, len |-> keep]]
    BY <1>8, <2>1, <2>2
  <2> QED BY <1>8, <2>1, <2>2, <2>3
<1>10. /\ shared \in Seq(BOOLEAN) /\ Len(shared) = IF Len(W.shared) > last THEN last ELSE Len(W.shared)
       /\ \A i \in DOMAIN shared : i \in DOMAIN W.shared /\ i <= last /\ shared[i] = W.shared[i]
  BY <1>1, <1>3, FirstEntries
<1>11. GroupOf(n - 1) \in Nat
  BY <1>1, GroupType
<1>12. /\ groups \in Seq(Aggregate)
       /\ \A i \in DOMAIN groups : i \in DOMAIN W.groups /\ i <= GroupOf(n - 1) /\ groups[i] = W.groups[i]
  BY <1>1, <1>11, FirstEntries
<1> HIDE DEF heap, blocks, shared, groups
<1>13. /\ M \in Structure /\ M.heap = heap /\ M.blocks = blocks /\ M.shared = shared
       /\ M.groups = groups /\ M.count = n
  BY <1>1, <1>5, <1>7, <1>9, <1>10, <1>12 DEF Safe, Structure
<1>14. \A c \in 1 .. last : c \in DOMAIN shared <=> c \in DOMAIN W.shared
  BY <1>1, <1>3, <1>10
<1>15. \A c \in 1 .. last : IsShared(M, c) <=> IsShared(W, c)
  BY <1>10, <1>13, <1>14 DEF IsShared
<1>16. Len(shared) <= last
  BY <1>1, <1>3, <1>10
<1> QED BY <1>2, <1>3, <1>6, <1>7, <1>9, <1>12, <1>13, <1>15, <1>16 DEF CutFields, M, a, last, keep

(* Truncation keeps the invariant and the first n rows, and clears what it *)
(* drops without touching a frozen view.                                   *)
LEMMA TruncateEffect ==
    ASSUME NEW L, Safe(L), ViewsShaped, NEW n \in 0 .. L.count
    PROVE  Safe(Truncate(L, n)) /\ Shortened(L, Truncate(L, n), n)
<1>1. CASE n = 0
  BY <1>1, TruncateToNothing
<1>2. CASE n # 0
  <2> DEFINE last == BlockOf(n - 1)
             keep == SlotOf(n - 1)
             upTo == L.blocks[last].len
             V == InvalidateFrom(L, n)
             W == Writable(V, last)
             a == W.blocks[last].arr
             M == Truncate(L, n)
  <2>1. /\ n \in Nat /\ n - 1 \in Nat /\ n - 1 \in 0 .. L.count - 1 /\ n \in 1 .. L.count
        /\ L.count \in Nat /\ L.blocks \in Seq(Header) /\ L.count <= MaxCount
    BY <1>2 DEF Safe, Structure
  <2>2. /\ V \in Structure /\ V.heap = L.heap /\ V.blocks = L.blocks
        /\ V.shared = L.shared /\ V.count = L.count
        /\ DOMAIN V.groups = DOMAIN L.groups
        /\ \A h \in DOMAIN L.groups :
             V.groups[h] = IF h >= GroupOf(n) THEN NoAggregate ELSE L.groups[h]
    BY InvalidateFromFields DEF Safe
  <2> HIDE DEF V
  <2>3. last \in DOMAIN L.blocks /\ keep \in 1 .. upTo /\ upTo \in 1 .. BlockRecords
        /\ DOMAIN L.blocks = 1 .. Len(L.blocks) /\ last \in Nat \ {0} /\ keep \in 1 .. BlockRecords
    <3>1. last \in DOMAIN L.blocks /\ keep \in 1 .. upTo
      BY <2>1, RowPosition DEF Safe
    <3>2. upTo \in 1 .. BlockRecords
      BY <2>1, <3>1, HeaderType
    <3>3. last \in Nat \ {0} /\ keep \in 1 .. BlockRecords
      BY <2>1, PositionType
    <3> QED BY <2>1, <3>1, <3>2, <3>3
  <2>4. Safe(V) /\ Safe(W) /\ Copied(V, W, last)
    BY <2>2, <2>3, SafeFields, WritableCopied
  <2>5. M = Cut(W, n, upTo)
    BY <1>2 DEF Truncate, Cut, W, V
  <2> HIDE DEF W
  <2>6. /\ W.count = L.count /\ W.groups = V.groups /\ DOMAIN W.blocks = DOMAIN L.blocks
        /\ \A c \in DOMAIN L.blocks :
             /\ W.blocks[c].len = L.blocks[c].len
             /\ \A s \in 1 .. L.blocks[c].len :
                  W.heap[W.blocks[c].arr][s] = L.heap[L.blocks[c].arr][s]
        /\ ~IsShared(W, last)
        /\ \A x \in Held : W.heap[x] = L.heap[x]
    <3>1. DOMAIN W.blocks = 1 .. Len(W.blocks) /\ Len(W.blocks) = Len(L.blocks)
      BY <2>2, <2>4 DEF Safe, Structure, Copied
    <3>2. /\ W.count = V.count /\ W.groups = V.groups /\ ~IsShared(W, last)
          /\ \A x \in Reached(V.blocks) \cup Held : W.heap[x] = V.heap[x]
      BY <2>4 DEF Copied
    <3>3. \A c \in DOMAIN V.blocks :
             /\ W.blocks[c].len = V.blocks[c].len
             /\ \A s \in 1 .. V.blocks[c].len :
                  W.heap[W.blocks[c].arr][s] = V.heap[V.blocks[c].arr][s]
      BY <2>4 DEF Copied
    <3>4. DOMAIN W.blocks = DOMAIN L.blocks
      BY <2>3, <3>1
    <3> QED BY <2>2, <3>2, <3>3, <3>4
  <2>7. n \in 1 .. W.count /\ ~IsShared(W, BlockOf(n - 1)) /\ upTo \in Nat
    BY <2>1, <2>3, <2>6
  <2> HIDE DEF M
  <2>8. /\ M \in Structure /\ M.count = n
        /\ Len(M.blocks) = last
        /\ \A c \in 1 .. last :
             M.blocks[c] = IF c = last THEN [arr |-> a, len |-> keep] ELSE W.blocks[c]
        /\ Len(M.shared) <= last
        /\ \A c \in 1 .. last : IsShared(M, c) <=> IsShared(W, c)
        /\ \A x \in Arrays : x # a => M.heap[x] = W.heap[x]
        /\ Len(M.heap[a]) = Len(W.heap[a])
        /\ \A s \in 1 .. Len(W.heap[a]) :
             M.heap[a][s] = IF s \in keep + 1 .. upTo THEN Blank ELSE W.heap[a][s]
        /\ \A g \in DOMAIN M.groups :
             g \in DOMAIN W.groups /\ g <= GroupOf(n - 1) /\ M.groups[g] = W.groups[g]
    <3>1. CutFields(W, M, n, upTo)
      <4> HIDE DEF upTo
      <4> QED BY <2>4, <2>5, <2>7, TruncateFields
    <3> QED BY <3>1 DEF CutFields
  <2>23. last = BlockOf(n - 1) /\ keep = SlotOf(n - 1) /\ a = W.blocks[last].arr /\ upTo = L.blocks[last].len
    OBVIOUS
  <2> HIDE DEF a, last, keep, upTo
  <2>9. DOMAIN M.blocks = 1 .. last /\ W.blocks \in Seq(Header) /\ 1 .. last \subseteq DOMAIN W.blocks
        /\ W.heap \in [Arrays -> Seq(Values \cup {Blank})]
    <3>1. M.blocks \in Seq(Header) /\ W.blocks \in Seq(Header) /\ L.blocks \in Seq(Header)
          /\ W.heap \in [Arrays -> Seq(Values \cup {Blank})]
      BY <2>1, <2>4, <2>8 DEF Structure, Safe
    <3> QED BY <2>3, <2>6, <2>8, <3>1
  <2>10. /\ a \in Arrays /\ a = W.blocks[last].arr /\ Len(W.heap[a]) \in Nat
         /\ W.blocks[last].len = upTo /\ upTo <= Len(W.heap[a])
    <3>1. a = W.blocks[last].arr
      BY <2>23
    <3>2. last \in DOMAIN W.blocks
      BY <2>3, <2>6, <2>9
    <3>3. a \in Arrays
      BY <2>9, <3>1, <3>2, HeaderType
    <3>4. W.blocks[last].len = upTo
      <4>1. last \in DOMAIN L.blocks
        BY <2>3
      <4>2. W.blocks[last].len = L.blocks[last].len
        BY <2>6, <4>1
      <4>3. upTo = L.blocks[last].len
        BY <2>23
      <4> QED BY <4>2, <4>3
    <3>5. W.blocks[last].len <= Len(W.heap[a])
      BY <2>4, <3>1, <3>2 DEF Safe, Filled
    <3>6. Len(W.heap[a]) \in Nat
      <4>1. W.heap[a] \in Seq(Values \cup {Blank})
        BY <2>9, <3>3
      <4> QED BY <4>1, LenProperties
    <3> QED BY <3>1, <3>3, <3>4, <3>5, <3>6
  <2>11. \A c \in 1 .. last : /\ M.blocks[c].arr = W.blocks[c].arr
                               /\ M.blocks[c].arr \in Arrays
                               /\ M.blocks[c].len = IF c = last THEN keep ELSE W.blocks[c].len
    <3>1. \A c \in 1 .. last : W.blocks[c].arr \in Arrays
      BY <2>9, HeaderType
    <3>2. \A c \in 1 .. last : M.blocks[c] = IF c = last THEN [arr |-> a, len |-> keep] ELSE W.blocks[c]
      BY <2>8
    <3>3. a = W.blocks[last].arr
      BY <2>10
    <3> QED BY <3>1, <3>2, <3>3
  <2>12. \A c \in 1 .. last : c # last => M.blocks[c].arr # a /\ M.heap[M.blocks[c].arr] = W.heap[W.blocks[c].arr]
    <3>1. \A c \in 1 .. last : c # last => W.blocks[c].arr # W.blocks[last].arr
      BY <2>3, <2>4, <2>6, <2>9 DEF Safe, Distinct
    <3>2. ASSUME NEW c \in 1 .. last, c # last
          PROVE  M.blocks[c].arr # a /\ M.heap[M.blocks[c].arr] = W.heap[W.blocks[c].arr]
      <4>1. M.blocks[c].arr = W.blocks[c].arr /\ M.blocks[c].arr \in Arrays
        BY <2>11
      <4>2. M.blocks[c].arr # a
        BY <2>10, <3>1, <3>2, <4>1
      <4> QED BY <2>8, <4>1, <4>2
    <3> QED BY <3>2
  <2>13. \A s \in 1 .. keep : M.heap[a][s] = W.heap[a][s]
    <3> SUFFICES ASSUME NEW s \in 1 .. keep PROVE M.heap[a][s] = W.heap[a][s]
      OBVIOUS
    <3>1. s \in 1 .. Len(W.heap[a]) /\ s \notin keep + 1 .. upTo
      BY <2>3, <2>10
    <3> QED BY <2>8, <3>1
  <2>14. Filled(M)
    <3> SUFFICES ASSUME NEW c \in 1 .. last
                 PROVE  /\ M.blocks[c].len <= Len(M.heap[M.blocks[c].arr])
                        /\ \A s \in 1 .. M.blocks[c].len : M.heap[M.blocks[c].arr][s] \in Values
      BY <2>9 DEF Filled
    <3>1. CASE c = last
      <4>1. \A s \in 1 .. upTo : W.heap[a][s] \in Values
        <5>1. last \in DOMAIN W.blocks
          BY <2>3, <2>6, <2>9
        <5>2. \A s \in 1 .. W.blocks[last].len : W.heap[W.blocks[last].arr][s] \in Values
          BY <2>4, <5>1 DEF Safe, Filled
        <5> QED BY <2>10, <5>2
      <4>2. M.blocks[c].len = keep /\ M.blocks[c].arr = a /\ keep <= Len(M.heap[a])
        BY <2>3, <2>8, <2>10, <2>11, <3>1
      <4>3. \A s \in 1 .. keep : s \in 1 .. upTo
        BY <2>3
      <4> QED BY <2>13, <4>1, <4>2, <4>3
    <3>2. CASE c # last
      <4>1. c \in DOMAIN W.blocks /\ M.blocks[c].arr = W.blocks[c].arr
            /\ M.blocks[c].len = W.blocks[c].len
            /\ M.heap[M.blocks[c].arr] = W.heap[W.blocks[c].arr]
        BY <2>9, <2>11, <2>12, <3>2
      <4>2. /\ W.blocks[c].len <= Len(W.heap[W.blocks[c].arr])
            /\ \A s \in 1 .. W.blocks[c].len : W.heap[W.blocks[c].arr][s] \in Values
        BY <2>4, <4>1 DEF Safe, Filled
      <4> QED BY <4>1, <4>2
    <3> QED BY <3>1, <3>2
  <2>15. TailsBlank(M)
    <3> SUFFICES ASSUME NEW c \in 1 .. last, ~IsShared(M, c),
                        NEW s \in M.blocks[c].len + 1 .. Len(M.heap[M.blocks[c].arr])
                 PROVE  M.heap[M.blocks[c].arr][s] = Blank
      BY <2>9 DEF TailsBlank
    <3>1. CASE c = last
      <4>1. s \in keep + 1 .. Len(W.heap[a]) /\ M.blocks[c].arr = a
        BY <2>8, <2>10, <2>11, <3>1
      <4>2. CASE s \in keep + 1 .. upTo
        <5>0. s \in 1 .. Len(W.heap[a])
          BY <2>3, <2>10, <4>1
        <5>1. M.heap[a][s] = Blank
          BY <2>8, <4>2, <5>0
        <5> QED BY <4>1, <5>1
      <4>3. CASE s \notin keep + 1 .. upTo
        <5>1. s \in upTo + 1 .. Len(W.heap[a]) /\ s \in 1 .. Len(W.heap[a])
          BY <2>3, <2>10, <4>1, <4>3
        <5>2. W.heap[a][s] = Blank
          BY <2>3, <2>4, <2>6, <2>10, <5>1 DEF Safe, TailsBlank
        <5> QED BY <2>8, <4>1, <4>3, <5>1, <5>2
      <4> QED BY <4>2, <4>3
    <3>2. CASE c # last
      <4>1. ~IsShared(W, c) /\ s \in W.blocks[c].len + 1 .. Len(W.heap[W.blocks[c].arr])
        BY <2>8, <2>11, <2>12, <3>2
      <4>2. W.heap[W.blocks[c].arr][s] = Blank
        <5>1. c \in DOMAIN W.blocks
          BY <2>9
        <5> QED BY <2>4, <4>1, <5>1 DEF Safe, TailsBlank
      <4> QED BY <2>12, <3>2, <4>2
    <3> QED BY <3>1, <3>2
  <2>16. Shaped(M.blocks, n)
    <3>1. \A c \in 1 .. last - 1 : M.blocks[c].len = BlockRecords
      <4> SUFFICES ASSUME NEW c \in 1 .. last - 1 PROVE M.blocks[c].len = BlockRecords
        OBVIOUS
      <4>2. M.blocks[c].len = W.blocks[c].len
        BY <2>3, <2>11
      <4>1. c \in 1 .. Len(L.blocks) - 1 /\ c \in DOMAIN L.blocks
        BY <2>3
      <4> QED BY <2>6, <4>1, <4>2 DEF Safe, Shaped
    <3>2. M.blocks \in Seq(Header)
      BY <2>8 DEF Structure
    <3>3. M.blocks[last].len = keep
      BY <2>3, <2>11
    <3> QED BY <1>2, <2>1, <2>8, <2>23, <3>1, <3>2, <3>3 DEF Shaped
  <2>17. Distinct(M)
    BY <2>4, <2>9, <2>11 DEF Safe, Distinct
  <2>18. Marked(M)
    <3> SUFFICES ASSUME NEW w \in Views, NEW c \in DOMAIN views[w], NEW d \in 1 .. last,
                        views[w][c].arr = M.blocks[d].arr
                 PROVE  IsShared(M, d) /\ views[w][c].len <= M.blocks[d].len
      BY <2>9 DEF Marked
    <3>1. d \in DOMAIN W.blocks /\ IsShared(W, d) /\ views[w][c].len <= W.blocks[d].len
      BY <2>4, <2>9, <2>11 DEF Safe, Marked
    <3> QED BY <2>6, <2>8, <2>11, <3>1
  <2>19. Safe(M)
    <3>1. n <= MaxCount
      BY <2>1, SizesAssumption
    <3> QED BY <2>8, <2>14, <2>15, <2>16, <2>17, <2>18, <3>1 DEF Safe
  <2>20. SameFrozen(L, M)
    <3> SUFFICES ASSUME NEW w \in Views, NEW c \in DOMAIN views[w]
                 PROVE  M.heap[views[w][c].arr] = L.heap[views[w][c].arr]
      BY DEF SameFrozen
    <3>1. views[w][c].arr \in Held /\ views[w][c].arr \in Arrays
      BY HeaderType DEF Held, Reached, ViewsShaped
    <3>2. views[w][c].arr # a
      BY <2>3, <2>4, <2>6, <2>10 DEF Safe, Marked
    <3> QED BY <2>6, <2>8, <3>1, <3>2
  <2>21. ASSUME NEW k \in 0 .. n - 1 PROVE At(M, k) = At(L, k)
    <3>1. /\ k \in Nat /\ k \in 0 .. L.count - 1
          /\ BlockOf(k) \in 1 .. last /\ SlotOf(k) \in 1 .. M.blocks[BlockOf(k)].len
      <4>1. k \in Nat /\ k \in 0 .. L.count - 1
        BY <2>1
      <4>2. BlockOf(k) \in DOMAIN M.blocks /\ SlotOf(k) \in 1 .. M.blocks[BlockOf(k)].len
        BY <2>1, <2>16, RowPosition
      <4> QED BY <2>9, <4>1, <4>2
    <3>2. BlockOf(k) \in DOMAIN L.blocks /\ SlotOf(k) \in 1 .. L.blocks[BlockOf(k)].len
      BY <3>1, <2>1, RowPosition DEF Safe
    <3>3. W.heap[W.blocks[BlockOf(k)].arr][SlotOf(k)] = At(L, k)
      BY <2>6, <3>2 DEF At
    <3>4. M.heap[M.blocks[BlockOf(k)].arr][SlotOf(k)] = W.heap[W.blocks[BlockOf(k)].arr][SlotOf(k)]
      <4>1. CASE BlockOf(k) = last
        BY <2>10, <2>11, <2>13, <3>1, <4>1
      <4>2. CASE BlockOf(k) # last
        BY <2>12, <3>1, <4>2
      <4> QED BY <4>1, <4>2
    <3> QED BY <3>3, <3>4 DEF At
  <2>22. Shortened(L, M, n)
    BY <1>2, <2>1, <2>2, <2>6, <2>8, <2>20, <2>21 DEF Shortened
  <2> QED BY <2>19, <2>22 DEF M
<1> QED BY <1>1, <1>2

-----------------------------------------------------------------------------
(* Appending a row: there is room for it in an array whose rows up to      *)
(* there are those of the block.                                           *)

OpenStructure ==
    [heap : [Arrays -> Seq(Values \cup {Blank})],
     blocks : Seq([arr : Arrays, len : 0 .. BlockRecords]),
     shared : Seq(BOOLEAN), groups : Seq(Aggregate), count : Nat]

(* The row will be row t of block n, in array x.                           *)
RoomFields(L, R, n, t, x) ==
    /\ R \in OpenStructure /\ R.count = L.count /\ R.groups = L.groups
    /\ Len(R.blocks) = n /\ R.blocks[n].arr = x /\ R.blocks[n].len = t - 1
    /\ Len(R.shared) = Len(L.shared) /\ Len(L.shared) <= n
    /\ \A c \in 1 .. n - 1 :
         /\ c \in DOMAIN L.blocks /\ R.blocks[c] = L.blocks[c]
         /\ L.blocks[c].len = BlockRecords /\ L.blocks[c].arr # x
         /\ IsShared(R, c) <=> IsShared(L, c)
    /\ \A a \in Arrays : a # x => R.heap[a] = L.heap[a]
    /\ x \in Arrays /\ t <= Len(R.heap[x])
    /\ t > 1 => n \in DOMAIN L.blocks
    /\ \A u \in 1 .. t - 1 :
         R.heap[x][u] = L.heap[L.blocks[n].arr][u] /\ R.heap[x][u] \in Values
    /\ ~IsShared(R, n) => \A u \in t .. Len(R.heap[x]) : R.heap[x][u] = Blank
    /\ x \in Held => R.heap[x] = L.heap[x]
    /\ \A w \in Views : \A c \in DOMAIN views[w] :
         views[w][c].arr = x => IsShared(R, n) /\ views[w][c].len <= t - 1

(* A new array with blank rows.                                            *)
LEMMA BlankRows ==
    ASSUME NEW n \in Nat
    PROVE  /\ [i \in 1 .. n |-> Blank] \in Seq(Values \cup {Blank})
           /\ Len([i \in 1 .. n |-> Blank]) = n
           /\ \A i \in 1 .. n : [j \in 1 .. n |-> Blank][i] = Blank
OBVIOUS

(* A header may be that of an empty block until the row is in.             *)
LEMMA OpenHeaders ==
    ASSUME NEW headers \in Seq(Header)
    PROVE  headers \in Seq([arr : Arrays, len : 0 .. BlockRecords])
<1>1. \A h \in Header : h \in [arr : Arrays, len : 0 .. BlockRecords]
  BY SizesAssumption DEF Header
<1>2. \A b \in 1 .. Len(headers) : headers[b] \in Header
  OBVIOUS
<1>3. headers = [b \in 1 .. Len(headers) |-> headers[b]] /\ Len(headers) \in Nat
  OBVIOUS
<1> DEFINE open == [arr : Arrays, len : 0 .. BlockRecords]
<1>4. \A b \in 1 .. Len(headers) : headers[b] \in open
  BY <1>1, <1>2
<1> HIDE DEF open
<1>5. headers \in [1 .. Len(headers) -> open]
  BY <1>3, <1>4
<1>6. headers \in Seq(open)
  BY <1>3, <1>5, SeqDef
<1> QED BY <1>6 DEF open

(* The first row gets the first block.                                     *)
LEMMA RoomFirst ==
    ASSUME NEW L, Safe(L), ViewsShaped, L.count = 0, MaxCount > 0
    PROVE  RoomFields(L, Room(L), 1, 1, Unused(L))
<1> DEFINE a == Unused(L)
           R == Room(L)
           heap == [L.heap EXCEPT ![a] = [i \in 1 .. 1 |-> Blank]]
           blocks == <<[arr |-> a, len |-> 0]>>
<1>2. a \in Arrays /\ a \notin Reached(L.blocks) \cup Held
  BY UnusedExists
<1>3. L.blocks = <<>> /\ Len(L.shared) <= 0 /\ L.shared \in Seq(BOOLEAN) /\ L.groups \in Seq(Aggregate)
      /\ L.heap \in [Arrays -> Seq(Values \cup {Blank})] /\ L \in Structure
  BY DEF Safe, Structure, Shaped
<1>4. R = [L EXCEPT !.heap = heap, !.blocks = blocks]
  BY <1>3 DEF Room, Structure
<1> HIDE DEF a, R
<1>5. heap \in [Arrays -> Seq(Values \cup {Blank})] /\ heap[a] = [i \in 1 .. 1 |-> Blank]
      /\ \A x \in Arrays : x # a => heap[x] = L.heap[x]
  BY <1>2, <1>3, BlankRows
<1> HIDE DEF heap
<1>6. blocks \in Seq([arr : Arrays, len : 0 .. BlockRecords])
      /\ Len(blocks) = 1 /\ blocks[1] = [arr |-> a, len |-> 0]
  BY <1>2, SizesAssumption
<1> HIDE DEF blocks
<1>7. R \in OpenStructure /\ R.heap = heap /\ R.blocks = blocks
      /\ R.shared = L.shared /\ R.count = L.count /\ R.groups = L.groups
  BY <1>3, <1>4, <1>5, <1>6 DEF Structure, OpenStructure
<1>8. R.blocks[1].arr = a /\ R.blocks[1].len = 1 - 1
  BY <1>6, <1>7
<1>9. Len(R.heap[a]) = 1 /\ R.heap[a][1] = Blank
  BY <1>5, <1>7, BlankRows
<1>10. \A w \in Views : \A c \in DOMAIN views[w] : views[w][c].arr # a
  BY <1>2 DEF Held, Reached
<1>11. Len(L.shared) <= 1
  BY <1>3
<1>12. \A u \in 1 .. Len(R.heap[a]) : R.heap[a][u] = Blank
  BY <1>9
<1>13. \A c \in 1 .. 1 - 1 : FALSE
  OBVIOUS
<1>14. \A x \in Arrays : x # a => R.heap[x] = L.heap[x]
  BY <1>5, <1>7
<1>15. Len(R.blocks) = 1 /\ Len(R.shared) = Len(L.shared) /\ 1 <= Len(R.heap[a])
  BY <1>6, <1>7, <1>9
<1>16. RoomFields(L, R, 1, 1, a)
  BY <1>2, <1>7, <1>8, <1>10, <1>11, <1>12, <1>13, <1>14, <1>15 DEF RoomFields
<1> QED BY <1>16 DEF R, a

(* A full last block is followed by a new one.                             *)
LEMMA RoomNew ==
    ASSUME NEW L, Safe(L), ViewsShaped, L.count > 0, SlotOf(L.count - 1) = BlockRecords
    PROVE  RoomFields(L, Room(L), BlockOf(L.count - 1) + 1, 1, Unused(L))
<1> DEFINE a == Unused(L)
           R == Room(L)
           heap == [L.heap EXCEPT ![a] = [i \in 1 .. BlockRecords |-> Blank]]
           last == BlockOf(L.count - 1)
           blocks == Append(L.blocks, [arr |-> a, len |-> 0])
           n == last + 1
<1>1. /\ L.count \in Nat /\ L.count - 1 \in Nat /\ MaxCount > 0
      /\ L.blocks \in Seq(Header) /\ L.shared \in Seq(BOOLEAN) /\ L.groups \in Seq(Aggregate)
      /\ L.heap \in [Arrays -> Seq(Values \cup {Blank})] /\ L \in Structure
  BY SizesAssumption DEF Safe, Structure
<1>2. last \in Nat \ {0}
  BY <1>1, PositionType
<1>3. Len(L.blocks) = last /\ L.blocks[last].len = BlockRecords
  BY <1>1 DEF Safe, Shaped
<1>4. a \in Arrays /\ a \notin Reached(L.blocks) \cup Held
  BY <1>1, UnusedExists
<1>5. R = [L EXCEPT !.heap = heap, !.blocks = blocks]
  BY <1>2, <1>3 DEF Room
<1> HIDE DEF a, R, last
<1>6. heap \in [Arrays -> Seq(Values \cup {Blank})] /\ heap[a] = [i \in 1 .. BlockRecords |-> Blank]
      /\ \A x \in Arrays : x # a => heap[x] = L.heap[x]
  BY <1>1, <1>4, BlankRows, SizesAssumption
<1> HIDE DEF heap
<1>7. blocks \in Seq([arr : Arrays, len : 0 .. BlockRecords]) /\ Len(blocks) = n
      /\ blocks[n] = [arr |-> a, len |-> 0] /\ \A c \in 1 .. last : blocks[c] = L.blocks[c]
  <2>1. L.blocks \in Seq([arr : Arrays, len : 0 .. BlockRecords])
    BY <1>1, OpenHeaders
  <2>2. [arr |-> a, len |-> 0] \in [arr : Arrays, len : 0 .. BlockRecords]
    BY <1>4, SizesAssumption
  <2> QED BY <1>2, <1>3, <2>1, <2>2
<1> HIDE DEF blocks
<1>8. R \in OpenStructure /\ R.heap = heap /\ R.blocks = blocks
      /\ R.shared = L.shared /\ R.count = L.count /\ R.groups = L.groups
  BY <1>1, <1>5, <1>6, <1>7 DEF Structure, OpenStructure
<1>9. R.blocks[n].arr = a /\ R.blocks[n].len = 1 - 1 /\ Len(R.blocks) = n /\ Len(R.shared) = Len(L.shared)
  BY <1>7, <1>8
<1>10. 1 <= Len(R.heap[a]) /\ \A u \in 1 .. Len(R.heap[a]) : R.heap[a][u] = Blank
  BY <1>6, <1>8, BlankRows, SizesAssumption
<1>11. \A w \in Views : \A c \in DOMAIN views[w] : views[w][c].arr # a
  BY <1>4 DEF Held, Reached
<1>12. \A c \in 1 .. n - 1 :
         /\ c \in DOMAIN L.blocks /\ R.blocks[c] = L.blocks[c]
         /\ L.blocks[c].len = BlockRecords /\ L.blocks[c].arr # a
         /\ IsShared(R, c) <=> IsShared(L, c)
  <2>0. 1 .. n - 1 = 1 .. last
    BY <1>2
  <2>1. \A c \in 1 .. last : c \in DOMAIN L.blocks /\ (c = last \/ c \in 1 .. Len(L.blocks) - 1)
    BY <1>1, <1>2, <1>3
  <2>2. \A c \in 1 .. last : L.blocks[c].len = BlockRecords
    BY <1>3, <2>1 DEF Safe, Shaped
  <2>3. \A c \in 1 .. last : L.blocks[c].arr # a
    BY <1>4, <2>1 DEF Reached
  <2> QED BY <1>7, <1>8, <2>0, <2>1, <2>2, <2>3 DEF IsShared
<1>13. Len(L.shared) <= n
  <2>1. Len(L.shared) \in Nat /\ Len(L.shared) <= last
    BY <1>1, <1>3 DEF Safe
  <2> QED BY <1>2, <2>1
<1>14. \A x \in Arrays : x # a => R.heap[x] = L.heap[x]
  BY <1>6, <1>8
<1>15. \A u \in 1 .. 1 - 1 : FALSE
  OBVIOUS
<1> HIDE DEF n
<1>16. RoomFields(L, R, n, 1, a)
  BY <1>4, <1>8, <1>9, <1>10, <1>11, <1>12, <1>13, <1>14, <1>15 DEF RoomFields
<1> QED BY <1>16 DEF R, a, n, last

(* What is known of a last block that is not full.                         *)
LEMMA OpenBlock ==
    ASSUME NEW L, Safe(L), L.count > 0, SlotOf(L.count - 1) # BlockRecords
    PROVE  LET last == BlockOf(L.count - 1)
               t    == SlotOf(L.count - 1) + 1
               old  == L.heap[L.blocks[last].arr]
           IN  /\ last \in Nat \ {0} /\ last \in DOMAIN L.blocks /\ Len(L.blocks) = last
               /\ t \in 2 .. BlockRecords /\ L.blocks[last].len = t - 1
               /\ L.blocks[last] \in Header /\ L.blocks[last].arr \in Arrays
               /\ old \in Seq(Values \cup {Blank}) /\ t - 1 <= Len(old)
               /\ \A u \in 1 .. t - 1 : old[u] \in Values
               /\ \A c \in 1 .. last - 1 :
                    /\ c \in DOMAIN L.blocks /\ L.blocks[c].len = BlockRecords
                    /\ L.blocks[c].arr # L.blocks[last].arr
<1> DEFINE last == BlockOf(L.count - 1)
           t == SlotOf(L.count - 1) + 1
           old == L.heap[L.blocks[last].arr]
<1>1. /\ L.count \in Nat /\ L.count - 1 \in Nat /\ L.blocks \in Seq(Header)
      /\ L.heap \in [Arrays -> Seq(Values \cup {Blank})] /\ BlockRecords \in Nat
  BY SizesAssumption DEF Safe, Structure
<1>11. BlockOf(L.count - 1) \in Nat \ {0} /\ SlotOf(L.count - 1) \in 1 .. BlockRecords
  BY <1>1, PositionType
<1>2. last \in Nat \ {0} /\ t \in 2 .. BlockRecords
  BY <1>1, <1>11
<1>3. Len(L.blocks) = last /\ L.blocks[last].len = t - 1
  <2>1. Len(L.blocks) = last /\ L.blocks[Len(L.blocks)].len = SlotOf(L.count - 1)
    BY DEF Safe, Shaped
  <2>2. SlotOf(L.count - 1) = t - 1
    BY <1>11
  <2> QED BY <2>1, <2>2
<1> HIDE DEF last, t
<1>4. last \in DOMAIN L.blocks
  BY <1>1, <1>2, <1>3
<1>5. L.blocks[last] \in Header /\ L.blocks[last].arr \in Arrays
  BY <1>1, <1>4, HeaderType
<1>6. old \in Seq(Values \cup {Blank})
  BY <1>1, <1>5
<1>7. t - 1 <= Len(old) /\ \A u \in 1 .. t - 1 : old[u] \in Values
  BY <1>3, <1>4 DEF Safe, Filled
<1>8. \A c \in 1 .. last - 1 : c \in DOMAIN L.blocks /\ c # last
  BY <1>1, <1>2, <1>3
<1>9. \A c \in 1 .. last - 1 : L.blocks[c].len = BlockRecords
  BY <1>3 DEF Safe, Shaped
<1>10. \A c \in 1 .. last - 1 : L.blocks[c].arr # L.blocks[last].arr
  BY <1>4, <1>8 DEF Safe, Distinct
<1> QED BY <1>2, <1>3, <1>4, <1>5, <1>6, <1>7, <1>8, <1>9, <1>10 DEF last, t

(* A last block with capacity left is written in place, past the end of    *)
(* every view.                                                             *)
LEMMA RoomLeft ==
    ASSUME NEW L, Safe(L), ViewsShaped, L.count > 0, SlotOf(L.count - 1) # BlockRecords,
           L.blocks[BlockOf(L.count - 1)].len # Len(L.heap[L.blocks[BlockOf(L.count - 1)].arr])
    PROVE  RoomFields(L, Room(L), BlockOf(L.count - 1), SlotOf(L.count - 1) + 1,
                      L.blocks[BlockOf(L.count - 1)].arr)
<1> DEFINE last == BlockOf(L.count - 1)
           t == SlotOf(L.count - 1) + 1
           x == L.blocks[last].arr
           old == L.heap[x]
<1>1. /\ last \in Nat \ {0} /\ last \in DOMAIN L.blocks /\ Len(L.blocks) = last
      /\ t \in 2 .. BlockRecords /\ L.blocks[last].len = t - 1
      /\ L.blocks[last] \in Header /\ x \in Arrays
      /\ old \in Seq(Values \cup {Blank}) /\ t - 1 <= Len(old)
      /\ \A u \in 1 .. t - 1 : old[u] \in Values
      /\ \A c \in 1 .. last - 1 :
           /\ c \in DOMAIN L.blocks /\ L.blocks[c].len = BlockRecords
           /\ L.blocks[c].arr # x
  BY OpenBlock
<1>2. L.blocks[last].len # Len(old)
  OBVIOUS
<1> HIDE DEF t
<1>3. Room(L) = L
  <2>1. L.blocks[last].len # BlockRecords
    <3>1. t \in 2 .. BlockRecords /\ L.blocks[last].len = t - 1
      BY <1>1
    <3> QED BY <3>1, SizesAssumption
  <2> HIDE DEF last
  <2> QED BY <1>1, <1>2, <2>1 DEF Room
<1>4. x = L.blocks[last].arr
  OBVIOUS
<1> HIDE DEF x, last
<1>5. t <= Len(old)
  <2>1. Len(old) \in Nat
    BY <1>1
  <2> QED BY <1>1, <1>2, <2>1
<1>6. L \in OpenStructure
  <2>1. L.blocks \in Seq([arr : Arrays, len : 0 .. BlockRecords])
    BY OpenHeaders DEF Safe, Structure
  <2>2. L \in Structure
    BY DEF Safe
  <2> QED BY <2>1, <2>2 DEF Structure, OpenStructure
<1>7. Len(L.shared) <= last
  BY <1>1 DEF Safe
<1>8. ~IsShared(L, last) => \A u \in t .. Len(L.heap[x]) : L.heap[x][u] = Blank
  <2>1. (t - 1) + 1 = t
    BY <1>1
  <2>2. ~IsShared(L, last) => \A u \in (t - 1) + 1 .. Len(L.heap[x]) : L.heap[x][u] = Blank
    BY <1>1, <1>4 DEF Safe, TailsBlank
  <2> QED BY <2>1, <2>2
<1>9. \A w \in Views : \A c \in DOMAIN views[w] :
        views[w][c].arr = x => IsShared(L, last) /\ views[w][c].len <= t - 1
  BY <1>1, <1>4 DEF Safe, Marked
<1>10. RoomFields(L, L, last, t, x)
  BY <1>1, <1>4, <1>5, <1>6, <1>7, <1>8, <1>9 DEF RoomFields
<1> QED BY <1>3, <1>10 DEF x, last, t

(* A last block without capacity moves to a larger array.                  *)
LEMMA RoomGrown ==
    ASSUME NEW L, Safe(L), ViewsShaped, L.count > 0, SlotOf(L.count - 1) # BlockRecords,
           L.blocks[BlockOf(L.count - 1)].len = Len(L.heap[L.blocks[BlockOf(L.count - 1)].arr])
    PROVE  RoomFields(L, Room(L), BlockOf(L.count - 1), SlotOf(L.count - 1) + 1, Unused(L))
<1> DEFINE last == BlockOf(L.count - 1)
           t == SlotOf(L.count - 1) + 1
           old == L.heap[L.blocks[last].arr]
           a == Unused(L)
           R == Room(L)
           size == IF 2 * Len(old) < BlockRecords THEN 2 * Len(old) ELSE BlockRecords
           copy == [i \in 1 .. size |-> IF i <= Len(old) THEN old[i] ELSE Blank]
           heap == [L.heap EXCEPT ![a] = copy]
           blocks == [L.blocks EXCEPT ![last].arr = a]
           shared == [b \in DOMAIN L.shared |-> IF b = last THEN FALSE ELSE L.shared[b]]
<1>1. /\ last \in Nat \ {0} /\ last \in DOMAIN L.blocks /\ Len(L.blocks) = last
      /\ t \in 2 .. BlockRecords /\ L.blocks[last].len = t - 1
      /\ L.blocks[last] \in Header /\ L.blocks[last].arr \in Arrays
      /\ old \in Seq(Values \cup {Blank}) /\ t - 1 <= Len(old)
      /\ \A u \in 1 .. t - 1 : old[u] \in Values
      /\ \A c \in 1 .. last - 1 :
           /\ c \in DOMAIN L.blocks /\ L.blocks[c].len = BlockRecords
           /\ L.blocks[c].arr # L.blocks[last].arr
  BY OpenBlock
<1>2. L.blocks[last].len = Len(old)
  OBVIOUS
<1>3. /\ L \in Structure /\ L.blocks \in Seq(Header) /\ L.shared \in Seq(BOOLEAN)
      /\ L.heap \in [Arrays -> Seq(Values \cup {Blank})] /\ MaxCount > 0
      /\ Len(L.shared) <= Len(L.blocks)
  BY SizesAssumption DEF Safe, Structure
<1>4. a \in Arrays /\ a \notin Reached(L.blocks) \cup Held
  BY <1>3, UnusedExists
<1> HIDE DEF t
<1>5. R = [L EXCEPT !.heap = heap, !.blocks = blocks, !.shared = shared]
  <2>1. L.blocks[last].len # BlockRecords
    <3>1. t \in 2 .. BlockRecords /\ L.blocks[last].len = t - 1
      BY <1>1
    <3> QED BY <3>1, SizesAssumption
  <2> HIDE DEF last
  <2> QED BY <1>1, <1>2, <2>1 DEF Room
<1> HIDE DEF a, R
<1>6. /\ copy \in Seq(Values \cup {Blank}) /\ t <= Len(copy)
      /\ \A u \in 1 .. t - 1 : copy[u] = old[u]
      /\ \A u \in t .. Len(copy) : copy[u] = Blank
  <2>1. size \in Nat /\ t <= size /\ Len(old) = t - 1
    <3>1. t \in 2 .. BlockRecords /\ Len(old) = t - 1 /\ BlockRecords \in Nat
      BY <1>1, <1>2, SizesAssumption
    <3> HIDE DEF old
    <3> QED BY <3>1
  <2> HIDE DEF size
  <2>2. \A i \in 1 .. Len(old) : old[i] \in Values \cup {Blank}
    BY <1>1
  <2> HIDE DEF old
  <2>3. copy \in Seq(Values \cup {Blank}) /\ Len(copy) = size
    BY <2>1, <2>2, <1>1
  <2>4. \A u \in 1 .. t - 1 : u \in 1 .. size /\ u <= Len(old)
    BY <1>1, <2>1
  <2>5. \A u \in t .. size : u \in 1 .. size /\ ~(u <= Len(old))
    BY <1>1, <2>1
  <2> QED BY <2>1, <2>3, <2>4, <2>5
<1>7. old = L.heap[L.blocks[last].arr]
  OBVIOUS
<1> HIDE DEF copy, old, last
<1>8. heap \in [Arrays -> Seq(Values \cup {Blank})] /\ heap[a] = copy
      /\ \A x \in Arrays : x # a => heap[x] = L.heap[x]
  BY <1>3, <1>4, <1>6
<1>9. blocks \in Seq(Header) /\ Len(blocks) = last /\ blocks[last].arr = a /\ blocks[last].len = t - 1
      /\ \A c \in 1 .. last - 1 : blocks[c] = L.blocks[c]
  <2>1. [L.blocks[last] EXCEPT !.arr = a] = [arr |-> a, len |-> t - 1]
        /\ [L.blocks[last] EXCEPT !.arr = a] \in Header
    BY <1>1, <1>4 DEF Header
  <2>2. blocks = [L.blocks EXCEPT ![last] = [arr |-> a, len |-> t - 1]]
    BY <1>3, <2>1
  <2>3. \A c \in 1 .. last - 1 : c \in DOMAIN L.blocks /\ c # last
    BY <1>1
  <2> HIDE DEF blocks
  <2> QED BY <1>1, <1>3, <2>1, <2>2, <2>3
<1>10. shared \in Seq(BOOLEAN) /\ Len(shared) = Len(L.shared)
  <2>1. DOMAIN L.shared = 1 .. Len(L.shared) /\ Len(L.shared) \in Nat
        /\ \A b \in DOMAIN L.shared : L.shared[b] \in BOOLEAN
    BY <1>3
  <2>2. \A b \in DOMAIN L.shared : (IF b = last THEN FALSE ELSE L.shared[b]) \in BOOLEAN
    BY <2>1
  <2>3. shared \in [1 .. Len(L.shared) -> BOOLEAN]
    BY <2>1, <2>2
  <2> HIDE DEF shared
  <2> QED BY <2>1, <2>3, SeqDef
<1>11. \A b : (b \in DOMAIN shared /\ shared[b]) <=> (b # last /\ IsShared(L, b))
  BY DEF IsShared
<1> HIDE DEF heap, blocks, shared
<1>12. /\ R \in OpenStructure /\ R.heap = heap /\ R.blocks = blocks /\ R.shared = shared
       /\ R.groups = L.groups /\ R.count = L.count
  <2>1. blocks \in Seq([arr : Arrays, len : 0 .. BlockRecords])
    BY <1>9, OpenHeaders
  <2> QED BY <1>3, <1>5, <1>8, <1>10, <2>1 DEF Structure, OpenStructure
<1>13. \A c : IsShared(R, c) <=> (c # last /\ IsShared(L, c))
  BY <1>11, <1>12 DEF IsShared
<1>14. \A w \in Views : \A c \in DOMAIN views[w] : views[w][c].arr # a
  BY <1>4 DEF Held, Reached
<1>15. \A c \in 1 .. last - 1 :
         /\ c \in DOMAIN L.blocks /\ R.blocks[c] = L.blocks[c]
         /\ L.blocks[c].len = BlockRecords /\ L.blocks[c].arr # a
         /\ IsShared(R, c) <=> IsShared(L, c)
  <2>1. \A c \in 1 .. last - 1 : c # last
    BY <1>1
  <2>2. \A c \in DOMAIN L.blocks : L.blocks[c].arr # a
    BY <1>4 DEF Reached
  <2> QED BY <1>1, <1>9, <1>12, <1>13, <2>1, <2>2
<1>16. Len(L.shared) <= last /\ Len(R.shared) = Len(L.shared) /\ Len(R.blocks) = last
       /\ R.blocks[last].arr = a /\ R.blocks[last].len = t - 1
  BY <1>1, <1>3, <1>9, <1>10, <1>12
<1>17. \A x \in Arrays : x # a => R.heap[x] = L.heap[x]
  BY <1>8, <1>12
<1>18. R.heap[a] = copy
  BY <1>8, <1>12
<1>19. \A u \in 1 .. t - 1 : R.heap[a][u] = L.heap[L.blocks[last].arr][u] /\ R.heap[a][u] \in Values
  BY <1>1, <1>6, <1>7, <1>18
<1>20. t <= Len(R.heap[a]) /\ \A u \in t .. Len(R.heap[a]) : R.heap[a][u] = Blank
  BY <1>6, <1>18
<1>21. RoomFields(L, R, last, t, a)
  BY <1>1, <1>4, <1>12, <1>14, <1>15, <1>16, <1>17, <1>19, <1>20 DEF RoomFields
<1> QED BY <1>21 DEF R, a, last, t

(* In each of the four cases there is room for the next row at its place.  *)
LEMMA RoomEffect ==
    ASSUME NEW L, Safe(L), ViewsShaped, L.count < MaxCount
    PROVE  \E x : RoomFields(L, Room(L), BlockOf(L.count), SlotOf(L.count), x)
<1>1. L.count \in Nat /\ MaxCount > 0
  BY SizesAssumption DEF Safe, Structure
<1>2. CASE L.count = 0
  BY <1>1, <1>2, RoomFirst, FirstPosition
<1>3. CASE L.count > 0
  <2>1. L.count - 1 \in Nat /\ (L.count - 1) + 1 = L.count
    BY <1>1, <1>3
  <2>2. IF SlotOf(L.count - 1) = BlockRecords
        THEN BlockOf(L.count) = BlockOf(L.count - 1) + 1 /\ SlotOf(L.count) = 1
        ELSE BlockOf(L.count) = BlockOf(L.count - 1) /\ SlotOf(L.count) = SlotOf(L.count - 1) + 1
    BY <2>1, NextPosition
  <2>3. CASE SlotOf(L.count - 1) = BlockRecords
    BY <1>3, <2>2, <2>3, RoomNew
  <2>4. CASE SlotOf(L.count - 1) # BlockRecords
    BY <1>3, <2>2, <2>4, RoomGrown, RoomLeft
  <2> QED BY <2>3, <2>4
<1> QED BY <1>1, <1>2, <1>3

(* The row in its place.                                                   *)
Entered(R, n, t, x, v) ==
    [R EXCEPT !.heap[x][t] = v, !.blocks[n].len = t, !.count = @ + 1]

(* Its fields.                                                             *)
EnteredFields(R, M, n, t, x, v) ==
    /\ M \in Structure /\ M.count = R.count + 1 /\ M.groups = R.groups /\ M.shared = R.shared
    /\ Len(M.blocks) = n /\ M.blocks[n].arr = x /\ M.blocks[n].len = t
    /\ \A c \in 1 .. n - 1 : M.blocks[c] = R.blocks[c]
    /\ \A a \in Arrays : a # x => M.heap[a] = R.heap[a]
    /\ Len(M.heap[x]) = Len(R.heap[x]) /\ M.heap[x][t] = v
    /\ \A u : u # t => M.heap[x][u] = R.heap[x][u]

(* The fields of the structure once the row is in.                         *)
LEMMA AppendFields ==
    ASSUME NEW L, Safe(L), NEW R, NEW n \in Nat \ {0}, NEW t \in 1 .. BlockRecords, NEW x,
           RoomFields(L, R, n, t, x), NEW v \in Values
    PROVE  EnteredFields(R, Entered(R, n, t, x, v), n, t, x, v)
<1> DEFINE M == Entered(R, n, t, x, v)
           row == [R.heap[x] EXCEPT ![t] = v]
           heap == [R.heap EXCEPT ![x] = row]
           blocks == [R.blocks EXCEPT ![n].len = t]
<1>1. /\ R \in OpenStructure /\ x \in Arrays /\ t <= Len(R.heap[x])
      /\ Len(R.blocks) = n /\ R.blocks[n].arr = x
      /\ \A c \in 1 .. n - 1 : c \in DOMAIN L.blocks /\ R.blocks[c] = L.blocks[c]
  BY DEF RoomFields
<1>2. /\ R.heap \in [Arrays -> Seq(Values \cup {Blank})]
      /\ R.blocks \in Seq([arr : Arrays, len : 0 .. BlockRecords])
      /\ R.shared \in Seq(BOOLEAN) /\ R.groups \in Seq(Aggregate) /\ R.count \in Nat
  BY <1>1 DEF OpenStructure
<1>3. R.heap[x] \in Seq(Values \cup {Blank}) /\ t \in DOMAIN R.heap[x] /\ v \in Values \cup {Blank}
  BY <1>1, <1>2
<1>4. row \in Seq(Values \cup {Blank}) /\ Len(row) = Len(R.heap[x]) /\ row[t] = v
  BY <1>3, ExceptEntry
<1>5. \A u : u # t => row[u] = R.heap[x][u]
  BY <1>3
<1>6. M = [R EXCEPT !.heap = heap, !.blocks = blocks, !.count = R.count + 1]
  BY <1>1, <1>2 DEF OpenStructure, Entered
<1> HIDE DEF row, M
<1>7. heap \in [Arrays -> Seq(Values \cup {Blank})] /\ heap[x] = row
      /\ \A a \in Arrays : a # x => heap[a] = R.heap[a]
  BY <1>1, <1>2, <1>4
<1>8. n \in DOMAIN R.blocks
      /\ DOMAIN blocks = 1 .. n /\ \A c \in 1 .. n : blocks[c] = IF c = n THEN [arr |-> x, len |-> t] ELSE R.blocks[c]
  <2>1. n \in DOMAIN R.blocks /\ DOMAIN R.blocks = 1 .. n
    BY <1>1, <1>2
  <2>2. R.blocks[n] \in [arr : Arrays, len : 0 .. BlockRecords]
    <3> DEFINE open == [arr : Arrays, len : 0 .. BlockRecords]
    <3>1. R.blocks \in Seq(open)
      BY <1>2
    <3> HIDE DEF open, blocks
    <3>2. R.blocks[n] \in open
      BY <2>1, <3>1
    <3> QED BY <3>2 DEF open
  <2>3. [R.blocks[n] EXCEPT !.len = t] = [arr |-> x, len |-> t]
    BY <1>1, <2>2
  <2>4. blocks = [R.blocks EXCEPT ![n] = [arr |-> x, len |-> t]]
    BY <2>1, <2>3
  <2> HIDE DEF blocks
  <2> QED BY <1>2, <2>1, <2>4
<1>9. blocks = [c \in 1 .. n |-> blocks[c]]
  BY <1>2, <1>8
<1> HIDE DEF heap, blocks
<1>10. blocks \in Seq(Header) /\ Len(blocks) = n
  <2>1. [arr |-> x, len |-> t] \in Header
    BY <1>1 DEF Header
  <2>2. \A c \in 1 .. n - 1 : R.blocks[c] \in Header
    BY <1>1, HeaderType DEF Safe, Structure
  <2>3. \A c \in 1 .. n : blocks[c] \in Header
    <3> SUFFICES ASSUME NEW c \in 1 .. n PROVE blocks[c] \in Header
      OBVIOUS
    <3>1. CASE c = n
      BY <1>8, <2>1, <3>1
    <3>2. CASE c # n
      <4>1. c \in 1 .. n - 1
        BY <3>2
      <4> QED BY <1>8, <2>2, <3>2, <4>1
    <3> QED BY <3>1, <3>2
  <2>4. blocks \in [1 .. n -> Header]
    BY <1>9, <2>3
  <2> QED BY <2>4, SeqDef
<1>11. /\ M \in Structure /\ M.heap = heap /\ M.blocks = blocks /\ M.shared = R.shared
       /\ M.groups = R.groups /\ M.count = R.count + 1
  <2>1. R = [heap |-> R.heap, blocks |-> R.blocks, shared |-> R.shared,
             groups |-> R.groups, count |-> R.count]
    BY <1>1 DEF OpenStructure
  <2>2. M = [heap |-> heap, blocks |-> blocks, shared |-> R.shared,
             groups |-> R.groups, count |-> R.count + 1]
    BY <1>6, <2>1
  <2>3. R.count + 1 \in Nat
    BY <1>2
  <2> QED BY <1>2, <1>7, <1>10, <2>2, <2>3 DEF Structure
<1>12. M.blocks[n].arr = x /\ M.blocks[n].len = t
  BY <1>8, <1>11
<1>13. \A c \in 1 .. n - 1 : M.blocks[c] = R.blocks[c]
  BY <1>8, <1>11
<1> QED BY <1>4, <1>5, <1>7, <1>10, <1>11, <1>12, <1>13 DEF EnteredFields, M

(* What an append does to the rows and the aggregates.                     *)
Appended(L, M, v) ==
    /\ M.count = L.count + 1
    /\ DOMAIN M.groups = DOMAIN L.groups
    /\ \A h \in DOMAIN L.groups :
         M.groups[h] = IF h = GroupOf(L.count) THEN NoAggregate ELSE L.groups[h]
    /\ \A k \in 0 .. L.count : At(M, k) = IF k = L.count THEN v ELSE At(L, k)
    /\ SameFrozen(L, M)

(* Entering the row keeps the invariant, the earlier rows and the frozen   *)
(* views, which end before it.                                             *)
LEMMA EnteredSafe ==
    ASSUME NEW L, Safe(L), ViewsShaped, L.count < MaxCount, NEW R, NEW n \in Nat, NEW t \in Nat,
           n = BlockOf(L.count), t = SlotOf(L.count), NEW x,
           RoomFields(L, R, n, t, x), NEW v \in Values, NEW M, EnteredFields(R, M, n, t, x, v)
    PROVE  Safe(M) /\ SameFrozen(L, M) /\ \A k \in 0 .. L.count : At(M, k) = IF k = L.count THEN v ELSE At(L, k)
<1>1. /\ L.count \in Nat /\ n \in Nat \ {0} /\ t \in 1 .. BlockRecords /\ L.blocks \in Seq(Header)
      /\ L.shared \in Seq(BOOLEAN) /\ x \in Arrays /\ t <= Len(M.heap[x]) /\ M.count = L.count + 1
  <2>1. L.count \in Nat /\ L.blocks \in Seq(Header) /\ L.shared \in Seq(BOOLEAN)
    BY DEF Safe, Structure
  <2>2. n \in Nat \ {0} /\ t \in 1 .. BlockRecords
    BY <2>1, PositionType
  <2>3. x \in Arrays /\ t <= Len(R.heap[x]) /\ R.count = L.count
    BY DEF RoomFields
  <2>4. M.count = R.count + 1 /\ Len(M.heap[x]) = Len(R.heap[x])
    BY DEF EnteredFields
  <2> QED BY <2>1, <2>2, <2>3, <2>4
<1>2. M.blocks \in Seq(Header) /\ DOMAIN M.blocks = 1 .. n /\ M.blocks[n].arr = x /\ M.blocks[n].len = t
      /\ Len(M.blocks) = n /\ M \in Structure
  BY DEF EnteredFields, Structure
<1>3. \A c \in 1 .. n - 1 :
        /\ c \in DOMAIN L.blocks /\ M.blocks[c] = L.blocks[c] /\ L.blocks[c].len = BlockRecords
        /\ L.blocks[c].arr \in Arrays /\ L.blocks[c].arr # x
        /\ M.heap[L.blocks[c].arr] = L.heap[L.blocks[c].arr]
        /\ IsShared(M, c) <=> IsShared(L, c)
  <2>1. \A c \in 1 .. n - 1 :
        /\ c \in DOMAIN L.blocks /\ M.blocks[c] = L.blocks[c] /\ L.blocks[c].len = BlockRecords
        /\ L.blocks[c].arr # x /\ (IsShared(R, c) <=> IsShared(L, c))
    BY DEF RoomFields, EnteredFields
  <2>2. \A c \in 1 .. n - 1 : L.blocks[c].arr \in Arrays
    BY <1>1, <2>1, HeaderType
  <2>3. \A a \in Arrays : a # x => M.heap[a] = L.heap[a]
    BY DEF RoomFields, EnteredFields
  <2>4. \A c : IsShared(M, c) <=> IsShared(R, c)
    BY DEF IsShared, EnteredFields
  <2> QED BY <2>1, <2>2, <2>3, <2>4
<1>4. IsShared(M, n) <=> IsShared(R, n)
  BY DEF IsShared, EnteredFields
<1>5. \A u \in 1 .. t - 1 : M.heap[x][u] = L.heap[L.blocks[n].arr][u] /\ M.heap[x][u] \in Values
  <2>1. \A u \in 1 .. t - 1 : R.heap[x][u] = L.heap[L.blocks[n].arr][u] /\ R.heap[x][u] \in Values /\ u # t
    BY <1>1 DEF RoomFields
  <2> QED BY <2>1 DEF EnteredFields
<1>6. ~IsShared(M, n) => \A u \in t + 1 .. Len(M.heap[x]) : M.heap[x][u] = Blank
  <2> SUFFICES ASSUME ~IsShared(M, n), NEW u \in t + 1 .. Len(M.heap[x])
               PROVE  M.heap[x][u] = Blank
    OBVIOUS
  <2>1. u # t /\ u \in t .. Len(R.heap[x])
    BY <1>1 DEF EnteredFields
  <2> QED BY <1>4, <2>1 DEF EnteredFields, RoomFields
<1>7. M.heap[x][t] = v
  BY DEF EnteredFields
<1>8. \A c \in 1 .. n : c = n \/ c \in 1 .. n - 1
  BY <1>1
<1>9. \A w \in Views : \A c \in DOMAIN views[w] :
        views[w][c].arr = x => IsShared(M, n) /\ views[w][c].len <= t - 1
  BY <1>4 DEF RoomFields
<1>10. \A w \in Views : \A c \in DOMAIN views[w] :
        /\ views[w][c].arr \in Arrays /\ views[w][c].len \in 1 .. BlockRecords
        /\ views[w][c].arr \in Held
  <2>1. \A w \in Views : \A c \in DOMAIN views[w] :
           views[w][c].arr \in Arrays /\ views[w][c].len \in 1 .. BlockRecords
    BY HeaderType DEF ViewsShaped
  <2> QED BY <2>1 DEF Held, Reached
<1>11. Shaped(M.blocks, M.count)
  <2>1. M.count > 0 /\ M.count - 1 = L.count
    BY <1>1
  <2> QED BY <1>1, <1>2, <1>3, <2>1 DEF Shaped
<1>12. Filled(M)
  <2> SUFFICES ASSUME NEW c \in 1 .. n
               PROVE  /\ M.blocks[c].len <= Len(M.heap[M.blocks[c].arr])
                      /\ \A s \in 1 .. M.blocks[c].len : M.heap[M.blocks[c].arr][s] \in Values
    BY <1>2 DEF Filled
  <2>1. CASE c = n
    <3>1. \A s \in 1 .. t : s = t \/ s \in 1 .. t - 1
      BY <1>1
    <3>2. \A s \in 1 .. t : M.heap[x][s] \in Values
      BY <1>5, <1>7, <3>1
    <3>3. M.blocks[c].arr = x /\ M.blocks[c].len = t /\ t <= Len(M.heap[x])
      BY <1>1, <1>2, <2>1
    <3> QED BY <3>2, <3>3
  <2>2. CASE c # n
    <3>1. /\ c \in DOMAIN L.blocks /\ M.blocks[c] = L.blocks[c]
          /\ M.heap[L.blocks[c].arr] = L.heap[L.blocks[c].arr]
      BY <1>3, <1>8, <2>2
    <3>2. /\ L.blocks[c].len <= Len(L.heap[L.blocks[c].arr])
          /\ \A s \in 1 .. L.blocks[c].len : L.heap[L.blocks[c].arr][s] \in Values
      BY <3>1 DEF Safe, Filled
    <3> QED BY <3>1, <3>2
  <2> QED BY <2>1, <2>2
<1>13. TailsBlank(M)
  <2> SUFFICES ASSUME NEW c \in 1 .. n, ~IsShared(M, c)
               PROVE  \A s \in M.blocks[c].len + 1 .. Len(M.heap[M.blocks[c].arr]) :
                        M.heap[M.blocks[c].arr][s] = Blank
    BY <1>2 DEF TailsBlank
  <2>1. CASE c = n
    BY <1>2, <1>6, <2>1
  <2>2. CASE c # n
    <3>1. /\ c \in DOMAIN L.blocks /\ ~IsShared(L, c) /\ M.blocks[c] = L.blocks[c]
          /\ M.heap[L.blocks[c].arr] = L.heap[L.blocks[c].arr]
      BY <1>3, <1>8, <2>2
    <3>2. \A s \in L.blocks[c].len + 1 .. Len(L.heap[L.blocks[c].arr]) :
            L.heap[L.blocks[c].arr][s] = Blank
      BY <3>1 DEF Safe, TailsBlank
    <3> QED BY <3>1, <3>2
  <2> QED BY <2>1, <2>2
<1>14. Distinct(M)
  <2>1. \A c, d \in 1 .. n - 1 : c # d => M.blocks[c].arr # M.blocks[d].arr
    <3> TAKE c, d \in 1 .. n - 1
    <3>1. /\ c \in DOMAIN L.blocks /\ M.blocks[c] = L.blocks[c]
          /\ d \in DOMAIN L.blocks /\ M.blocks[d] = L.blocks[d]
      BY <1>3
    <3>2. c # d => L.blocks[c].arr # L.blocks[d].arr
      BY <3>1 DEF Safe, Distinct
    <3> QED BY <3>1, <3>2
  <2>2. \A c \in 1 .. n - 1 : M.blocks[c].arr # x
    BY <1>3
  <2> QED BY <1>2, <1>8, <2>1, <2>2 DEF Distinct
<1>15. Marked(M)
  <2> SUFFICES ASSUME NEW w \in Views, NEW c \in DOMAIN views[w], NEW d \in 1 .. n,
                      views[w][c].arr = M.blocks[d].arr
               PROVE  IsShared(M, d) /\ views[w][c].len <= M.blocks[d].len
    BY <1>2 DEF Marked
  <2>1. CASE d = n
    <3>1. IsShared(M, n) /\ views[w][c].len <= t - 1
      BY <1>2, <1>9, <2>1
    <3>2. views[w][c].len <= t
      BY <1>1, <1>10, <3>1
    <3> QED BY <1>2, <2>1, <3>1, <3>2
  <2>2. CASE d # n
    BY <1>3, <1>8, <2>2 DEF Safe, Marked
  <2> QED BY <2>1, <2>2
<1>16. Safe(M)
  <2>1. Len(M.shared) <= Len(M.blocks)
    BY <1>2 DEF RoomFields, EnteredFields
  <2>2. M.count <= MaxCount
    BY <1>1, SizesAssumption
  <2> QED BY <1>2, <1>11, <1>12, <1>13, <1>14, <1>15, <2>1, <2>2 DEF Safe
<1>17. SameFrozen(L, M)
  <2> SUFFICES ASSUME NEW w \in Views, NEW c \in DOMAIN views[w], NEW s \in 1 .. views[w][c].len
               PROVE  M.heap[views[w][c].arr][s] = L.heap[views[w][c].arr][s]
    BY DEF SameFrozen
  <2>1. CASE views[w][c].arr = x
    <3>1. s # t
      BY <1>1, <1>9, <1>10, <2>1
    <3> QED BY <1>10, <2>1, <3>1 DEF RoomFields, EnteredFields
  <2>2. CASE views[w][c].arr # x
    BY <1>10, <2>2 DEF RoomFields, EnteredFields
  <2> QED BY <2>1, <2>2
<1>18. ASSUME NEW k \in 0 .. L.count
       PROVE  At(M, k) = IF k = L.count THEN v ELSE At(L, k)
  <2>1. CASE k = L.count
    BY <1>2, <1>7, <2>1 DEF At
  <2>2. CASE k # L.count
    <3>1. k \in Nat /\ k < L.count
      BY <1>1, <2>2
    <3>2. BlockOf(k) < n \/ (BlockOf(k) = n /\ SlotOf(k) < t)
      BY <1>1, <3>1, PositionOrder
    <3>3. BlockOf(k) \in Nat \ {0} /\ SlotOf(k) \in 1 .. BlockRecords
      BY <3>1, PositionType
    <3>4. CASE BlockOf(k) < n
      <4>1. BlockOf(k) \in 1 .. n - 1
        BY <1>1, <3>3, <3>4
      <4> QED BY <1>3, <2>2, <4>1 DEF At
    <3>5. CASE BlockOf(k) = n /\ SlotOf(k) < t
      <4>1. SlotOf(k) \in 1 .. t - 1
        BY <1>1, <3>3, <3>5
      <4> QED BY <1>2, <1>5, <2>2, <3>5, <4>1 DEF At
    <3> QED BY <3>2, <3>4, <3>5
  <2> QED BY <2>1, <2>2
<1> QED BY <1>16, <1>17, <1>18

(* Appending a row (archiveDetail) keeps the invariant and adds that row   *)
(* at the end.                                                             *)
LEMMA AppendEffect ==
    ASSUME NEW L, Safe(L), ViewsShaped, L.count < MaxCount, NEW v \in Values
    PROVE  Safe(AppendRow(L, v)) /\ Appended(L, AppendRow(L, v), v)
<1> DEFINE I == Invalidate(L, GroupOf(L.count))
           n == BlockOf(L.count)
           t == SlotOf(L.count)
           R == Room(I)
           M == AppendRow(L, v)
<1>1. /\ I \in Structure /\ I.heap = L.heap /\ I.blocks = L.blocks
      /\ I.shared = L.shared /\ I.count = L.count
      /\ DOMAIN I.groups = DOMAIN L.groups
      /\ \A h \in DOMAIN L.groups :
           I.groups[h] = IF h = GroupOf(L.count) THEN NoAggregate ELSE L.groups[h]
  BY InvalidateFields DEF Safe
<1> HIDE DEF I
<1>2. Safe(I) /\ I.count < MaxCount
  BY <1>1, SafeFields
<1>3. PICK x : RoomFields(I, R, n, t, x)
  BY <1>1, <1>2, RoomEffect
<1>4. n \in Nat \ {0} /\ t \in 1 .. BlockRecords /\ t \in Nat
  BY PositionType DEF Safe, Structure
<1>5. M = Entered(R, n, t, x, v)
  <2>1. Len(R.blocks) = n /\ R.blocks[n].arr = x /\ R.blocks[n].len = t - 1
    BY <1>3 DEF RoomFields
  <2> HIDE DEF n, t
  <2>2. R.blocks[n].len + 1 = t
    BY <1>4, <2>1
  <2> HIDE DEF R
  <2> QED BY <2>1, <2>2 DEF AppendRow, Entered, R, I
<1> HIDE DEF R, M
<1>6. EnteredFields(R, M, n, t, x, v)
  BY <1>2, <1>3, <1>4, <1>5, AppendFields
<1>7. n = BlockOf(I.count) /\ t = SlotOf(I.count)
  BY <1>1
<1> HIDE DEF n, t
<1>8. Safe(M) /\ SameFrozen(I, M) /\ \A k \in 0 .. I.count : At(M, k) = IF k = I.count THEN v ELSE At(I, k)
  BY <1>2, <1>3, <1>4, <1>6, <1>7, EnteredSafe
<1>9. M.count = L.count + 1 /\ M.groups = I.groups
  BY <1>1, <1>3, <1>6 DEF RoomFields, EnteredFields
<1>10. SameFrozen(L, M) /\ \A k : At(I, k) = At(L, k)
  BY <1>1, <1>8 DEF SameFrozen, At
<1> QED BY <1>1, <1>8, <1>9, <1>10 DEF Appended, M

-----------------------------------------------------------------------------
(* The rows in order.                                                      *)

(* The contents of a safe structure are its rows in order.                 *)
LEMMA ContentsOf ==
    ASSUME NEW L, Safe(L)
    PROVE  /\ Contents(L) = [i \in 1 .. L.count |-> At(L, i - 1)]
           /\ L.count \in Nat
           /\ \A k \in 0 .. L.count - 1 : At(L, k) \in Values
<1>1. L.count \in Nat /\ Shaped(L.blocks, L.count)
  BY DEF Safe, Structure
<1>2. Contents(L) = [i \in 1 .. L.count |-> At(L, i - 1)]
  <2>1. Rows(L.heap, L.blocks) = RowsAt(L.heap, L.blocks, L.count)
    BY <1>1, RowsOfShaped
  <2> QED BY <2>1 DEF Contents, At, RowsAt
<1>3. ASSUME NEW k \in 0 .. L.count - 1 PROVE At(L, k) \in Values
  <2>1. BlockOf(k) \in DOMAIN L.blocks /\ SlotOf(k) \in 1 .. L.blocks[BlockOf(k)].len
    BY <1>1, RowPosition
  <2> QED BY <2>1 DEF Safe, Filled, At
<1> QED BY <1>1, <1>2, <1>3

(* They are a sequence of values, as long as the count.                    *)
LEMMA ContentsType ==
    ASSUME NEW L, Safe(L)
    PROVE  /\ Contents(L) \in Seq(Values) /\ Len(Contents(L)) = L.count
           /\ \A i \in 1 .. L.count : Contents(L)[i] = At(L, i - 1)
<1>1. \A i \in 1 .. L.count : i - 1 \in 0 .. L.count - 1
  BY ContentsOf
<1>2. \A i \in 1 .. L.count : At(L, i - 1) \in Values
  BY <1>1, ContentsOf
<1>3. L.count \in Nat /\ Contents(L) = [i \in 1 .. L.count |-> At(L, i - 1)]
  BY ContentsOf
<1>4. Contents(L) \in [1 .. L.count -> Values]
  BY <1>2, <1>3
<1>5. Contents(L) \in Seq(Values)
  BY <1>3, <1>4, SeqDef
<1> QED BY <1>3, <1>4, <1>5

(* Two changes that leave the frozen rows alone leave them alone together. *)
LEMMA FrozenAgain ==
    ASSUME NEW L, NEW S, NEW M, SameFrozen(L, S), SameFrozen(S, M)
    PROVE  SameFrozen(L, M)
BY DEF SameFrozen

-----------------------------------------------------------------------------
(* The aggregates.                                                         *)

(* An aggregate in use is the one of the rows its group has.               *)
Current(L) ==
    \A g \in DOMAIN L.groups : L.groups[g].valid =>
        /\ (g - 1) * GroupRecords < L.count
        /\ L.groups[g].end = GroupEnd(L, g)
        /\ L.groups[g].rows = GroupRows(L, g)

(* Where a row is in relation to the span of a group.                      *)
LEMMA GroupSpan ==
    ASSUME NEW k \in Nat, NEW g \in Nat \ {0}
    PROVE  /\ g = GroupOf(k) => (g - 1) * GroupRecords <= k /\ k < g * GroupRecords
           /\ g < GroupOf(k) => g * GroupRecords <= k
           /\ g > GroupOf(k) => k < (g - 1) * GroupRecords
           /\ g * GroupRecords \in Nat /\ (g - 1) * GroupRecords \in Nat
           /\ (g - 1) * GroupRecords < g * GroupRecords
<1> DEFINE q == GroupOf(k) - 1
           r == k % GroupRecords
<1>1. /\ q \in Nat /\ r \in 0 .. GroupRecords - 1 /\ k = q * GroupRecords + r
      /\ GroupOf(k) = q + 1 /\ GroupRecords \in Nat \ {0}
  BY SizesAssumption DEF GroupOf
<1> HIDE DEF q, r
<1>2. /\ q * GroupRecords \in Nat /\ g * GroupRecords \in Nat /\ (g - 1) * GroupRecords \in Nat
      /\ g * GroupRecords = (g - 1) * GroupRecords + GroupRecords
  BY <1>1
<1>3. g = q + 1 => (g - 1) * GroupRecords = q * GroupRecords
  BY <1>1
<1>4. q > g - 1 => q * GroupRecords >= (g - 1) * GroupRecords + GroupRecords
  BY <1>1, MoreSteps
<1>5. g - 1 > q => (g - 1) * GroupRecords >= q * GroupRecords + GroupRecords
  BY <1>1, MoreSteps
<1> QED BY <1>1, <1>2, <1>3, <1>4, <1>5

(* A group whose rows did not change has the same aggregate.               *)
LEMMA SameGroup ==
    ASSUME NEW L, Safe(L), NEW M, Safe(M), NEW g \in Nat \ {0},
           GroupEnd(M, g) = GroupEnd(L, g),
           \A k \in (g - 1) * GroupRecords .. GroupEnd(L, g) - 1 : At(M, k) = At(L, k)
    PROVE  GroupRows(M, g) = GroupRows(L, g)
<1> DEFINE p == (g - 1) * GroupRecords
           e == GroupEnd(L, g)
           s == Contents(L)
           t == Contents(M)
<1>1. L.count \in Nat /\ M.count \in Nat
  BY ContentsOf
<1>2. p \in Nat /\ g * GroupRecords \in Nat /\ GroupRecords \in Nat
  BY SizesAssumption
<1>3. e \in Nat /\ e <= L.count /\ e <= M.count
  <2> HIDE DEF p
  <2> QED BY <1>1, <1>2 DEF GroupEnd
<1> HIDE DEF p, e
<1>4. \A i \in p + 1 .. e : i \in 1 .. L.count /\ i \in 1 .. M.count /\ i - 1 \in p .. e - 1
  BY <1>1, <1>2, <1>3
<1>5. \A i \in p + 1 .. e : s[i] = At(L, i - 1) /\ t[i] = At(M, i - 1)
  BY <1>4, ContentsType
<1>6. \A i \in p + 1 .. e : s[i] \in Values /\ t[i] \in Values
  <2>1. s \in Seq(Values) /\ t \in Seq(Values) /\ Len(s) = L.count /\ Len(t) = M.count
    BY ContentsType
  <2> HIDE DEF s, t
  <2> QED BY <1>4, <2>1
<1>7. \A i \in p + 1 .. e : s[i] = t[i]
  BY <1>4, <1>5 DEF p, e
<1> HIDE DEF s, t
<1>8. SubSeq(s, p + 1, e) = SubSeq(t, p + 1, e)
  <2>1. /\ SubSeq(s, p + 1, e) \in Seq(Values) /\ SubSeq(t, p + 1, e) \in Seq(Values)
        /\ Len(SubSeq(s, p + 1, e)) = Len(SubSeq(t, p + 1, e))
        /\ Len(SubSeq(s, p + 1, e)) = IF p + 1 <= e THEN e - (p + 1) + 1 ELSE 0
        /\ \A i \in 1 .. e - (p + 1) + 1 : SubSeq(s, p + 1, e)[i] = s[p + 1 + i - 1]
        /\ \A i \in 1 .. e - (p + 1) + 1 : SubSeq(t, p + 1, e)[i] = t[p + 1 + i - 1]
    <3>1. p + 1 \in Int /\ e \in Int
      BY <1>2, <1>3
    <3> QED BY <1>6, <3>1, SubSeqProperties
  <2>2. \A i \in 1 .. Len(SubSeq(s, p + 1, e)) : i \in 1 .. e - (p + 1) + 1 /\ p + 1 + i - 1 \in p + 1 .. e
    BY <1>2, <1>3, <2>1
  <2>3. \A i \in 1 .. Len(SubSeq(s, p + 1, e)) : SubSeq(s, p + 1, e)[i] = SubSeq(t, p + 1, e)[i]
    BY <1>7, <2>1, <2>2
  <2> QED BY <2>1, <2>3, SeqEqual
<1> QED BY <1>8 DEF GroupRows, p, e, s, t

(* Rewriting a row invalidates the only aggregate that read it.            *)
LEMMA PutCurrent ==
    ASSUME NEW L, Safe(L), Current(L), NEW i \in 0 .. L.count - 1, NEW v,
           NEW M, Safe(M), Rewrote(L, M, i, v)
    PROVE  Current(M)
<1> SUFFICES ASSUME NEW g \in DOMAIN M.groups, M.groups[g].valid
             PROVE  /\ (g - 1) * GroupRecords < M.count
                    /\ M.groups[g].end = GroupEnd(M, g)
                    /\ M.groups[g].rows = GroupRows(M, g)
  BY DEF Current
<1>1. /\ L.count \in Nat /\ M.count = L.count /\ i \in Nat /\ g \in DOMAIN L.groups
      /\ g \in Nat \ {0}
  <2>1. L.groups \in Seq(Aggregate)
    BY DEF Safe, Structure
  <2> QED BY <2>1 DEF Rewrote, Safe, Structure
<1>2. g # GroupOf(i) /\ M.groups[g] = L.groups[g]
  BY <1>1 DEF Rewrote, NoAggregate
<1>3. /\ (g - 1) * GroupRecords < L.count /\ L.groups[g].end = GroupEnd(L, g)
      /\ L.groups[g].rows = GroupRows(L, g)
  BY <1>1, <1>2 DEF Current
<1>4. GroupEnd(M, g) = GroupEnd(L, g)
  BY <1>1 DEF GroupEnd
<1>5. \A k \in (g - 1) * GroupRecords .. GroupEnd(L, g) - 1 : At(M, k) = At(L, k)
  <2>1. \A k \in (g - 1) * GroupRecords .. GroupEnd(L, g) - 1 : k \in 0 .. L.count - 1 /\ k # i
    <3>1. (g - 1) * GroupRecords \in Nat /\ g * GroupRecords \in Nat
          /\ GroupOf(i) \in Nat
          /\ (g < GroupOf(i) => g * GroupRecords <= i) /\ (g > GroupOf(i) => i < (g - 1) * GroupRecords)
      BY <1>1, GroupSpan, GroupType
    <3>2. GroupEnd(L, g) \in Nat /\ GroupEnd(L, g) <= L.count /\ GroupEnd(L, g) <= g * GroupRecords
      BY <1>1, <3>1 DEF GroupEnd
    <3>3. i < (g - 1) * GroupRecords \/ g * GroupRecords <= i
      BY <1>1, <1>2, <3>1
    <3> QED BY <1>1, <3>1, <3>2, <3>3
  <2> QED BY <2>1 DEF Rewrote
<1> QED BY <1>1, <1>2, <1>3, <1>4, <1>5, SameGroup

(* Appending a row changes the end of the last group, and no other         *)
(* aggregate.                                                              *)
LEMMA AppendCurrent ==
    ASSUME NEW L, Safe(L), Current(L), NEW v, NEW M, Safe(M), Appended(L, M, v)
    PROVE  Current(M)
<1> SUFFICES ASSUME NEW g \in DOMAIN M.groups, M.groups[g].valid
             PROVE  /\ (g - 1) * GroupRecords < M.count
                    /\ M.groups[g].end = GroupEnd(M, g)
                    /\ M.groups[g].rows = GroupRows(M, g)
  BY DEF Current
<1>1. /\ L.count \in Nat /\ M.count = L.count + 1 /\ g \in DOMAIN L.groups
      /\ g \in Nat \ {0}
  <2>1. L.groups \in Seq(Aggregate)
    BY DEF Safe, Structure
  <2> QED BY <2>1 DEF Appended, Safe, Structure
<1>2. g # GroupOf(L.count) /\ M.groups[g] = L.groups[g]
  BY <1>1 DEF Appended, NoAggregate
<1>3. /\ (g - 1) * GroupRecords < L.count /\ L.groups[g].end = GroupEnd(L, g)
      /\ L.groups[g].rows = GroupRows(L, g)
  BY <1>1, <1>2 DEF Current
<1>4. (g - 1) * GroupRecords \in Nat /\ g * GroupRecords \in Nat /\ g * GroupRecords <= L.count
  <2>1. (g - 1) * GroupRecords \in Nat /\ g * GroupRecords \in Nat
        /\ GroupOf(L.count) \in Nat
        /\ (g < GroupOf(L.count) => g * GroupRecords <= L.count)
        /\ (g > GroupOf(L.count) => L.count < (g - 1) * GroupRecords)
    BY <1>1, GroupSpan, GroupType
  <2> QED BY <1>1, <1>2, <1>3, <2>1
<1>5. GroupEnd(M, g) = GroupEnd(L, g) /\ GroupEnd(L, g) = g * GroupRecords
  BY <1>1, <1>4 DEF GroupEnd
<1>6. \A k \in (g - 1) * GroupRecords .. GroupEnd(L, g) - 1 : At(M, k) = At(L, k)
  <2>1. \A k \in (g - 1) * GroupRecords .. GroupEnd(L, g) - 1 : k \in 0 .. L.count /\ k # L.count
    BY <1>1, <1>4, <1>5
  <2> QED BY <2>1 DEF Appended
<1>7. (g - 1) * GroupRecords < M.count
  BY <1>1, <1>3, <1>4
<1> QED BY <1>1, <1>2, <1>3, <1>5, <1>6, <1>7, SameGroup

(* Truncation invalidates every aggregate that read a dropped row.         *)
LEMMA TruncateCurrent ==
    ASSUME NEW L, Safe(L), Current(L), NEW n \in 0 .. L.count,
           NEW M, Safe(M), Shortened(L, M, n)
    PROVE  Current(M)
<1> SUFFICES ASSUME NEW g \in DOMAIN M.groups, M.groups[g].valid
             PROVE  /\ (g - 1) * GroupRecords < M.count
                    /\ M.groups[g].end = GroupEnd(M, g)
                    /\ M.groups[g].rows = GroupRows(M, g)
  BY DEF Current
<1>1. /\ L.count \in Nat /\ M.count = n /\ n \in Nat /\ n <= L.count /\ g \in DOMAIN L.groups
      /\ g \in Nat \ {0}
  <2>1. L.groups \in Seq(Aggregate) /\ L.count \in Nat
    BY DEF Safe, Structure
  <2> QED BY <2>1 DEF Shortened
<1>2. g < GroupOf(n) /\ M.groups[g] = L.groups[g]
  <2>1. GroupOf(n) \in Nat
    BY <1>1, GroupType
  <2> QED BY <1>1, <2>1 DEF Shortened, NoAggregate
<1>3. L.groups[g].end = GroupEnd(L, g) /\ L.groups[g].rows = GroupRows(L, g)
  BY <1>1, <1>2 DEF Current
<1>4. /\ (g - 1) * GroupRecords \in Nat /\ g * GroupRecords \in Nat /\ g * GroupRecords <= n
      /\ (g - 1) * GroupRecords < g * GroupRecords
  BY <1>1, <1>2, GroupSpan
<1>5. GroupEnd(M, g) = g * GroupRecords /\ GroupEnd(L, g) = g * GroupRecords
  BY <1>1, <1>4 DEF GroupEnd
<1>6. \A k \in (g - 1) * GroupRecords .. GroupEnd(L, g) - 1 : At(M, k) = At(L, k)
  <2>1. \A k \in (g - 1) * GroupRecords .. GroupEnd(L, g) - 1 : k \in 0 .. n - 1
    BY <1>1, <1>4, <1>5
  <2> QED BY <2>1 DEF Shortened
<1>7. (g - 1) * GroupRecords < M.count
  BY <1>1, <1>4
<1> QED BY <1>1, <1>2, <1>3, <1>5, <1>6, <1>7, SameGroup

-----------------------------------------------------------------------------
(* Removing a row: the later ones move up by one.                          *)

(* f is the rounds of the removal of row i, N of them.                     *)
ShiftRounds(L, i, N, f) ==
    f = [n \in 0 .. N |-> IF n = 0 THEN L ELSE Shift(f[n - 1], i + n)]

(* The rounds of the removal are a function of their number.               *)
LEMMA ShiftedExists ==
    ASSUME NEW L, NEW i, NEW N \in Nat
    PROVE  \E f : ShiftRounds(L, i, N, f)
<1> DEFINE T == {m \in Nat : \E f : f = [n \in 0 .. m |-> IF n = 0 THEN L ELSE Shift(f[n - 1], i + n)]}
<1>1. 0 \in T
  <2> DEFINE f == [n \in 0 .. 0 |-> L]
  <2>1. f = [n \in 0 .. 0 |-> IF n = 0 THEN L ELSE Shift(f[n - 1], i + n)]
    OBVIOUS
  <2> QED BY <2>1
<1>2. ASSUME NEW m \in 0 .. N - 1, m \in T PROVE m + 1 \in T
  <2>1. PICK f : f = [n \in 0 .. m |-> IF n = 0 THEN L ELSE Shift(f[n - 1], i + n)]
    BY <1>2
  <2> DEFINE g == [n \in 0 .. m + 1 |-> IF n = m + 1 THEN Shift(f[m], i + (m + 1)) ELSE f[n]]
  <2>2. \A n \in 0 .. m + 1 : g[n] = IF n = 0 THEN L ELSE Shift(g[n - 1], i + n)
    <3> SUFFICES ASSUME NEW n \in 0 .. m + 1
                 PROVE  g[n] = IF n = 0 THEN L ELSE Shift(g[n - 1], i + n)
      OBVIOUS
    <3>1. CASE n = 0
      BY <2>1, <3>1
    <3>2. CASE n \in 1 .. m
      <4>1. f[n] = Shift(f[n - 1], i + n)
        BY <2>1, <3>2
      <4>2. g[n] = f[n] /\ g[n - 1] = f[n - 1]
        BY <3>2
      <4> HIDE DEF g
      <4> QED BY <3>2, <4>1, <4>2
    <3>3. CASE n = m + 1
      <4>1. g[n] = Shift(f[m], i + (m + 1)) /\ g[n - 1] = f[m] /\ n # 0
        BY <3>3
      <4> HIDE DEF g
      <4> QED BY <3>3, <4>1
    <3> QED BY <3>1, <3>2, <3>3
  <2>3. g = [n \in 0 .. m + 1 |-> g[n]]
    OBVIOUS
  <2> HIDE DEF g
  <2>4. g = [n \in 0 .. m + 1 |-> IF n = 0 THEN L ELSE Shift(g[n - 1], i + n)]
    BY <2>2, <2>3
  <2> QED BY <2>4
<1> HIDE DEF T
<1>3. N \in T
  BY <1>1, <1>2, RoundInduction
<1> QED BY <1>3 DEF T, ShiftRounds

(* After n rounds, rows i to i + n - 1 are the ones that followed them.    *)
ShiftedRows(L, i, n, S) ==
    /\ Safe(S) /\ Current(S) /\ S.count = L.count /\ SameFrozen(L, S)
    /\ \A k \in 0 .. L.count - 1 :
         At(S, k) = IF i <= k /\ k < i + n THEN At(L, k + 1) ELSE At(L, k)

(* One round moves the next row up.                                        *)
LEMMA ShiftRound ==
    ASSUME NEW L, Safe(L), ViewsShaped, NEW i \in 0 .. L.count - 1,
           NEW n \in 0 .. L.count - 1 - i - 1, NEW S, ShiftedRows(L, i, n, S)
    PROVE  ShiftedRows(L, i, n + 1, Shift(S, i + (n + 1)))
<1> DEFINE k == i + n
           M == Put(S, k, At(S, k + 1))
<1>1. /\ L.count \in Nat /\ i \in Nat /\ n \in Nat /\ k \in 0 .. L.count - 1
      /\ k + 1 \in 0 .. L.count - 1 /\ S.count = L.count
  BY ContentsOf DEF ShiftedRows
<1>2. Shift(S, i + (n + 1)) = M
  <2>1. i + (n + 1) = k + 1 /\ (k + 1) - 1 = k
    BY <1>1
  <2> QED BY <2>1 DEF Shift
<1> HIDE DEF k
<1>3. At(S, k + 1) \in Values
  BY <1>1, ContentsOf DEF ShiftedRows
<1>4. Safe(M) /\ Rewrote(S, M, k, At(S, k + 1))
  BY <1>1, <1>3, PutEffect DEF ShiftedRows
<1> HIDE DEF M
<1>5. Current(M)
  BY <1>1, <1>4, PutCurrent DEF ShiftedRows
<1>6. SameFrozen(L, M) /\ M.count = L.count
  BY <1>1, <1>4, FrozenAgain DEF ShiftedRows, Rewrote
<1>7. ASSUME NEW j \in 0 .. L.count - 1
      PROVE  At(M, j) = IF i <= j /\ j < i + (n + 1) THEN At(L, j + 1) ELSE At(L, j)
  <2>1. At(M, j) = IF j = k THEN At(S, k + 1) ELSE At(S, j)
    BY <1>1, <1>4 DEF Rewrote
  <2>2. At(S, k + 1) = At(L, k + 1)
    <3>1. ~(k + 1 < i + n)
      BY <1>1 DEF k
    <3> QED BY <1>1, <3>1 DEF ShiftedRows
  <2>3. At(S, j) = IF i <= j /\ j < i + n THEN At(L, j + 1) ELSE At(L, j)
    BY DEF ShiftedRows
  <2>4. j \in Nat /\ k = i + n
    BY DEF k
  <2> QED BY <1>1, <2>1, <2>2, <2>3, <2>4
<1> QED BY <1>2, <1>4, <1>5, <1>6, <1>7 DEF ShiftedRows

(* Removing a row (removeAccountingDetailAt) keeps the invariant and the   *)
(* other rows in their order.                                              *)
LEMMA RemoveEffect ==
    ASSUME NEW L, Safe(L), Current(L), ViewsShaped, NEW i \in 0 .. L.count - 1
    PROVE  LET M == RemoveRow(L, i)
           IN  /\ Safe(M) /\ Current(M) /\ M.count = L.count - 1 /\ SameFrozen(L, M)
               /\ \A k \in 0 .. L.count - 2 : At(M, k) = IF k < i THEN At(L, k) ELSE At(L, k + 1)
<1> DEFINE N == L.count - 1 - i
           shifted == CHOOSE f : f = [n \in 0 .. N |-> IF n = 0 THEN L ELSE Shift(f[n - 1], i + n)]
           M == RemoveRow(L, i)
<1>1. L.count \in Nat /\ i \in Nat /\ N \in Nat /\ L.count - 1 \in Nat /\ N = L.count - 1 - i
  BY ContentsOf
<1>2. M = Truncate(shifted[N], L.count - 1)
  BY DEF RemoveRow
<1>3. shifted = [n \in 0 .. N |-> IF n = 0 THEN L ELSE Shift(shifted[n - 1], i + n)]
  <2> HIDE DEF N
  <2>1. \E f : ShiftRounds(L, i, N, f)
    BY <1>1, ShiftedExists
  <2> QED BY <2>1 DEF ShiftRounds
<1> HIDE DEF shifted, N, M
<1>4. shifted[0] = L /\ \A n \in 0 .. N - 1 : shifted[n + 1] = Shift(shifted[n], i + (n + 1))
  <2>1. shifted[0] = L
    BY <1>1, <1>3
  <2>2. ASSUME NEW n \in 0 .. N - 1 PROVE shifted[n + 1] = Shift(shifted[n], i + (n + 1))
    <3>1. n + 1 \in 0 .. N /\ n + 1 # 0 /\ (n + 1) - 1 = n
      BY <1>1
    <3> QED BY <1>3, <3>1
  <2> QED BY <2>1, <2>2
<1> DEFINE T == {n \in 0 .. N : ShiftedRows(L, i, n, shifted[n])}
<1>5. 0 \in T
  <2>1. ShiftedRows(L, i, 0, L)
    BY <1>1 DEF ShiftedRows, SameFrozen
  <2> QED BY <1>1, <1>4, <2>1
<1>6. \A n \in 0 .. N - 1 : n \in T => n + 1 \in T
  <2> SUFFICES ASSUME NEW n \in 0 .. N - 1, ShiftedRows(L, i, n, shifted[n])
               PROVE  n + 1 \in T
    OBVIOUS
  <2>1. n \in 0 .. L.count - 1 - i - 1 /\ n + 1 \in 0 .. N
    BY <1>1
  <2>2. ShiftedRows(L, i, n + 1, Shift(shifted[n], i + (n + 1)))
    BY <2>1, ShiftRound
  <2> QED BY <1>4, <2>1, <2>2
<1>7. ShiftedRows(L, i, N, shifted[N])
  <2> HIDE DEF T
  <2>1. N \in T
    BY <1>1, <1>5, <1>6, RoundInduction
  <2> QED BY <2>1 DEF T
<1> DEFINE S == shifted[N]
<1>8. Safe(S) /\ Current(S) /\ S.count = L.count /\ SameFrozen(L, S)
      /\ \A k \in 0 .. L.count - 1 :
           At(S, k) = IF i <= k /\ k < i + N THEN At(L, k + 1) ELSE At(L, k)
  BY <1>7 DEF ShiftedRows
<1>9. M = Truncate(S, L.count - 1)
  BY <1>2
<1> HIDE DEF S
<1>10. L.count - 1 \in 0 .. S.count
  BY <1>1, <1>8
<1>11. Safe(M) /\ Shortened(S, M, L.count - 1)
  BY <1>8, <1>9, <1>10, TruncateEffect
<1>12. Current(M)
  BY <1>8, <1>10, <1>11, TruncateCurrent
<1>13. SameFrozen(L, M) /\ M.count = L.count - 1
  BY <1>8, <1>11, FrozenAgain DEF Shortened
<1>14. ASSUME NEW k \in 0 .. L.count - 2
       PROVE  At(M, k) = IF k < i THEN At(L, k) ELSE At(L, k + 1)
  <2>1. k \in Nat /\ k \in 0 .. (L.count - 1) - 1 /\ k \in 0 .. L.count - 1 /\ k < i + N
    BY <1>1
  <2>2. At(M, k) = At(S, k)
    BY <1>11, <2>1 DEF Shortened
  <2>3. At(S, k) = IF i <= k THEN At(L, k + 1) ELSE At(L, k)
    BY <1>8, <2>1
  <2> QED BY <1>1, <2>1, <2>2, <2>3
<1> QED BY <1>11, <1>12, <1>13, <1>14 DEF M

-----------------------------------------------------------------------------
(* Pruning.  The loop reads a block through the header it took at the      *)
(* start of the block, while its writes may have moved the block away.     *)

(* The array the loop reads row i and those after it in the block from.    *)
Through(L, M, from, kept, i) ==
    /\ \A k \in i .. L.count - 1 :
         BlockOf(k) = BlockOf(i) => M.heap[from][SlotOf(k)] = At(L, k)
    /\ \/ from = M.blocks[BlockOf(i)].arr
       \/ /\ from \in Arrays /\ from \notin Reached(M.blocks)
          /\ BlockOf(kept) = BlockOf(i) /\ ~IsShared(M, BlockOf(i))

(* The rows before row i that survive, in their order.                     *)
Selected(L, old, i, kept, map) ==
    /\ map \in [0 .. kept - 1 -> 0 .. i - 1]
    /\ {map[m] : m \in 0 .. kept - 1} = {k \in 0 .. i - 1 : At(L, k) \notin old}
    /\ \A m, n \in 0 .. kept - 1 : m < n => map[m] < map[n]

(* What holds before round i of the loop of pruneAccounting.               *)
Scanning(L, old, i, S) ==
    /\ S = [from |-> S.from, kept |-> S.kept, L |-> S.L]
    /\ Safe(S.L) /\ Current(S.L) /\ S.L.count = L.count /\ SameFrozen(L, S.L)
    /\ S.kept \in 0 .. i
    /\ \A k \in i .. L.count - 1 : At(S.L, k) = At(L, k)
    /\ \E map : /\ Selected(L, old, i, S.kept, map)
                /\ \A m \in 0 .. S.kept - 1 : At(S.L, m) = At(L, map[m])
    /\ i < L.count /\ SlotOf(i) # 1 => Through(L, S.L, S.from, S.kept, i)

(* The row read in round i is row i of the model before the loop.          *)
LEMMA ThroughStart ==
    ASSUME NEW L, Safe(L), NEW old, NEW i \in 0 .. L.count - 1, NEW S, Scanning(L, old, i, S),
           NEW from, from = IF SlotOf(i) = 1 THEN S.L.blocks[BlockOf(i)].arr ELSE S.from
    PROVE  Through(L, S.L, from, S.kept, i) /\ S.L.heap[from][SlotOf(i)] = At(L, i)
<1>1. L.count \in Nat /\ i \in Nat /\ i < L.count /\ i \in i .. L.count - 1
  BY ContentsOf
<1>2. Through(L, S.L, from, S.kept, i)
  <2>1. CASE SlotOf(i) = 1
    <3>1. from = S.L.blocks[BlockOf(i)].arr
      BY <2>1
    <3>2. \A k \in i .. L.count - 1 : At(S.L, k) = At(L, k)
      BY DEF Scanning
    <3> QED BY <3>1, <3>2 DEF Through, At
  <2>2. CASE SlotOf(i) # 1
    BY <1>1, <2>2 DEF Scanning
  <2> QED BY <2>1, <2>2
<1> QED BY <1>1, <1>2 DEF Through

(* The next row is in the same block unless it is in the first slot.       *)
LEMMA SameBlockNext ==
    ASSUME NEW i \in Nat, SlotOf(i + 1) # 1
    PROVE  BlockOf(i + 1) = BlockOf(i)
BY NextPosition

(* A round without a write leaves the rest of the block as it was.         *)
LEMMA ThroughUnwritten ==
    ASSUME NEW L, Safe(L), NEW M, NEW from, NEW kept \in Nat, NEW i \in Nat,
           Through(L, M, from, kept, i), SlotOf(i + 1) # 1,
           NEW next, next = kept \/ (kept = i /\ next = i + 1)
    PROVE  Through(L, M, from, next, i + 1)
<1>1. BlockOf(i + 1) = BlockOf(i)
  BY SameBlockNext
<1>2. \A k \in i + 1 .. L.count - 1 : k \in i .. L.count - 1
  BY ContentsOf
<1>3. BlockOf(kept) = BlockOf(i) => BlockOf(next) = BlockOf(i + 1)
  BY <1>1
<1> QED BY <1>1, <1>2, <1>3 DEF Through

(* A write to an earlier row leaves the rest of the block as the loop      *)
(* reads it, wherever the copy on write moved the block.                   *)
LEMMA ThroughMoved ==
    ASSUME NEW L, Safe(L), NEW M, Safe(M), NEW N, Safe(N), M.count = L.count, N.count = L.count,
           NEW i \in Nat, i + 1 < L.count, NEW kept \in Nat, kept < i,
           NEW from, Through(L, M, from, kept, i), Moved(M, N, kept), SlotOf(i + 1) # 1
    PROVE  Through(L, N, from, kept + 1, i + 1)
<1> DEFINE b == BlockOf(i)
           c == BlockOf(kept)
           a == M.blocks[c].arr
<1>1. /\ L.count \in Nat /\ i \in 0 .. M.count - 1 /\ kept \in 0 .. M.count - 1
      /\ i \in 0 .. N.count - 1
  BY ContentsOf
<1>2. b \in DOMAIN M.blocks /\ c \in DOMAIN M.blocks
  BY <1>1, RowPosition DEF Safe
<1>3. BlockOf(i + 1) = b
  BY SameBlockNext
<1>4. DOMAIN N.blocks = DOMAIN M.blocks
  <2>1. Len(N.blocks) = Len(M.blocks) /\ M.blocks \in Seq(Header) /\ N.blocks \in Seq(Header)
    BY <1>1 DEF Safe, Shaped
  <2> QED BY <2>1
<1>5. \A d \in DOMAIN M.blocks : M.blocks[d].arr \in Arrays /\ M.blocks[d].arr \in Reached(M.blocks)
  <2>1. \A d \in DOMAIN M.blocks : M.blocks[d].arr \in Arrays
    BY HeaderType DEF Safe, Structure
  <2> QED BY <2>1 DEF Reached
<1>6. /\ \A d \in DOMAIN M.blocks : d # c => N.blocks[d].arr = M.blocks[d].arr
      /\ ~IsShared(N, c)
      /\ \A x \in Arrays : x # a /\ (x \in Reached(M.blocks) \/ ~IsShared(M, c))
                              => N.heap[x] = M.heap[x]
      /\ ~IsShared(M, c) => /\ N.blocks[c].arr = a
                            /\ \A s : s # SlotOf(kept) => N.heap[a][s] = M.heap[a][s]
      /\ IsShared(M, c) => N.heap[a] = M.heap[a] /\ N.blocks[c].arr # a
  BY DEF Moved
<1>7. \A k \in i + 1 .. L.count - 1 : /\ k \in i .. L.count - 1
                                      /\ BlockOf(k) = c => SlotOf(k) # SlotOf(kept)
  <2> SUFFICES ASSUME NEW k \in i + 1 .. L.count - 1
               PROVE  k \in i .. L.count - 1 /\ (BlockOf(k) = c => SlotOf(k) # SlotOf(kept))
    OBVIOUS
  <2>1. k \in Nat /\ k # kept /\ k \in i .. L.count - 1
    BY <1>1
  <2> QED BY <2>1, PositionInjective
<1>8. c = b => BlockOf(kept + 1) = b
  <2>1. kept + 1 \in Nat /\ kept <= kept + 1 /\ kept + 1 <= i
    OBVIOUS
  <2>2. c <= BlockOf(kept + 1) /\ BlockOf(kept + 1) <= b
    BY <2>1, BlockMonotone
  <2>3. c \in Nat /\ b \in Nat /\ BlockOf(kept + 1) \in Nat
    BY <2>1, PositionType
  <2> QED BY <2>2, <2>3
<1>9. \A k \in i .. L.count - 1 : BlockOf(k) = b => M.heap[from][SlotOf(k)] = At(L, k)
  BY DEF Through
<1>10. \/ from = M.blocks[b].arr
       \/ from \in Arrays /\ from \notin Reached(M.blocks) /\ c = b /\ ~IsShared(M, b)
  BY DEF Through
<1>11. \A d, e \in DOMAIN M.blocks : d # e => M.blocks[d].arr # M.blocks[e].arr
  BY DEF Safe, Distinct
<1> HIDE DEF b, c
<1>12. CASE c # b
  <2>1. from = M.blocks[b].arr /\ from # a
    BY <1>2, <1>10, <1>11, <1>12
  <2>2. N.heap[from] = M.heap[from] /\ N.blocks[b].arr = from
    BY <1>2, <1>5, <1>6, <1>12, <2>1
  <2> QED BY <1>3, <1>7, <1>9, <2>2 DEF Through
<1>13. CASE c = b /\ from = a /\ IsShared(M, c)
  <2>1. N.heap[from] = M.heap[from] /\ from \in Arrays
    BY <1>2, <1>5, <1>6, <1>13
  <2>2. \A d \in DOMAIN N.blocks : N.blocks[d].arr # from
    BY <1>2, <1>4, <1>6, <1>11, <1>13
  <2>3. from \notin Reached(N.blocks)
    BY <2>2 DEF Reached
  <2>4. ~IsShared(N, b) /\ BlockOf(kept + 1) = b
    BY <1>6, <1>8, <1>13
  <2> QED BY <1>3, <1>7, <1>9, <2>1, <2>3, <2>4 DEF Through
<1>14. CASE c = b /\ from = a /\ ~IsShared(M, c)
  <2>1. N.blocks[b].arr = from /\ \A s : s # SlotOf(kept) => N.heap[from][s] = M.heap[from][s]
    BY <1>6, <1>14
  <2>2. \A k \in i + 1 .. L.count - 1 : BlockOf(k) = b => N.heap[from][SlotOf(k)] = At(L, k)
    BY <1>7, <1>9, <1>14, <2>1
  <2> QED BY <1>3, <2>1, <2>2 DEF Through
<1>15. CASE c = b /\ from # a
  <2>1. from \in Arrays /\ from \notin Reached(M.blocks) /\ ~IsShared(M, c)
    BY <1>10, <1>15
  <2>2. N.heap[from] = M.heap[from] /\ N.blocks[c].arr = a
    BY <1>6, <1>15, <2>1
  <2>3. \A d \in DOMAIN N.blocks : N.blocks[d].arr # from
    BY <1>4, <1>5, <1>6, <1>15, <2>1, <2>2
  <2>4. from \notin Reached(N.blocks)
    BY <2>3 DEF Reached
  <2>5. ~IsShared(N, b) /\ BlockOf(kept + 1) = b
    BY <1>6, <1>8, <1>15
  <2> QED BY <1>3, <1>7, <1>9, <2>1, <2>2, <2>4, <2>5 DEF Through
<1> QED BY <1>12, <1>13, <1>14, <1>15

(* A row that is dropped is not selected.                                  *)
LEMMA SelectedDropped ==
    ASSUME NEW L, NEW old, NEW i \in Nat, NEW kept \in Nat, NEW map,
           Selected(L, old, i, kept, map), At(L, i) \in old
    PROVE  Selected(L, old, i + 1, kept, map)
<1>1. \A k \in 0 .. (i + 1) - 1 : k = i \/ k \in 0 .. i - 1
  OBVIOUS
<1>2. \A k \in 0 .. i - 1 : k \in 0 .. (i + 1) - 1
  OBVIOUS
<1>3. {k \in 0 .. (i + 1) - 1 : At(L, k) \notin old} = {k \in 0 .. i - 1 : At(L, k) \notin old}
  BY <1>1, <1>2
<1>4. map \in [0 .. kept - 1 -> 0 .. (i + 1) - 1]
  BY <1>2 DEF Selected
<1> QED BY <1>3, <1>4 DEF Selected

(* The map with one more survivor.                                         *)
Joined(map, kept, i) == [m \in 0 .. kept |-> IF m = kept THEN i ELSE map[m]]

(* A row that survives is selected after those before it.                  *)
LEMMA SelectedKept ==
    ASSUME NEW L, NEW old, NEW i \in Nat, NEW kept \in Nat, NEW map,
           Selected(L, old, i, kept, map), At(L, i) \notin old
    PROVE  Selected(L, old, i + 1, kept + 1, Joined(map, kept, i))
<1> DEFINE next == Joined(map, kept, i)
<1>1. \A k \in 0 .. (i + 1) - 1 : k = i \/ k \in 0 .. i - 1
  OBVIOUS
<1>2. \A k \in 0 .. i - 1 : k \in 0 .. (i + 1) - 1 /\ k < i
  OBVIOUS
<1>3. \A m \in 0 .. kept : m = kept \/ (m \in 0 .. kept - 1 /\ m < kept)
  OBVIOUS
<1>4. 0 .. (kept + 1) - 1 = 0 .. kept /\ kept \in 0 .. kept /\ i \in 0 .. (i + 1) - 1
      /\ \A m \in 0 .. kept - 1 : m \in 0 .. kept /\ m # kept
  OBVIOUS
<1>5. next[kept] = i /\ \A m \in 0 .. kept - 1 : next[m] = map[m]
  BY <1>4 DEF Joined
<1>6. \A m \in 0 .. kept - 1 : map[m] \in 0 .. i - 1
  BY DEF Selected
<1>7. next \in [0 .. kept -> 0 .. (i + 1) - 1]
  BY <1>2, <1>3, <1>4, <1>6 DEF Joined
<1> HIDE DEF next
<1>8. {next[m] : m \in 0 .. kept} = {k \in 0 .. (i + 1) - 1 : At(L, k) \notin old}
  <2>1. ASSUME NEW m \in 0 .. kept PROVE next[m] \in 0 .. (i + 1) - 1 /\ At(L, next[m]) \notin old
    <3>1. CASE m = kept
      BY <1>4, <1>5, <3>1
    <3>2. CASE m # kept
      <4>1. m \in 0 .. kept - 1
        BY <1>3, <3>2
      <4>2. map[m] \in {k \in 0 .. i - 1 : At(L, k) \notin old}
        BY <4>1 DEF Selected
      <4> QED BY <1>2, <1>5, <4>1, <4>2
    <3> QED BY <3>1, <3>2
  <2>2. ASSUME NEW k \in 0 .. (i + 1) - 1, At(L, k) \notin old PROVE \E m \in 0 .. kept : next[m] = k
    <3>1. CASE k = i
      BY <1>4, <1>5, <3>1
    <3>2. CASE k # i
      <4>1. k \in {map[m] : m \in 0 .. kept - 1}
        BY <1>1, <2>2, <3>2 DEF Selected
      <4> QED BY <1>4, <1>5, <4>1
    <3> QED BY <3>1, <3>2
  <2> QED BY <2>1, <2>2
<1>9. \A m, n \in 0 .. kept : m < n => next[m] < next[n]
  <2> SUFFICES ASSUME NEW m \in 0 .. kept, NEW n \in 0 .. kept, m < n PROVE next[m] < next[n]
    OBVIOUS
  <2>1. m \in 0 .. kept - 1
    OBVIOUS
  <2>2. CASE n = kept
    BY <1>2, <1>5, <1>6, <2>1, <2>2
  <2>3. CASE n # kept
    BY <1>3, <1>5, <2>1, <2>3 DEF Selected
  <2> QED BY <2>2, <2>3
<1>10. Selected(L, old, i + 1, kept + 1, next)
  BY <1>4, <1>7, <1>8, <1>9 DEF Selected
<1> QED BY <1>10 DEF next

(* One round of the loop of pruneAccounting.                               *)
LEMMA ScanRound ==
    ASSUME NEW L, Safe(L), ViewsShaped, NEW old, NEW i \in 0 .. L.count - 1, NEW S,
           Scanning(L, old, i, S)
    PROVE  Scanning(L, old, i + 1, Scan(S, i, old))
<1> DEFINE from == IF SlotOf(i) = 1 THEN S.L.blocks[BlockOf(i)].arr ELSE S.from
           row == S.L.heap[from][SlotOf(i)]
           kept == S.kept
           M == S.L
           N == IF kept # i THEN Put(M, kept, row) ELSE M
           E == Scan(S, i, old)
<1>1. Through(L, M, from, kept, i) /\ row = At(L, i)
  BY ThroughStart
<1>2. /\ L.count \in Nat /\ i \in Nat /\ i < L.count /\ kept \in 0 .. i /\ kept \in Nat
      /\ row \in Values /\ M.count = L.count
  BY <1>1, ContentsOf DEF Scanning
<1>3. E = IF row \in old THEN [S EXCEPT !.from = from] ELSE [from |-> from, kept |-> kept + 1, L |-> N]
  BY DEF Scan
<1>4. S = [from |-> S.from, kept |-> S.kept, L |-> S.L]
  BY DEF Scanning
<1>5. PICK map : Selected(L, old, i, kept, map) /\ \A m \in 0 .. kept - 1 : At(M, m) = At(L, map[m])
  BY DEF Scanning
<1>6. \A k \in i + 1 .. L.count - 1 : k \in i .. L.count - 1 /\ k # kept /\ k \in 0 .. L.count - 1
  BY <1>2
<1>7. Safe(M) /\ Current(M) /\ SameFrozen(L, M) /\ \A k \in i .. L.count - 1 : At(M, k) = At(L, k)
  BY DEF Scanning
<1> HIDE DEF from, row, N, E
<1>8. CASE row \in old
  <2>1. E = [from |-> from, kept |-> kept, L |-> M]
    BY <1>3, <1>4, <1>8
  <2>2. Selected(L, old, i + 1, kept, map)
    BY <1>1, <1>2, <1>5, <1>8, SelectedDropped
  <2>3. i + 1 < L.count /\ SlotOf(i + 1) # 1 => Through(L, M, from, kept, i + 1)
    BY <1>1, <1>2, ThroughUnwritten
  <2>4. kept \in 0 .. i + 1
    BY <1>2
  <2> HIDE DEF M, kept
  <2>5. E.from = from /\ E.kept = kept /\ E.L = M
    BY <2>1
  <2> QED BY <1>2, <1>5, <1>6, <1>7, <2>1, <2>2, <2>3, <2>4, <2>5 DEF Scanning, E
<1>9. CASE row \notin old
  <2>1. E = [from |-> from, kept |-> kept + 1, L |-> N]
    BY <1>3, <1>9
  <2> DEFINE next == Joined(map, kept, i)
  <2>2. Selected(L, old, i + 1, kept + 1, next)
    BY <1>1, <1>2, <1>5, <1>9, SelectedKept
  <2>3. next[kept] = i /\ \A m \in 0 .. kept - 1 : next[m] = map[m]
    BY <1>2 DEF Joined
  <2>4. kept + 1 \in 0 .. i + 1 /\ \A m \in 0 .. (kept + 1) - 1 : m = kept \/ m \in 0 .. kept - 1
    BY <1>2
  <2> HIDE DEF next, M, kept
  <2>5. /\ Safe(N) /\ Current(N) /\ N.count = L.count /\ SameFrozen(L, N)
        /\ \A k \in i + 1 .. L.count - 1 : At(N, k) = At(L, k)
        /\ At(N, kept) = At(L, i) /\ \A m \in 0 .. kept - 1 : At(N, m) = At(M, m)
        /\ i + 1 < L.count /\ SlotOf(i + 1) # 1 => Through(L, N, from, kept + 1, i + 1)
    <3>1. CASE kept = i
      <4>1. N = M
        BY <3>1 DEF N
      <4>2. i \in i .. L.count - 1
        BY <1>2
      <4> QED BY <1>1, <1>2, <1>6, <1>7, <3>1, <4>1, <4>2, ThroughUnwritten
    <3>2. CASE kept # i
      <4>1. N = Put(M, kept, row)
        BY <3>2 DEF N
      <4>2. kept \in 0 .. M.count - 1 /\ kept < i
        BY <1>2, <3>2
      <4>3. Safe(N) /\ Rewrote(M, N, kept, row) /\ Moved(M, N, kept)
        BY <1>2, <1>7, <4>1, <4>2, PutEffect
      <4>4. Current(N)
        BY <1>7, <4>2, <4>3, PutCurrent
      <4>5. SameFrozen(L, N) /\ N.count = L.count
        BY <1>2, <1>7, <4>3, FrozenAgain DEF Rewrote
      <4>6. \A k \in 0 .. L.count - 1 : At(N, k) = IF k = kept THEN row ELSE At(M, k)
        BY <1>2, <4>3 DEF Rewrote
      <4>7. \A m \in 0 .. kept - 1 : m \in 0 .. L.count - 1 /\ m # kept
        BY <1>2
      <4>8. i + 1 < L.count /\ SlotOf(i + 1) # 1 => Through(L, N, from, kept + 1, i + 1)
        BY <1>1, <1>2, <1>7, <4>2, <4>3, <4>5, ThroughMoved
      <4> QED BY <1>1, <1>2, <1>6, <1>7, <4>2, <4>3, <4>4, <4>5, <4>6, <4>7, <4>8
    <3> QED BY <3>1, <3>2
  <2>6. \A m \in 0 .. (kept + 1) - 1 : At(N, m) = At(L, next[m])
    BY <1>5, <2>3, <2>4, <2>5
  <2>7. E.from = from /\ E.kept = kept + 1 /\ E.L = N
    BY <2>1
  <2> QED BY <2>1, <2>2, <2>4, <2>5, <2>6, <2>7 DEF Scanning, E
<1> QED BY <1>8, <1>9

(* f is the rounds of that loop.                                           *)
ScanRounds(L, old, N, f) ==
    f = [n \in 0 .. N |-> IF n = 0 THEN [from |-> Blank, kept |-> 0, L |-> L]
                          ELSE Scan(f[n - 1], n - 1, old)]

(* The rounds of the loop are a function of their number.                  *)
LEMMA ScannedExists ==
    ASSUME NEW L, NEW old, NEW N \in Nat
    PROVE  \E f : ScanRounds(L, old, N, f)
<1> DEFINE S0 == [from |-> Blank, kept |-> 0, L |-> L]
           T == {m \in Nat : \E f : f = [n \in 0 .. m |-> IF n = 0 THEN S0 ELSE Scan(f[n - 1], n - 1, old)]}
<1>0. S0 = [from |-> Blank, kept |-> 0, L |-> L]
  OBVIOUS
<1> HIDE DEF S0
<1>1. 0 \in T
  <2> DEFINE f == [n \in 0 .. 0 |-> S0]
  <2>1. f = [n \in 0 .. 0 |-> IF n = 0 THEN S0 ELSE Scan(f[n - 1], n - 1, old)]
    OBVIOUS
  <2> QED BY <2>1
<1>2. ASSUME NEW m \in 0 .. N - 1, m \in T PROVE m + 1 \in T
  <2>1. PICK f : f = [n \in 0 .. m |-> IF n = 0 THEN S0 ELSE Scan(f[n - 1], n - 1, old)]
    BY <1>2
  <2> DEFINE g == [n \in 0 .. m + 1 |-> IF n = m + 1 THEN Scan(f[m], m, old) ELSE f[n]]
  <2>2. \A n \in 0 .. m + 1 : g[n] = IF n = 0 THEN S0 ELSE Scan(g[n - 1], n - 1, old)
    <3> SUFFICES ASSUME NEW n \in 0 .. m + 1
                 PROVE  g[n] = IF n = 0 THEN S0 ELSE Scan(g[n - 1], n - 1, old)
      OBVIOUS
    <3>1. CASE n = 0
      BY <2>1, <3>1
    <3>2. CASE n \in 1 .. m
      <4>1. f[n] = Scan(f[n - 1], n - 1, old)
        BY <2>1, <3>2
      <4>2. g[n] = f[n] /\ g[n - 1] = f[n - 1]
        BY <3>2
      <4> HIDE DEF g
      <4> QED BY <3>2, <4>1, <4>2
    <3>3. CASE n = m + 1
      <4>1. g[n] = Scan(f[m], m, old) /\ g[n - 1] = f[m] /\ n # 0 /\ n - 1 = m
        BY <3>3
      <4> HIDE DEF g
      <4> QED BY <3>3, <4>1
    <3> QED BY <3>1, <3>2, <3>3
  <2>3. g = [n \in 0 .. m + 1 |-> g[n]]
    OBVIOUS
  <2> HIDE DEF g
  <2>4. g = [n \in 0 .. m + 1 |-> IF n = 0 THEN S0 ELSE Scan(g[n - 1], n - 1, old)]
    BY <2>2, <2>3
  <2> QED BY <2>4
<1> HIDE DEF T
<1>3. N \in T
  BY <1>1, <1>2, RoundInduction
<1> QED BY <1>0, <1>3 DEF T, ScanRounds

(* After the loop the survivors are at the front, in their order.          *)
LEMMA ScanEffect ==
    ASSUME NEW L, Safe(L), Current(L), ViewsShaped, NEW old
    PROVE  Scanning(L, old, L.count, Scanned(L, old))
<1> DEFINE N == L.count
           S0 == [from |-> Blank, kept |-> 0, L |-> L]
           scan == CHOOSE f : f = [n \in 0 .. N |-> IF n = 0 THEN [from |-> Blank, kept |-> 0, L |-> L]
                                                   ELSE Scan(f[n - 1], n - 1, old)]
<1>1. N \in Nat
  BY ContentsOf
<1>2. Scanned(L, old) = scan[N]
  BY DEF Scanned
<1>3. scan = [n \in 0 .. N |-> IF n = 0 THEN [from |-> Blank, kept |-> 0, L |-> L]
                               ELSE Scan(scan[n - 1], n - 1, old)]
  <2>1. \E f : ScanRounds(L, old, N, f)
    BY <1>1, ScannedExists
  <2> QED BY <2>1 DEF ScanRounds
<1>4. scan[0] = S0 /\ \A n \in 0 .. N - 1 : scan[n + 1] = Scan(scan[n], n, old)
  <2> HIDE DEF scan
  <2>1. scan[0] = S0
    BY <1>1, <1>3
  <2>2. ASSUME NEW n \in 0 .. N - 1 PROVE scan[n + 1] = Scan(scan[n], n, old)
    <3>1. n + 1 \in 0 .. N /\ n + 1 # 0 /\ (n + 1) - 1 = n
      BY <1>1
    <3> QED BY <1>3, <3>1
  <2> QED BY <2>1, <2>2
<1> HIDE DEF scan
<1> DEFINE T == {n \in 0 .. N : Scanning(L, old, n, scan[n])}
<1>5. 0 \in T
  <2>1. S0 = [from |-> S0.from, kept |-> S0.kept, L |-> S0.L] /\ S0.kept = 0 /\ S0.L = L
    OBVIOUS
  <2>2. Selected(L, old, 0, 0, [m \in {} |-> 0])
    <3>1. 0 .. 0 - 1 = {}
      OBVIOUS
    <3>2. [m \in {} |-> 0] \in [{} -> {}]
      OBVIOUS
    <3>3. /\ {[m \in {} |-> 0][k] : k \in {}} = {}
          /\ {k \in {} : At(L, k) \notin old} = {}
          /\ \A m, n \in {} : m < n => [k \in {} |-> 0][m] < [k \in {} |-> 0][n]
      OBVIOUS
    <3> QED BY <3>1, <3>2, <3>3 DEF Selected
  <2>3. SlotOf(0) = 1 /\ SameFrozen(L, L) /\ 0 \in 0 .. 0 /\ \A m \in 0 .. 0 - 1 : FALSE
    BY FirstPosition DEF SameFrozen
  <2> HIDE DEF S0
  <2>4. Scanning(L, old, 0, S0)
    <3>1. \A m \in 0 .. S0.kept - 1 : FALSE
      BY <2>1, <2>3
    <3> QED BY <2>1, <2>2, <2>3, <3>1 DEF Scanning
  <2> QED BY <1>1, <1>4, <2>4
<1>6. \A n \in 0 .. N - 1 : n \in T => n + 1 \in T
  <2> SUFFICES ASSUME NEW n \in 0 .. N - 1, Scanning(L, old, n, scan[n])
               PROVE  n + 1 \in T
    OBVIOUS
  <2>1. Scanning(L, old, n + 1, Scan(scan[n], n, old))
    BY ScanRound
  <2>2. n + 1 \in 0 .. N
    BY <1>1
  <2> QED BY <1>4, <2>1, <2>2
<1>7. N \in T
  <2> HIDE DEF T
  <2> QED BY <1>1, <1>5, <1>6, RoundInduction
<1> QED BY <1>2, <1>7

(* Rewriting the identity of each survivor changes no row of the model.    *)
ReinternRounds(L, N, f) ==
    f = [n \in 0 .. N |-> IF n = 0 THEN L ELSE Reintern(f[n - 1], n - 1)]

(* The rounds of the second loop are a function of their number.           *)
LEMMA ReinternedExists ==
    ASSUME NEW L, NEW N \in Nat
    PROVE  \E f : ReinternRounds(L, N, f)
<1> DEFINE T == {m \in Nat : \E f : f = [n \in 0 .. m |-> IF n = 0 THEN L ELSE Reintern(f[n - 1], n - 1)]}
<1>1. 0 \in T
  <2> DEFINE f == [n \in 0 .. 0 |-> L]
  <2>1. f = [n \in 0 .. 0 |-> IF n = 0 THEN L ELSE Reintern(f[n - 1], n - 1)]
    OBVIOUS
  <2> QED BY <2>1
<1>2. ASSUME NEW m \in 0 .. N - 1, m \in T PROVE m + 1 \in T
  <2>1. PICK f : f = [n \in 0 .. m |-> IF n = 0 THEN L ELSE Reintern(f[n - 1], n - 1)]
    BY <1>2
  <2> DEFINE g == [n \in 0 .. m + 1 |-> IF n = m + 1 THEN Reintern(f[m], m) ELSE f[n]]
  <2>2. \A n \in 0 .. m + 1 : g[n] = IF n = 0 THEN L ELSE Reintern(g[n - 1], n - 1)
    <3> SUFFICES ASSUME NEW n \in 0 .. m + 1
                 PROVE  g[n] = IF n = 0 THEN L ELSE Reintern(g[n - 1], n - 1)
      OBVIOUS
    <3>1. CASE n = 0
      BY <2>1, <3>1
    <3>2. CASE n \in 1 .. m
      <4>1. f[n] = Reintern(f[n - 1], n - 1)
        BY <2>1, <3>2
      <4>2. g[n] = f[n] /\ g[n - 1] = f[n - 1]
        BY <3>2
      <4> HIDE DEF g
      <4> QED BY <3>2, <4>1, <4>2
    <3>3. CASE n = m + 1
      <4>1. g[n] = Reintern(f[m], m) /\ g[n - 1] = f[m] /\ n # 0 /\ n - 1 = m
        BY <3>3
      <4> HIDE DEF g
      <4> QED BY <3>3, <4>1
    <3> QED BY <3>1, <3>2, <3>3
  <2>3. g = [n \in 0 .. m + 1 |-> g[n]]
    OBVIOUS
  <2> HIDE DEF g
  <2>4. g = [n \in 0 .. m + 1 |-> IF n = 0 THEN L ELSE Reintern(g[n - 1], n - 1)]
    BY <2>2, <2>3
  <2> QED BY <2>4
<1> HIDE DEF T
<1>3. N \in T
  BY <1>1, <1>2, RoundInduction
<1> QED BY <1>3 DEF T, ReinternRounds

(* M has the rows of L, and hides nothing from the frozen views.           *)
SameRows(L, M) ==
    /\ Safe(M) /\ Current(M) /\ M.count = L.count /\ SameFrozen(L, M)
    /\ \A k \in 0 .. L.count - 1 : At(M, k) = At(L, k)

(* Rewriting one survivor leaves every row as it is.                       *)
LEMMA ReinternRound ==
    ASSUME NEW L, Safe(L), ViewsShaped, NEW i \in 0 .. L.count - 1, NEW S, SameRows(L, S)
    PROVE  SameRows(L, Reintern(S, i))
<1> DEFINE M == Reintern(S, i)
<1>1. i \in 0 .. S.count - 1 /\ Safe(S) /\ Current(S)
  BY DEF SameRows
<1>2. At(S, i) \in Values
  BY <1>1, ContentsOf
<1>3. M = Put(S, i, At(S, i))
  BY DEF Reintern
<1> HIDE DEF M
<1>4. Safe(M) /\ Rewrote(S, M, i, At(S, i))
  BY <1>1, <1>2, <1>3, PutEffect
<1>5. Current(M)
  BY <1>1, <1>4, PutCurrent
<1>6. SameFrozen(L, M)
  BY <1>4, FrozenAgain DEF Rewrote, SameRows
<1>7. M.count = L.count /\ \A k \in 0 .. L.count - 1 : At(M, k) = At(L, k)
  BY <1>4 DEF Rewrote, SameRows
<1> QED BY <1>4, <1>5, <1>6, <1>7 DEF SameRows, M

(* So does rewriting all of them.                                          *)
LEMMA ReinternEffect ==
    ASSUME NEW L, Safe(L), Current(L), ViewsShaped
    PROVE  SameRows(L, Reinterned(L))
<1> DEFINE N == L.count
           touch == CHOOSE f : f = [n \in 0 .. N |-> IF n = 0 THEN L ELSE Reintern(f[n - 1], n - 1)]
<1>1. N \in Nat
  BY ContentsOf
<1>2. Reinterned(L) = touch[N]
  BY DEF Reinterned
<1>3. touch = [n \in 0 .. N |-> IF n = 0 THEN L ELSE Reintern(touch[n - 1], n - 1)]
  <2>1. \E f : ReinternRounds(L, N, f)
    BY <1>1, ReinternedExists
  <2> QED BY <2>1 DEF ReinternRounds
<1> HIDE DEF touch
<1>4. touch[0] = L /\ \A n \in 0 .. N - 1 : touch[n + 1] = Reintern(touch[n], n)
  <2>1. touch[0] = L
    BY <1>1, <1>3
  <2>2. ASSUME NEW n \in 0 .. N - 1 PROVE touch[n + 1] = Reintern(touch[n], n)
    <3>1. n + 1 \in 0 .. N /\ n + 1 # 0 /\ (n + 1) - 1 = n
      BY <1>1
    <3> QED BY <1>3, <3>1
  <2> QED BY <2>1, <2>2
<1> DEFINE T == {n \in 0 .. N : SameRows(L, touch[n])}
<1>5. 0 \in T
  <2>1. SameRows(L, L)
    BY DEF SameRows, SameFrozen
  <2> QED BY <1>1, <1>4, <2>1
<1>6. \A n \in 0 .. N - 1 : n \in T => n + 1 \in T
  <2> SUFFICES ASSUME NEW n \in 0 .. N - 1, SameRows(L, touch[n])
               PROVE  n + 1 \in T
    OBVIOUS
  <2>1. SameRows(L, Reintern(touch[n], n))
    BY ReinternRound
  <2>2. n + 1 \in 0 .. N
    BY <1>1
  <2> QED BY <1>4, <2>1, <2>2
<1>7. N \in T
  <2> HIDE DEF T
  <2> QED BY <1>1, <1>5, <1>6, RoundInduction
<1> QED BY <1>2, <1>7

(* What pruning does.                                                      *)
Pruned(L, M, old) ==
    /\ Safe(M) /\ Current(M) /\ SameFrozen(L, M)
    /\ \E map : /\ Selected(L, old, L.count, M.count, map)
                /\ \A m \in 0 .. M.count - 1 : At(M, m) = At(L, map[m])

(* pruneAccounting (accounting.go) keeps the invariant and leaves the      *)
(* survivors in their order.                                               *)
LEMMA PruneEffect ==
    ASSUME NEW L, Safe(L), Current(L), ViewsShaped, NEW old
    PROVE  Pruned(L, PruneRows(L, old), old)
<1> DEFINE done == Scanned(L, old)
           n == done.kept
           D == done.L
           C == Truncate(D, n)
           M == PruneRows(L, old)
<1>1. /\ Safe(D) /\ Current(D) /\ D.count = L.count /\ SameFrozen(L, D) /\ n \in 0 .. L.count
      /\ \E map : /\ Selected(L, old, L.count, n, map)
                  /\ \A m \in 0 .. n - 1 : At(D, m) = At(L, map[m])
  BY ScanEffect DEF Scanning
<1>2. M = IF n = L.count THEN D ELSE Reinterned(C)
  BY DEF PruneRows
<1> HIDE DEF D, n, M
<1>3. CASE n = L.count
  BY <1>1, <1>2, <1>3 DEF Pruned, M
<1>4. CASE n # L.count
  <2>1. Safe(C) /\ Shortened(D, C, n)
    BY <1>1, TruncateEffect
  <2> HIDE DEF C
  <2>2. Current(C)
    BY <1>1, <2>1, TruncateCurrent
  <2>3. SameRows(C, M)
    BY <1>2, <1>4, <2>1, <2>2, ReinternEffect
  <2>4. SameFrozen(L, M)
    <3>1. SameFrozen(L, C)
      BY <1>1, <2>1, FrozenAgain DEF Shortened
    <3> QED BY <2>3, <3>1, FrozenAgain DEF SameRows
  <2>5. M.count = n /\ \A m \in 0 .. n - 1 : At(M, m) = At(D, m)
    BY <2>1, <2>3 DEF Shortened, SameRows
  <2>6. Safe(M) /\ Current(M)
    BY <2>3 DEF SameRows
  <2> QED BY <1>1, <2>4, <2>5, <2>6 DEF Pruned, M
<1> QED BY <1>3, <1>4

-----------------------------------------------------------------------------
(* A query computes the aggregates that are missing.                       *)

(* The rows of a group are rows of the model.                              *)
LEMMA GroupRowsType ==
    ASSUME NEW L, Safe(L), NEW g \in Nat \ {0}
    PROVE  /\ GroupEnd(L, g) \in Nat /\ GroupEnd(L, g) <= L.count
           /\ GroupRows(L, g) \in Seq(Values)
<1> DEFINE p == (g - 1) * GroupRecords
           e == GroupEnd(L, g)
           s == Contents(L)
<1>1. L.count \in Nat
  BY ContentsOf
<1>2. p \in Nat /\ g * GroupRecords \in Nat /\ GroupRecords \in Nat
  BY SizesAssumption
<1>3. e \in Nat /\ e <= L.count
  <2> HIDE DEF p
  <2> QED BY <1>1, <1>2 DEF GroupEnd
<1> HIDE DEF p, e
<1>4. \A i \in p + 1 .. e : i \in 1 .. L.count
  BY <1>1, <1>2, <1>3
<1>5. s \in Seq(Values) /\ Len(s) = L.count
  BY ContentsType
<1> HIDE DEF s
<1>6. \A i \in p + 1 .. e : s[i] \in Values
  BY <1>4, <1>5
<1>7. SubSeq(s, p + 1, e) \in Seq(Values)
  <2>1. p + 1 \in Int /\ e \in Int
    BY <1>2, <1>3
  <2> QED BY <1>6, <2>1, SubSeqProperties
<1> QED BY <1>3, <1>7 DEF GroupRows, p, e, s

(* The fields of M, the structure after a query.                           *)
PrepareFields(L, M) ==
    /\ M \in Structure /\ M.heap = L.heap /\ M.blocks = L.blocks
    /\ M.shared = L.shared /\ M.count = L.count
    /\ \A g \in DOMAIN M.groups : M.groups[g].valid =>
         \/ g \in DOMAIN L.groups /\ M.groups[g] = L.groups[g]
         \/ /\ g \in Kept(L)
            /\ M.groups[g] = [valid |-> TRUE, end |-> GroupEnd(L, g), rows |-> GroupRows(L, g)]

(* The fields of the structure after a query.                              *)
LEMMA PrepareStructure ==
    ASSUME NEW L, Safe(L)
    PROVE  PrepareFields(L, Prepare(L))
<1> DEFINE n == IF Kept(L) = {} THEN 0 ELSE CHOOSE g \in Kept(L) : \A h \in Kept(L) : h <= g
           size == IF n > Len(L.groups) THEN n ELSE Len(L.groups)
           Now(g) == IF g \in DOMAIN L.groups THEN L.groups[g] ELSE NoAggregate
           Fresh(g) == [valid |-> TRUE, end |-> GroupEnd(L, g), rows |-> GroupRows(L, g)]
           Entry(g) == IF g \notin Kept(L) \/ (Now(g).valid /\ Now(g).end = GroupEnd(L, g))
                       THEN Now(g) ELSE Fresh(g)
           groups == [g \in 1 .. size |-> Entry(g)]
           M == Prepare(L)
<1>1. L \in Structure /\ L.groups \in Seq(Aggregate)
  BY DEF Safe, Structure
<1>2. M = [L EXCEPT !.groups = groups]
  BY DEF Prepare
<1>3. n \in Nat
  <2>1. CASE Kept(L) = {}
    BY <2>1
  <2>2. CASE Kept(L) # {}
    <3>1. Kept(L) \subseteq 1 .. MaxCount /\ MaxCount \in Nat
      BY SizesAssumption DEF Kept
    <3>2. \E g \in Kept(L) : \A h \in Kept(L) : h <= g
      BY <2>2, <3>1, GreatestElement
    <3>3. n \in Kept(L)
      BY <2>2, <3>2
    <3> QED BY <3>1, <3>3
  <2> QED BY <2>1, <2>2
<1> HIDE DEF n, M
<1>4. size \in Nat
  BY <1>1, <1>3
<1> HIDE DEF size
<1>5. \A g \in 1 .. size : Entry(g) \in Aggregate
  <2> SUFFICES ASSUME NEW g \in 1 .. size PROVE Entry(g) \in Aggregate
    OBVIOUS
  <2>1. Now(g) \in Aggregate
    <3>1. NoAggregate \in Aggregate
      BY EmptySeq DEF NoAggregate, Aggregate
    <3>2. g \in DOMAIN L.groups => L.groups[g] \in Aggregate
      BY <1>1
    <3> QED BY <3>1, <3>2
  <2>2. Fresh(g) \in Aggregate
    <3>1. g \in Nat \ {0}
      BY <1>4
    <3> QED BY <3>1, GroupRowsType DEF Aggregate
  <2> QED BY <2>1, <2>2
<1>6. \A g \in 1 .. size : Entry(g).valid =>
        \/ g \in DOMAIN L.groups /\ Entry(g) = L.groups[g]
        \/ g \in Kept(L) /\ Entry(g) = Fresh(g)
  <2> SUFFICES ASSUME NEW g \in 1 .. size, Entry(g).valid
               PROVE  \/ g \in DOMAIN L.groups /\ Entry(g) = L.groups[g]
                      \/ g \in Kept(L) /\ Entry(g) = Fresh(g)
    OBVIOUS
  <2>1. NoAggregate.valid = FALSE
    BY DEF NoAggregate
  <2> HIDE DEF Fresh
  <2> QED BY <2>1
<1> HIDE DEF Entry
<1>7. groups \in [1 .. size -> Aggregate]
  BY <1>5
<1>8. groups \in Seq(Aggregate) /\ DOMAIN groups = 1 .. size /\ \A g \in 1 .. size : groups[g] = Entry(g)
  BY <1>4, <1>7, SeqDef
<1> HIDE DEF groups
<1>9. M \in Structure /\ M.heap = L.heap /\ M.blocks = L.blocks
      /\ M.shared = L.shared /\ M.count = L.count /\ M.groups = groups
  BY <1>1, <1>2, <1>8 DEF Structure
<1> QED BY <1>6, <1>8, <1>9 DEF PrepareFields, M

(* A query keeps or computes each aggregate, and changes nothing else.     *)
LEMMA PrepareEffect ==
    ASSUME NEW L, Safe(L), Current(L)
    PROVE  LET M == Prepare(L)
           IN  /\ Safe(M) /\ Current(M) /\ M.heap = L.heap /\ M.blocks = L.blocks
               /\ M.count = L.count /\ M.shared = L.shared
<1> DEFINE M == Prepare(L)
<1>1. PrepareFields(L, M)
  BY PrepareStructure
<1> HIDE DEF M
<1>2. /\ M \in Structure /\ M.heap = L.heap /\ M.blocks = L.blocks
      /\ M.shared = L.shared /\ M.count = L.count
  BY <1>1 DEF PrepareFields
<1>3. Safe(M)
  BY <1>2, SafeFields
<1>4. \A g : GroupEnd(M, g) = GroupEnd(L, g) /\ GroupRows(M, g) = GroupRows(L, g)
  BY <1>2 DEF GroupEnd, GroupRows, Contents
<1>5. Current(M)
  <2> SUFFICES ASSUME NEW g \in DOMAIN M.groups, M.groups[g].valid
               PROVE  /\ (g - 1) * GroupRecords < L.count
                      /\ M.groups[g].end = GroupEnd(L, g)
                      /\ M.groups[g].rows = GroupRows(L, g)
    BY <1>2, <1>4 DEF Current
  <2>1. CASE g \in DOMAIN L.groups /\ M.groups[g] = L.groups[g]
    BY <2>1 DEF Current
  <2>2. CASE /\ g \in Kept(L)
             /\ M.groups[g] = [valid |-> TRUE, end |-> GroupEnd(L, g), rows |-> GroupRows(L, g)]
    <3>1. g \in Nat \ {0} /\ GroupEnd(L, g) >= (g - 1) * GroupRecords + GroupMin
      BY <2>2, SizesAssumption DEF Kept
    <3>2. GroupEnd(L, g) \in Nat /\ GroupEnd(L, g) <= L.count /\ L.count \in Nat
      BY <3>1, GroupRowsType, ContentsOf
    <3>3. (g - 1) * GroupRecords \in Nat /\ GroupMin \in Nat \ {0}
      BY <3>1, SizesAssumption
    <3>4. (g - 1) * GroupRecords < L.count
      BY <3>1, <3>2, <3>3
    <3> QED BY <2>2, <3>4
  <2> QED BY <1>1, <2>1, <2>2 DEF PrepareFields
<1> QED BY <1>2, <1>3, <1>5 DEF M

-----------------------------------------------------------------------------
(* Collecting what nobody points to changes nothing that anybody sees.     *)

(* The fields of M, the structure after a collection.                      *)
CollectedFields(L, M, vs) ==
    /\ M \in Structure /\ M.blocks = L.blocks /\ M.shared = L.shared
    /\ M.groups = L.groups /\ M.count = L.count
    /\ \A a \in Reached(L.blocks) : a \in Arrays => M.heap[a] = L.heap[a]
    /\ \A w \in Views : \A a \in Reached(vs[w]) : a \in Arrays => M.heap[a] = L.heap[a]

(* The fields of the structure after a collection.                         *)
LEMMA CollectedStructure ==
    ASSUME NEW L \in Structure, NEW vs
    PROVE  CollectedFields(L, Collected(L, vs), vs)
<1> DEFINE live == Reached(L.blocks) \cup UNION {Reached(vs[w]) : w \in Views}
           heap == [a \in Arrays |-> IF a \in live THEN L.heap[a] ELSE <<>>]
           M == Collected(L, vs)
<1>1. M = [L EXCEPT !.heap = heap]
  BY DEF Collected
<1>2. L.heap \in [Arrays -> Seq(Values \cup {Blank})] /\ <<>> \in Seq(Values \cup {Blank})
  BY EmptySeq DEF Structure
<1>3. heap \in [Arrays -> Seq(Values \cup {Blank})] /\ \A a \in Arrays : a \in live => heap[a] = L.heap[a]
  BY <1>2
<1>4. Reached(L.blocks) \subseteq live /\ \A w \in Views : Reached(vs[w]) \subseteq live
  OBVIOUS
<1> HIDE DEF live, heap, M
<1>5. /\ M \in Structure /\ M.heap = heap /\ M.blocks = L.blocks /\ M.shared = L.shared
      /\ M.groups = L.groups /\ M.count = L.count
  BY <1>1, <1>3 DEF Structure
<1> QED BY <1>3, <1>4, <1>5 DEF CollectedFields, M

(* Collecting keeps the invariant and the rows of the model.               *)
LEMMA CollectedEffect ==
    ASSUME NEW L, Safe(L), Current(L), NEW vs, NEW M, CollectedFields(L, M, vs)
    PROVE  /\ Safe(M) /\ Current(M) /\ Contents(M) = Contents(L)
<1>1. /\ M \in Structure /\ M.blocks = L.blocks /\ M.shared = L.shared
      /\ M.groups = L.groups /\ M.count = L.count /\ L.blocks \in Seq(Header)
  BY DEF CollectedFields, Safe, Structure
<1>2. \A b \in DOMAIN L.blocks : M.heap[L.blocks[b].arr] = L.heap[L.blocks[b].arr]
  <2>1. \A b \in DOMAIN L.blocks : L.blocks[b].arr \in Reached(L.blocks) /\ L.blocks[b].arr \in Arrays
    BY <1>1, HeaderType DEF Reached
  <2> QED BY <2>1 DEF CollectedFields
<1>3. \A c : IsShared(M, c) <=> IsShared(L, c)
  BY <1>1 DEF IsShared
<1>4. Safe(M)
  <2>1. Filled(M)
    BY <1>1, <1>2 DEF Safe, Filled
  <2>2. TailsBlank(M)
    BY <1>1, <1>2, <1>3 DEF Safe, TailsBlank
  <2>3. Distinct(M) /\ Marked(M)
    BY <1>1, <1>3 DEF Safe, Distinct, Marked
  <2> QED BY <1>1, <2>1, <2>2, <2>3 DEF Safe
<1>5. \A k \in 0 .. L.count - 1 : At(M, k) = At(L, k)
  <2>1. \A k \in 0 .. L.count - 1 : BlockOf(k) \in DOMAIN L.blocks
    BY ContentsOf, RowPosition DEF Safe
  <2> QED BY <1>1, <1>2, <2>1 DEF At
<1>6. Contents(M) = Contents(L)
  <2>1. Contents(L) \in Seq(Values) /\ Len(Contents(L)) = L.count
        /\ Contents(M) \in Seq(Values) /\ Len(Contents(M)) = L.count
    BY <1>1, <1>4, ContentsType
  <2>2. \A i \in 1 .. L.count : i - 1 \in 0 .. L.count - 1
    BY ContentsOf
  <2>3. \A i \in 1 .. L.count : Contents(M)[i] = Contents(L)[i]
    BY <1>1, <1>4, <1>5, <2>2, ContentsType
  <2> QED BY <2>1, <2>3, SeqEqual
<1>7. \A g : GroupEnd(M, g) = GroupEnd(L, g) /\ GroupRows(M, g) = GroupRows(L, g)
  BY <1>1, <1>6 DEF GroupEnd, GroupRows
<1>8. Current(M)
  BY <1>1, <1>7 DEF Current
<1> QED BY <1>4, <1>6, <1>8

-----------------------------------------------------------------------------
(* What the readers see.                                                   *)

FrozenRows(heap, vs) == [w \in Views |-> Rows(heap, vs[w])]

(* Views whose rows did not change show the same.                          *)
LEMMA FrozenKept ==
    ASSUME ViewsShaped, NEW L, NEW M, SameFrozen(L, M)
    PROVE  FrozenRows(M.heap, views) = FrozenRows(L.heap, views)
<1> SUFFICES ASSUME NEW w \in Views
             PROVE  Rows(M.heap, views[w]) = Rows(L.heap, views[w])
  BY DEF FrozenRows
<1>1. PICK n \in 0 .. MaxCount : Shaped(views[w], n)
  BY DEF ViewsShaped
<1>2. n \in Nat
  BY SizesAssumption
<1>3. Rows(M.heap, views[w]) = RowsAt(M.heap, views[w], n) /\ Rows(L.heap, views[w]) = RowsAt(L.heap, views[w], n)
  BY <1>1, <1>2, RowsOfShaped
<1>4. ASSUME NEW i \in 1 .. n
      PROVE  M.heap[views[w][BlockOf(i - 1)].arr][SlotOf(i - 1)]
               = L.heap[views[w][BlockOf(i - 1)].arr][SlotOf(i - 1)]
  <2>1. i - 1 \in 0 .. n - 1
    BY <1>2
  <2>2. BlockOf(i - 1) \in DOMAIN views[w] /\ SlotOf(i - 1) \in 1 .. views[w][BlockOf(i - 1)].len
    BY <1>1, <1>2, <2>1, RowPosition
  <2> QED BY <2>2 DEF SameFrozen
<1>5. RowsAt(M.heap, views[w], n) = RowsAt(L.heap, views[w], n)
  BY <1>4 DEF RowsAt
<1> QED BY <1>3, <1>5

(* Collecting keeps the rows of every view.                                *)
LEMMA CollectedFrozen ==
    ASSUME NEW L, NEW vs \in [Views -> Seq(Header)], NEW M, CollectedFields(L, M, vs),
           NEW w \in Views, NEW n \in Nat, Shaped(vs[w], n)
    PROVE  Rows(M.heap, vs[w]) = Rows(L.heap, vs[w])
<1>1. Rows(M.heap, vs[w]) = RowsAt(M.heap, vs[w], n) /\ Rows(L.heap, vs[w]) = RowsAt(L.heap, vs[w], n)
  BY RowsOfShaped
<1>2. ASSUME NEW i \in 1 .. n
      PROVE  M.heap[vs[w][BlockOf(i - 1)].arr] = L.heap[vs[w][BlockOf(i - 1)].arr]
  <2>1. i - 1 \in 0 .. n - 1 /\ vs[w] \in Seq(Header)
    OBVIOUS
  <2>2. BlockOf(i - 1) \in DOMAIN vs[w]
    BY <2>1, RowPosition
  <2>3. vs[w][BlockOf(i - 1)].arr \in Arrays /\ vs[w][BlockOf(i - 1)].arr \in Reached(vs[w])
    BY <2>1, <2>2, HeaderType DEF Reached
  <2> QED BY <2>3 DEF CollectedFields
<1>3. RowsAt(M.heap, vs[w], n) = RowsAt(L.heap, vs[w], n)
  BY <1>2 DEF RowsAt
<1> QED BY <1>1, <1>3

(* Marking every block freezes it.                                         *)
LEMMA FreezeEffect ==
    ASSUME NEW L, Safe(L), Current(L)
    PROVE  LET M == Freeze(L)
           IN  /\ Safe(M) /\ Current(M) /\ M.heap = L.heap /\ M.blocks = L.blocks
               /\ M.count = L.count /\ \A b \in DOMAIN L.blocks : IsShared(M, b)
<1> DEFINE shared == [b \in DOMAIN L.blocks |-> TRUE]
           M == Freeze(L)
<1>1. L \in Structure /\ L.blocks \in Seq(Header)
  BY DEF Safe, Structure
<1>2. CASE L.count = 0
  <2>1. M = L /\ L.blocks = <<>>
    BY <1>2 DEF Freeze, Safe, Shaped
  <2> QED BY <2>1
<1>3. CASE L.count # 0
  <2>1. M = [L EXCEPT !.shared = shared]
    BY <1>3 DEF Freeze
  <2>2. shared \in [1 .. Len(L.blocks) -> BOOLEAN] /\ Len(L.blocks) \in Nat
    BY <1>1
  <2>3. shared \in Seq(BOOLEAN) /\ Len(shared) = Len(L.blocks)
    <3> HIDE DEF shared
    <3>1. shared \in Seq(BOOLEAN) /\ DOMAIN shared = 1 .. Len(L.blocks)
      BY <2>2, SeqDef
    <3> QED BY <2>2, <3>1
  <2>4. DOMAIN shared = DOMAIN L.blocks /\ \A b \in DOMAIN L.blocks : shared[b]
    OBVIOUS
  <2> HIDE DEF shared, M
  <2>5. /\ M \in Structure /\ M.heap = L.heap /\ M.blocks = L.blocks /\ M.shared = shared
        /\ M.groups = L.groups /\ M.count = L.count
    BY <1>1, <2>1, <2>3 DEF Structure
  <2>6. \A b \in DOMAIN L.blocks : IsShared(M, b)
    BY <2>4, <2>5 DEF IsShared
  <2>7. Filled(M) /\ TailsBlank(M) /\ Distinct(M)
    BY <2>5, <2>6 DEF Safe, Filled, TailsBlank, Distinct
  <2>8. Marked(M)
    BY <2>5, <2>6 DEF Safe, Marked
  <2>9. Len(shared) <= Len(L.blocks)
    BY <2>2, <2>3
  <2>10. Safe(M)
    BY <2>5, <2>7, <2>8, <2>9 DEF Safe
  <2>11. \A g : GroupEnd(M, g) = GroupEnd(L, g) /\ GroupRows(M, g) = GroupRows(L, g)
    BY <2>5 DEF GroupEnd, GroupRows, Contents
  <2>12. Current(M)
    BY <2>5, <2>11 DEF Current
  <2> QED BY <2>5, <2>6, <2>10, <2>12 DEF M
<1> QED BY <1>2, <1>3

-----------------------------------------------------------------------------
(* The operations, seen as those of a sequence.                            *)

(* An append is one of the sequence.                                       *)
LEMMA AppendAdds ==
    ASSUME NEW L, Safe(L), NEW M, Safe(M), NEW v \in Values, Appended(L, M, v)
    PROVE  Contents(M) = Append(Contents(L), v)
<1>1. /\ Contents(L) \in Seq(Values) /\ Len(Contents(L)) = L.count /\ L.count \in Nat
      /\ Contents(M) \in Seq(Values) /\ Len(Contents(M)) = L.count + 1
      /\ \A i \in 1 .. L.count : Contents(L)[i] = At(L, i - 1)
      /\ \A i \in 1 .. L.count + 1 : Contents(M)[i] = At(M, i - 1)
  BY ContentsType, ContentsOf DEF Appended
<1>2. \A k \in 0 .. L.count : At(M, k) = IF k = L.count THEN v ELSE At(L, k)
  BY DEF Appended
<1> DEFINE s == Contents(L)  t == Contents(M)
<1> HIDE DEF s, t
<1>3. /\ Append(s, v) \in Seq(Values) /\ Len(Append(s, v)) = L.count + 1
      /\ \A i \in 1 .. L.count : Append(s, v)[i] = s[i]
      /\ Append(s, v)[L.count + 1] = v
  BY <1>1, AppendProperties DEF s
<1>4. ASSUME NEW i \in 1 .. L.count + 1 PROVE t[i] = Append(s, v)[i]
  <2>1. i - 1 \in 0 .. L.count /\ (i = L.count + 1 \/ i \in 1 .. L.count)
    BY <1>1
  <2>2. CASE i = L.count + 1
    <3>1. i - 1 = L.count
      BY <1>1, <2>2
    <3>2. t[i] = v
      BY <1>1, <1>2, <2>1, <3>1 DEF t
    <3> QED BY <1>3, <2>2, <3>2
  <2>3. CASE i \in 1 .. L.count
    <3>1. i - 1 # L.count
      BY <1>1, <2>3
    <3>2. t[i] = s[i]
      BY <1>1, <1>2, <2>1, <2>3, <3>1 DEF s, t
    <3> QED BY <1>3, <2>3, <3>2
  <2> QED BY <2>1, <2>2, <2>3
<1>5. t = Append(s, v)
  BY <1>1, <1>3, <1>4, SeqEqual DEF t
<1> QED BY <1>5 DEF s, t

(* A rewrite is one of the sequence.                                       *)
LEMMA PutRewrites ==
    ASSUME NEW L, Safe(L), NEW M, Safe(M), NEW v \in Values, NEW i \in 0 .. L.count - 1,
           Rewrote(L, M, i, v)
    PROVE  i + 1 \in DOMAIN Contents(L) /\ Contents(M) = [Contents(L) EXCEPT ![i + 1] = v]
<1> DEFINE s == Contents(L)  t == Contents(M)
<1>1. /\ s \in Seq(Values) /\ Len(s) = L.count /\ L.count \in Nat
      /\ t \in Seq(Values) /\ Len(t) = L.count
      /\ \A j \in 1 .. L.count : s[j] = At(L, j - 1) /\ t[j] = At(M, j - 1)
  BY ContentsType, ContentsOf DEF Rewrote
<1>2. \A k \in 0 .. L.count - 1 : At(M, k) = IF k = i THEN v ELSE At(L, k)
  BY DEF Rewrote
<1> HIDE DEF s, t
<1>3. i + 1 \in DOMAIN s /\ i + 1 \in 1 .. L.count
  BY <1>1
<1>4. /\ [s EXCEPT ![i + 1] = v] \in Seq(Values) /\ Len([s EXCEPT ![i + 1] = v]) = L.count
      /\ \A j \in 1 .. L.count : [s EXCEPT ![i + 1] = v][j] = IF j = i + 1 THEN v ELSE s[j]
  BY <1>1, <1>3, ExceptSeq
<1>5. ASSUME NEW j \in 1 .. L.count PROVE t[j] = IF j = i + 1 THEN v ELSE s[j]
  <2>1. j - 1 \in 0 .. L.count - 1 /\ (j - 1 = i <=> j = i + 1)
    BY <1>1
  <2>2. t[j] = At(M, j - 1) /\ s[j] = At(L, j - 1)
    BY <1>1
  <2> QED BY <1>2, <2>1, <2>2
<1>6. t = [s EXCEPT ![i + 1] = v]
  BY <1>1, <1>4, <1>5, SeqEqual
<1> QED BY <1>3, <1>6 DEF s, t

(* A removal drops one row of the sequence.                                *)
LEMMA RemoveDrops ==
    ASSUME NEW L, Safe(L), NEW M, Safe(M), NEW i \in 0 .. L.count - 1, M.count = L.count - 1,
           \A k \in 0 .. L.count - 2 : At(M, k) = IF k < i THEN At(L, k) ELSE At(L, k + 1)
    PROVE  Sequence!DroppedOne(Contents(L), Contents(M))
<1> DEFINE s == Contents(L)  t == Contents(M)  p == i + 1
           left == SubSeq(s, 1, p - 1)
           right == SubSeq(s, p + 1, Len(s))
<1>1. /\ s \in Seq(Values) /\ Len(s) = L.count /\ L.count \in Nat
      /\ t \in Seq(Values) /\ Len(t) = L.count - 1
      /\ \A j \in 1 .. L.count : s[j] = At(L, j - 1)
      /\ \A j \in 1 .. L.count - 1 : t[j] = At(M, j - 1)
  BY ContentsType, ContentsOf
<1>2. p \in 1 .. L.count /\ p - 1 = i
  BY <1>1
<1>3. \A j \in 1 .. L.count : s[j] \in Values
  <2> HIDE DEF s
  <2> QED BY <1>1
<1> HIDE DEF s, t, p
<1>4. /\ left \in Seq(Values) /\ Len(left) = p - 1
      /\ \A j \in 1 .. p - 1 : left[j] = s[j]
  <2>1. /\ left \in Seq(Values) /\ Len(left) = IF 1 <= p - 1 THEN p - 1 - 1 + 1 ELSE 0
        /\ \A j \in 1 .. p - 1 - 1 + 1 : left[j] = s[1 + j - 1]
    <3>1. 1 \in Int /\ p - 1 \in Int /\ \A j \in 1 .. p - 1 : s[j] \in Values
      BY <1>1, <1>2, <1>3
    <3> QED BY <3>1, SubSeqProperties
  <2> HIDE DEF left
  <2> QED BY <1>1, <1>2, <2>1
<1>5. /\ right \in Seq(Values) /\ Len(right) = L.count - p
      /\ \A j \in 1 .. L.count - p : right[j] = s[p + j]
  <2>1. /\ right \in Seq(Values) /\ Len(right) = IF p + 1 <= Len(s) THEN Len(s) - (p + 1) + 1 ELSE 0
        /\ \A j \in 1 .. Len(s) - (p + 1) + 1 : right[j] = s[(p + 1) + j - 1]
    <3>1. p + 1 \in Int /\ Len(s) \in Int /\ \A j \in p + 1 .. Len(s) : s[j] \in Values
      BY <1>1, <1>2, <1>3
    <3> QED BY <3>1, SubSeqProperties
  <2> HIDE DEF right
  <2>2. \A j \in 1 .. L.count - p : j \in 1 .. Len(s) - (p + 1) + 1 /\ (p + 1) + j - 1 = p + j
    BY <1>1, <1>2
  <2> QED BY <1>1, <1>2, <2>1, <2>2
<1> HIDE DEF left, right
<1>6. /\ left \o right \in Seq(Values) /\ Len(left \o right) = L.count - 1
      /\ \A j \in 1 .. L.count - 1 : (left \o right)[j] = IF j <= p - 1 THEN left[j] ELSE right[j - (p - 1)]
  <2>1. left \in Seq(Values) /\ right \in Seq(Values) /\ Len(left) = p - 1 /\ Len(right) = L.count - p
    BY <1>4, <1>5
  <2>2. L.count \in Nat /\ p \in 1 .. L.count
    BY <1>1, <1>2
  <2>3. Len(left) + Len(right) = L.count - 1
    BY ONLY <2>1, <2>2
  <2>4. /\ left \o right \in Seq(Values)
        /\ Len(left \o right) = Len(left) + Len(right)
        /\ \A j \in 1 .. Len(left) + Len(right) : (left \o right)[j] =
              IF j <= Len(left) THEN left[j] ELSE right[j - Len(left)]
    BY <2>1, ConcatProperties
  <2> QED BY <2>1, <2>3, <2>4
<1>7. ASSUME NEW j \in 1 .. L.count - 1 PROVE t[j] = (left \o right)[j]
  <2>1. j - 1 \in 0 .. L.count - 2 /\ t[j] = At(M, j - 1)
    BY <1>1
  <2>2. t[j] = IF j - 1 < i THEN At(L, j - 1) ELSE At(L, (j - 1) + 1)
    BY <2>1
  <2>3. s[j] = At(L, j - 1) /\ s[j + 1] = At(L, (j - 1) + 1)
    <3>1. j \in 1 .. L.count /\ j + 1 \in 1 .. L.count /\ (j + 1) - 1 = (j - 1) + 1
      BY <1>1
    <3> QED BY <1>1, <3>1
  <2>4. CASE j <= p - 1
    BY <1>2, <1>4, <1>6, <2>2, <2>3, <2>4
  <2>5. CASE ~(j <= p - 1)
    <3>1. j - (p - 1) \in 1 .. L.count - p /\ p + (j - (p - 1)) = j + 1 /\ ~(j - 1 < i)
      <4>1. L.count \in Nat /\ p \in Nat /\ i \in Nat /\ p = i + 1
        BY <1>1, <1>2
      <4> HIDE DEF p
      <4> QED BY ONLY <4>1, <2>5, j \in 1 .. L.count - 1
    <3>2. (left \o right)[j] = s[j + 1]
      BY <1>5, <1>6, <2>5, <3>1
    <3> QED BY <2>2, <2>3, <3>1, <3>2
  <2> QED BY <2>4, <2>5
<1>8. t = left \o right
  BY <1>1, <1>6, <1>7, SeqEqual
<1>9. p \in DOMAIN s
  BY <1>1, <1>2
<1> QED BY <1>8, <1>9 DEF Sequence!DroppedOne, s, t, left, right

(* Pruning drops the rows outside the retention window, in one step.       *)
LEMMA PruneDrops ==
    ASSUME NEW L, Safe(L), NEW M, NEW old \in SUBSET Values, Pruned(L, M, old)
    PROVE  Sequence!DroppedAll(Contents(L), Contents(M))
<1> DEFINE s == Contents(L)  t == Contents(M)
<1>1. /\ s \in Seq(Values) /\ Len(s) = L.count /\ L.count \in Nat
      /\ t \in Seq(Values) /\ Len(t) = M.count /\ M.count \in Nat
      /\ \A j \in 1 .. L.count : s[j] = At(L, j - 1)
      /\ \A j \in 1 .. M.count : t[j] = At(M, j - 1)
  BY ContentsType, ContentsOf DEF Pruned
<1>2. PICK map : /\ Selected(L, old, L.count, M.count, map)
                 /\ \A m \in 0 .. M.count - 1 : At(M, m) = At(L, map[m])
  BY DEF Pruned
<1> HIDE DEF s, t
<1>3. DOMAIN s = 1 .. L.count /\ DOMAIN t = 1 .. M.count
  BY <1>1
<1> DEFINE kept == [i \in 1 .. M.count |-> map[i - 1] + 1]
<1>4. \A m \in 0 .. M.count - 1 : map[m] \in 0 .. L.count - 1
  BY <1>2 DEF Selected
<1>5. \A i \in 1 .. M.count : /\ i - 1 \in 0 .. M.count - 1
                                /\ kept[i] = map[i - 1] + 1 /\ kept[i] \in 1 .. L.count
                                /\ kept[i] - 1 = map[i - 1]
  <2> SUFFICES ASSUME NEW i \in 1 .. M.count
               PROVE  /\ i - 1 \in 0 .. M.count - 1
                      /\ kept[i] = map[i - 1] + 1 /\ kept[i] \in 1 .. L.count
                      /\ kept[i] - 1 = map[i - 1]
    OBVIOUS
  <2>1. i - 1 \in 0 .. M.count - 1
    BY <1>1
  <2>2. kept[i] = map[i - 1] + 1
    OBVIOUS
  <2>3. map[i - 1] \in 0 .. L.count - 1
    BY <1>4, <2>1
  <2> HIDE DEF kept
  <2> QED BY <1>1, <2>1, <2>2, <2>3
<1>6. kept \in [DOMAIN t -> DOMAIN s]
  BY <1>3, <1>5
<1> HIDE DEF kept
<1>7. \A i \in DOMAIN t : t[i] = s[kept[i]]
  <2> SUFFICES ASSUME NEW i \in 1 .. M.count PROVE t[i] = s[kept[i]]
    BY <1>3
  <2>1. t[i] = At(M, i - 1) /\ At(M, i - 1) = At(L, map[i - 1])
    BY <1>1, <1>2, <1>5
  <2>2. kept[i] \in 1 .. L.count /\ kept[i] - 1 = map[i - 1]
    BY <1>5
  <2>3. s[kept[i]] = At(L, kept[i] - 1)
    BY <1>1, <2>2
  <2> QED BY <2>1, <2>2, <2>3
<1>8. \A i, j \in DOMAIN t : i < j => kept[i] < kept[j]
  <2> SUFFICES ASSUME NEW i \in 1 .. M.count, NEW j \in 1 .. M.count, i < j PROVE kept[i] < kept[j]
    BY <1>3
  <2>1. i - 1 < j - 1
    OBVIOUS
  <2>2. map[i - 1] < map[j - 1]
    BY <1>2, <1>5, <2>1 DEF Selected
  <2> QED BY <1>4, <1>5, <2>2
<1>9. {kept[i] : i \in DOMAIN t} = {i \in DOMAIN s : s[i] \notin old}
  <2>1. ASSUME NEW i \in 1 .. M.count PROVE kept[i] \in 1 .. L.count /\ s[kept[i]] \notin old
    <3>1. map[i - 1] \in {k \in 0 .. L.count - 1 : At(L, k) \notin old}
      BY <1>2, <1>5 DEF Selected
    <3> QED BY <1>1, <1>5, <3>1
  <2>2. ASSUME NEW j \in 1 .. L.count, s[j] \notin old PROVE \E i \in 1 .. M.count : kept[i] = j
    <3>1. j - 1 \in {k \in 0 .. L.count - 1 : At(L, k) \notin old}
      BY <1>1, <2>2
    <3>2. PICK m \in 0 .. M.count - 1 : map[m] = j - 1
      BY <1>2, <3>1 DEF Selected
    <3>3. m + 1 \in 1 .. M.count /\ (m + 1) - 1 = m
      BY <1>1
    <3>4. kept[m + 1] = j
      BY <1>5, <3>2, <3>3
    <3> QED BY <3>3, <3>4
  <2> QED BY <1>3, <2>1, <2>2
<1> QED BY <1>6, <1>7, <1>8, <1>9 DEF Sequence!DroppedAll, s, t

-----------------------------------------------------------------------------
(* The invariant, and what each action is to the sequence.                 *)

BlocksInvariant == Safe(ledger) /\ Current(ledger) /\ ViewsShaped

Frozen == FrozenRows(ledger.heap, views)

(* The invariant of a structure is that of the ledger it becomes.          *)
LEMMA SafeAfter ==
    ASSUME NEW M, Safe(M), Current(M), ledger' = M, UNCHANGED views
    PROVE  Safe(ledger)' /\ Current(ledger)'
<1>1. Marked(ledger)'
  BY DEF Safe, Marked, IsShared
<1>2. /\ (ledger \in Structure)' /\ Shaped(ledger.blocks, ledger.count)'
      /\ Filled(ledger)' /\ TailsBlank(ledger)' /\ Distinct(ledger)'
      /\ (ledger.count <= MaxCount)' /\ (Len(ledger.shared) <= Len(ledger.blocks))'
  BY DEF Safe
<1>3. Current(ledger)'
  OBVIOUS
<1> QED BY <1>1, <1>2, <1>3 DEF Safe

(* The collection after an operation is not visible.                       *)
LEMMA BecomeStep ==
    ASSUME BlocksInvariant, NEW M, Safe(M), Current(M), SameFrozen(ledger, M), Become(M)
    PROVE  BlocksInvariant' /\ Contents(ledger)' = Contents(M) /\ Frozen' = Frozen
<1> DEFINE C == Collected(M, views)
<1>1. ledger' = C /\ UNCHANGED views
  BY DEF Become
<1>2. CollectedFields(M, C, views)
  BY CollectedStructure DEF Safe
<1>3. Safe(C) /\ Current(C) /\ Contents(C) = Contents(M)
  BY <1>2, CollectedEffect
<1> HIDE DEF C
<1>4. Safe(ledger)' /\ Current(ledger)'
  BY <1>1, <1>3, SafeAfter
<1>5. ViewsShaped'
  BY <1>1 DEF BlocksInvariant, ViewsShaped
<1>6. FrozenRows(C.heap, views) = FrozenRows(M.heap, views)
  <2>1. ASSUME NEW w \in Views PROVE Rows(C.heap, views[w]) = Rows(M.heap, views[w])
    <3>1. PICK n \in 0 .. MaxCount : Shaped(views[w], n)
      BY DEF BlocksInvariant, ViewsShaped
    <3>2. n \in Nat /\ views \in [Views -> Seq(Header)]
      BY SizesAssumption DEF BlocksInvariant, ViewsShaped
    <3> QED BY <1>2, <3>1, <3>2, CollectedFrozen
  <2> QED BY <2>1 DEF FrozenRows
<1>7. FrozenRows(M.heap, views) = FrozenRows(ledger.heap, views)
  BY FrozenKept DEF BlocksInvariant
<1>8. Contents(ledger)' = Contents(M)
  BY <1>1, <1>3
<1>9. Frozen' = Frozen
  BY <1>1, <1>6, <1>7 DEF Frozen
<1> QED BY <1>4, <1>5, <1>8, <1>9 DEF BlocksInvariant

(* A step of the blocks is one of the sequence, or changes nothing of it.  *)
StepOfSequence == Sequence!FrozenNext \/ UNCHANGED Sequence!fvars

(* A change of the contents that leaves the views alone is a step of the   *)
(* sequence.                                                               *)
LEMMA ChangeStep ==
    ASSUME NEW new, Contents(ledger)' = new, Frozen' = Frozen,
           \/ Sequence!Added(Contents(ledger), new) \/ Sequence!Rewritten(Contents(ledger), new)
           \/ Sequence!DroppedOne(Contents(ledger), new) \/ Sequence!DroppedAll(Contents(ledger), new)
    PROVE  StepOfSequence
BY DEF StepOfSequence, Sequence!FrozenNext, Sequence!Change, Frozen, FrozenRows

(* Archiving a row.                                                        *)
LEMMA ArchiveStep ==
    ASSUME BlocksInvariant, NEW v \in Values, ArchiveDetail(v)
    PROVE  BlocksInvariant' /\ StepOfSequence
<1> DEFINE M == AppendRow(ledger, v)
<1>1. Safe(M) /\ Appended(ledger, M, v)
  BY AppendEffect DEF BlocksInvariant, ArchiveDetail
<1>2. Become(M)
  BY DEF ArchiveDetail
<1> HIDE DEF M
<1>3. Current(M) /\ SameFrozen(ledger, M)
  BY <1>1, AppendCurrent DEF BlocksInvariant, Appended
<1>4. BlocksInvariant' /\ Contents(ledger)' = Contents(M) /\ Frozen' = Frozen
  BY <1>1, <1>2, <1>3, BecomeStep
<1>5. Contents(M) = Append(Contents(ledger), v)
  BY <1>1, AppendAdds DEF BlocksInvariant
<1>6. Sequence!Added(Contents(ledger), Contents(M))
  BY <1>5 DEF Sequence!Added
<1> QED BY <1>4, <1>6, ChangeStep

(* Rewriting a row.                                                        *)
LEMMA SetStep ==
    ASSUME BlocksInvariant, NEW i \in 0 .. ledger.count - 1, NEW v \in Values, SetDetailAt(i, v)
    PROVE  BlocksInvariant' /\ StepOfSequence
<1> DEFINE M == Put(ledger, i, v)
<1>1. Safe(M) /\ Rewrote(ledger, M, i, v)
  BY PutEffect DEF BlocksInvariant
<1>2. Become(M)
  BY DEF SetDetailAt
<1> HIDE DEF M
<1>3. Current(M) /\ SameFrozen(ledger, M)
  BY <1>1, PutCurrent DEF BlocksInvariant, Rewrote
<1>4. BlocksInvariant' /\ Contents(ledger)' = Contents(M) /\ Frozen' = Frozen
  BY <1>1, <1>2, <1>3, BecomeStep
<1>5. i + 1 \in DOMAIN Contents(ledger) /\ Contents(M) = [Contents(ledger) EXCEPT ![i + 1] = v]
  BY <1>1, PutRewrites DEF BlocksInvariant
<1>6. Sequence!Rewritten(Contents(ledger), Contents(M))
  BY <1>5 DEF Sequence!Rewritten
<1> QED BY <1>4, <1>6, ChangeStep

(* Removing a row.                                                         *)
LEMMA RemoveStep ==
    ASSUME BlocksInvariant, NEW i \in 0 .. ledger.count - 1, RemoveDetailAt(i)
    PROVE  BlocksInvariant' /\ StepOfSequence
<1> DEFINE M == RemoveRow(ledger, i)
<1>1. /\ Safe(M) /\ Current(M) /\ M.count = ledger.count - 1 /\ SameFrozen(ledger, M)
      /\ \A k \in 0 .. ledger.count - 2 :
           At(M, k) = IF k < i THEN At(ledger, k) ELSE At(ledger, k + 1)
  BY RemoveEffect DEF BlocksInvariant
<1>2. Become(M)
  BY DEF RemoveDetailAt
<1> HIDE DEF M
<1>3. BlocksInvariant' /\ Contents(ledger)' = Contents(M) /\ Frozen' = Frozen
  BY <1>1, <1>2, BecomeStep
<1>4. Sequence!DroppedOne(Contents(ledger), Contents(M))
  BY <1>1, RemoveDrops DEF BlocksInvariant
<1> QED BY <1>3, <1>4, ChangeStep

(* Pruning.                                                                *)
LEMMA PruneStep ==
    ASSUME BlocksInvariant, NEW old \in SUBSET Values, PruneAccounting(old)
    PROVE  BlocksInvariant' /\ StepOfSequence
<1> DEFINE M == PruneRows(ledger, old)
<1>1. Pruned(ledger, M, old)
  BY PruneEffect DEF BlocksInvariant
<1>2. Become(M)
  BY DEF PruneAccounting
<1> HIDE DEF M
<1>3. BlocksInvariant' /\ Contents(ledger)' = Contents(M) /\ Frozen' = Frozen
  BY <1>1, <1>2, BecomeStep DEF Pruned
<1>4. Sequence!DroppedAll(Contents(ledger), Contents(M))
  BY <1>1, PruneDrops DEF BlocksInvariant
<1> QED BY <1>3, <1>4, ChangeStep

(* A query is no step of the sequence.                                     *)
LEMMA QueryStep ==
    ASSUME BlocksInvariant, QueryRange
    PROVE  BlocksInvariant' /\ StepOfSequence
<1> DEFINE M == Prepare(ledger)
<1>1. /\ Safe(M) /\ Current(M) /\ M.heap = ledger.heap /\ M.blocks = ledger.blocks
      /\ M.count = ledger.count /\ M.shared = ledger.shared
  BY PrepareEffect DEF BlocksInvariant
<1>2. Become(M)
  BY DEF QueryRange
<1> HIDE DEF M
<1>3. SameFrozen(ledger, M) /\ Contents(M) = Contents(ledger)
  BY <1>1 DEF SameFrozen, Contents
<1>4. BlocksInvariant' /\ Contents(ledger)' = Contents(M) /\ Frozen' = Frozen
  BY <1>1, <1>2, <1>3, BecomeStep
<1>5. UNCHANGED Sequence!fvars
  BY <1>3, <1>4 DEF Sequence!fvars, Frozen, FrozenRows
<1> QED BY <1>4, <1>5 DEF StepOfSequence

(* Freezing: the reader's copy is the sequence of that moment.             *)
LEMMA CaptureStep ==
    ASSUME BlocksInvariant, NEW w \in Views, CaptureView(w)
    PROVE  BlocksInvariant' /\ StepOfSequence
<1> DEFINE M == Freeze(ledger)
<1>1. /\ Safe(M) /\ Current(M) /\ M.heap = ledger.heap /\ M.blocks = ledger.blocks
      /\ M.count = ledger.count /\ \A b \in DOMAIN ledger.blocks : IsShared(M, b)
  BY FreezeEffect DEF BlocksInvariant
<1>2. ledger' = M /\ views' = [views EXCEPT ![w] = ledger.blocks]
  BY DEF CaptureView
<1> HIDE DEF M
<1>3. /\ views \in [Views -> Seq(Header)] /\ ledger.blocks \in Seq(Header)
      /\ Shaped(ledger.blocks, ledger.count) /\ ledger.count \in 0 .. MaxCount
  BY SizesAssumption DEF BlocksInvariant, ViewsShaped, Safe, Structure
<1>4. views' \in [Views -> Seq(Header)] /\ views'[w] = ledger.blocks
      /\ \A u \in Views : u # w => views'[u] = views[u]
  BY <1>2, <1>3
<1>5. ViewsShaped'
  <2>1. ASSUME NEW u \in Views PROVE \E n \in 0 .. MaxCount : Shaped(views'[u], n)
    <3>1. CASE u = w
      BY <1>3, <1>4, <3>1
    <3>2. CASE u # w
      BY <1>4, <3>2 DEF BlocksInvariant, ViewsShaped
    <3> QED BY <3>1, <3>2
  <2> QED BY <1>4, <2>1 DEF ViewsShaped
<1>6. Marked(ledger)'
  <2> SUFFICES ASSUME NEW u \in Views, NEW c \in DOMAIN views'[u], NEW b \in DOMAIN M.blocks,
                      views'[u][c].arr = M.blocks[b].arr
               PROVE  IsShared(M, b) /\ views'[u][c].len <= M.blocks[b].len
    BY <1>2 DEF Marked
  <2>1. CASE u = w
    <3>1. c = b
      BY <1>1, <1>4, <2>1 DEF Safe, Distinct
    <3>2. M.blocks[b].len \in 1 .. BlockRecords
      BY <1>1, <1>3, HeaderType
    <3> QED BY <1>1, <1>4, <2>1, <3>1, <3>2
  <2>2. CASE u # w
    BY <1>1, <1>4, <2>2 DEF Safe, Marked
  <2> QED BY <2>1, <2>2
<1>7. Safe(ledger)' /\ Current(ledger)'
  BY <1>1, <1>2, <1>6 DEF Safe
<1>8. Contents(ledger)' = Contents(ledger)
  BY <1>1, <1>2 DEF Contents
<1>9. Frozen' = [Frozen EXCEPT ![w] = Contents(ledger)]
  BY <1>1, <1>2, <1>4 DEF Frozen, FrozenRows, Contents
<1>10. Sequence!Copy(w)
  BY <1>9 DEF Sequence!Copy, Frozen, FrozenRows
<1> QED BY <1>5, <1>7, <1>8, <1>10 DEF BlocksInvariant, StepOfSequence, Sequence!FrozenNext

(* A reader that is done discards its copy.                                *)
LEMMA ReleaseStep ==
    ASSUME BlocksInvariant, NEW w \in Views, ReleaseView(w)
    PROVE  BlocksInvariant' /\ StepOfSequence
<1> DEFINE vs == [views EXCEPT ![w] = <<>>]
           M == Collected(ledger, vs)
<1>1. ledger' = M /\ views' = vs
  BY DEF ReleaseView
<1>2. CollectedFields(ledger, M, vs)
  BY CollectedStructure DEF BlocksInvariant, Safe
<1>3. Safe(M) /\ Current(M) /\ Contents(M) = Contents(ledger)
  BY <1>2, CollectedEffect DEF BlocksInvariant
<1> HIDE DEF M
<1>4. /\ vs \in [Views -> Seq(Header)] /\ vs[w] = <<>> /\ \A u \in Views : u # w => vs[u] = views[u]
  BY EmptySeq DEF BlocksInvariant, ViewsShaped
<1> HIDE DEF vs
<1>5. \A u \in Views : \E n \in 0 .. MaxCount : Shaped(vs[u], n)
  <2> SUFFICES ASSUME NEW u \in Views PROVE \E n \in 0 .. MaxCount : Shaped(vs[u], n)
    OBVIOUS
  <2>1. CASE u = w
    <3>1. Shaped(<<>>, 0) /\ 0 \in 0 .. MaxCount
      BY EmptySeq, SizesAssumption DEF Shaped
    <3> QED BY <1>4, <2>1, <3>1
  <2>2. CASE u # w
    BY <1>4, <2>2 DEF BlocksInvariant, ViewsShaped
  <2> QED BY <2>1, <2>2
<1>6. ViewsShaped'
  BY <1>1, <1>4, <1>5 DEF ViewsShaped
<1>7. Marked(ledger)'
  <2> SUFFICES ASSUME NEW u \in Views, NEW c \in DOMAIN vs[u], NEW b \in DOMAIN M.blocks,
                      vs[u][c].arr = M.blocks[b].arr
               PROVE  IsShared(M, b) /\ vs[u][c].len <= M.blocks[b].len
    BY <1>1 DEF Marked
  <2>1. u # w
    BY <1>4
  <2> QED BY <1>3, <1>4, <2>1 DEF Safe, Marked
<1>8. Safe(ledger)' /\ Current(ledger)'
  BY <1>1, <1>3, <1>7 DEF Safe
<1>9. Contents(ledger)' = Contents(ledger)
  BY <1>1, <1>3
<1>10. Frozen' = [Frozen EXCEPT ![w] = <<>>]
  <2>1. ASSUME NEW u \in Views PROVE Rows(M.heap, vs[u]) = IF u = w THEN <<>> ELSE Rows(ledger.heap, views[u])
    <3>1. PICK n \in 0 .. MaxCount : Shaped(vs[u], n)
      BY <1>5
    <3>2. n \in Nat
      BY SizesAssumption
    <3>3. Rows(M.heap, vs[u]) = Rows(ledger.heap, vs[u])
      BY <1>2, <1>4, <3>1, <3>2, CollectedFrozen
    <3>4. Rows(ledger.heap, <<>>) = <<>>
      BY DEF Rows
    <3> QED BY <1>4, <3>3, <3>4
  <2> QED BY <1>1, <2>1 DEF Frozen, FrozenRows
<1>11. Sequence!Discard(w)
  BY <1>10 DEF Sequence!Discard, Frozen, FrozenRows
<1> QED BY <1>6, <1>8, <1>9, <1>11 DEF BlocksInvariant, StepOfSequence, Sequence!FrozenNext

(* The empty structure is the empty sequence.                              *)
LEMMA InitStart ==
    ASSUME Init
    PROVE  BlocksInvariant /\ Sequence!FrozenInit
<1>1. ledger = [heap   |-> [a \in Arrays |-> <<>>], blocks |-> <<>>,
                shared |-> <<>>, groups |-> <<>>, count |-> 0]
      /\ views = [w \in Views |-> <<>>]
  BY DEF Init
<1>2. /\ <<>> \in Seq(Header) /\ <<>> \in Seq(BOOLEAN) /\ <<>> \in Seq(Aggregate)
      /\ <<>> \in Seq(Values \cup {Blank})
  BY EmptySeq
<1>3. ledger \in Structure
  BY <1>1, <1>2 DEF Structure
<1>4. /\ ledger.blocks = <<>> /\ ledger.shared = <<>> /\ ledger.groups = <<>> /\ ledger.count = 0
  BY <1>1
<1>5. Shaped(<<>>, 0) /\ 0 \in 0 .. MaxCount
  BY <1>2, SizesAssumption DEF Shaped
<1>6. Safe(ledger)
  BY <1>3, <1>4, <1>5, SizesAssumption DEF Safe, Filled, TailsBlank, Distinct, Marked
<1>7. Current(ledger)
  BY <1>4 DEF Current
<1>8. ViewsShaped
  BY <1>1, <1>2, <1>5 DEF ViewsShaped
<1>9. \A heap : Rows(heap, <<>>) = <<>>
  BY DEF Rows
<1>10. Contents(ledger) = <<>> /\ [w \in Views |-> Rows(ledger.heap, views[w])] = [w \in Views |-> <<>>]
  BY <1>1, <1>4, <1>9 DEF Contents
<1> QED BY <1>6, <1>7, <1>8, <1>10 DEF BlocksInvariant, Sequence!FrozenInit

(* Every step keeps the invariant and is one of the sequence, or none.     *)
LEMMA NextStep ==
    ASSUME BlocksInvariant, [Next]_vars
    PROVE  BlocksInvariant' /\ StepOfSequence
<1>1. ASSUME NEW v \in Values, ArchiveDetail(v) PROVE BlocksInvariant' /\ StepOfSequence
  BY <1>1, ArchiveStep
<1>2. ASSUME NEW i \in 0 .. ledger.count - 1, RemoveDetailAt(i) PROVE BlocksInvariant' /\ StepOfSequence
  BY <1>2, RemoveStep
<1>3. ASSUME NEW i \in 0 .. ledger.count - 1, NEW v \in Values, SetDetailAt(i, v)
      PROVE  BlocksInvariant' /\ StepOfSequence
  BY <1>3, SetStep
<1>4. ASSUME NEW old \in SUBSET Values, PruneAccounting(old) PROVE BlocksInvariant' /\ StepOfSequence
  BY <1>4, PruneStep
<1>5. ASSUME QueryRange PROVE BlocksInvariant' /\ StepOfSequence
  BY <1>5, QueryStep
<1>6. ASSUME NEW w \in Views, CaptureView(w) PROVE BlocksInvariant' /\ StepOfSequence
  BY <1>6, CaptureStep
<1>7. ASSUME NEW w \in Views, ReleaseView(w) PROVE BlocksInvariant' /\ StepOfSequence
  BY <1>7, ReleaseStep
<1>8. ASSUME UNCHANGED vars PROVE BlocksInvariant' /\ StepOfSequence
  <2>1. ledger' = ledger /\ views' = views
    BY <1>8 DEF vars
  <2>2. Safe(ledger)' /\ Current(ledger)'
    BY <2>1, SafeAfter DEF BlocksInvariant
  <2>3. ViewsShaped'
    BY <2>1 DEF BlocksInvariant, ViewsShaped
  <2>4. UNCHANGED Sequence!fvars
    BY <2>1 DEF Sequence!fvars
  <2> QED BY <2>2, <2>3, <2>4 DEF BlocksInvariant, StepOfSequence
<1> QED BY <1>1, <1>2, <1>3, <1>4, <1>5, <1>6, <1>7, <1>8 DEF Next

(* In every reachable state the blocks are well formed, every array a view *)
(* holds is marked, and no aggregate in use is stale.                      *)
THEOREM BlocksSafe == Spec => []BlocksInvariant
<1>1. Init => BlocksInvariant
  BY InitStart
<1>2. BlocksInvariant /\ [Next]_vars => BlocksInvariant'
  BY NextStep
<1> QED BY <1>1, <1>2, PTL DEF Spec

(* The shape of the structure (accounting_blocks.go): the count is that of *)
(* the rows, every block but the last is full, no two share an array, and  *)
(* what truncation or removal left behind a private block is cleared.      *)
THEOREM BlocksTyped == Spec => []TypeOK
<1>1. BlocksInvariant => TypeOK
  <2> SUFFICES ASSUME BlocksInvariant PROVE TypeOK
    OBVIOUS
  <2> DEFINE L == ledger
  <2>1. Safe(L)
    BY DEF BlocksInvariant
  <2>2. L.count = Len(Contents(L)) /\ \A i \in DOMAIN Contents(L) : Contents(L)[i] \in Values
    <3>1. Contents(L) \in Seq(Values) /\ Len(Contents(L)) = L.count
      BY <2>1, ContentsType
    <3> DEFINE s == Contents(L)
    <3> HIDE DEF s
    <3> QED BY <3>1 DEF s
  <2>3. L.blocks \in Seq(Header) /\ Len(L.shared) <= Len(L.blocks)
    BY <2>1 DEF Safe, Structure
  <2>4. ASSUME NEW b \in DOMAIN L.blocks
        PROVE  /\ L.blocks[b].len \in 1 .. BlockRecords
               /\ b < Len(L.blocks) => L.blocks[b].len = BlockRecords
               /\ L.blocks[b].len <= Len(L.heap[L.blocks[b].arr])
               /\ ~IsShared(L, b)
                    => \A i \in L.blocks[b].len + 1 .. Len(L.heap[L.blocks[b].arr]) :
                         L.heap[L.blocks[b].arr][i] = Blank
               /\ \A c \in DOMAIN L.blocks : b # c => L.blocks[c].arr # L.blocks[b].arr
    <3>1. L.blocks[b].len \in 1 .. BlockRecords
      BY <2>3, HeaderType
    <3>2. b < Len(L.blocks) => b \in 1 .. Len(L.blocks) - 1
      BY <2>3
    <3>3. b < Len(L.blocks) => L.blocks[b].len = BlockRecords
      BY <2>1, <3>2 DEF Safe, Shaped
    <3>4. L.blocks[b].len <= Len(L.heap[L.blocks[b].arr])
      BY <2>1 DEF Safe, Filled
    <3>5. ~IsShared(L, b) => \A i \in L.blocks[b].len + 1 .. Len(L.heap[L.blocks[b].arr]) :
                               L.heap[L.blocks[b].arr][i] = Blank
      BY <2>1 DEF Safe, TailsBlank
    <3>6. \A c \in DOMAIN L.blocks : b # c => L.blocks[c].arr # L.blocks[b].arr
      BY <2>1 DEF Safe, Distinct
    <3> QED BY <3>1, <3>3, <3>4, <3>5, <3>6
  <2> QED BY <2>2, <2>3, <2>4 DEF TypeOK
<1> QED BY <1>1, BlocksSafe, PTL

(* A cached aggregate that a query would reuse (range_cache.go) is the one *)
(* it would compute from the rows now in the group.                        *)
THEOREM AggregatesStayCurrent == Spec => []AggregatesCurrent
<1>1. BlocksInvariant => AggregatesCurrent
  BY DEF BlocksInvariant, Current, AggregatesCurrent
<1> QED BY <1>1, BlocksSafe, PTL

(* The blocks implement a sequence of rows with frozen copies of it: what  *)
(* a snapshot or an export reads without the lock is what it froze.        *)
THEOREM BlocksImplementSequence == Spec => ImplementsFrozenLedger
<1>1. Init => Sequence!FrozenInit
  BY InitStart
<1>2. BlocksInvariant /\ [Next]_vars => [Sequence!FrozenNext]_(Sequence!fvars)
  BY NextStep DEF StepOfSequence
<1> QED BY <1>1, <1>2, BlocksSafe, PTL DEF Spec, Sequence!FrozenSpec, ImplementsFrozenLedger
=============================================================================
