------------------------ MODULE PooledQueueRingProofs ------------------------
(***************************************************************************)
(* Theorems about the rings of PooledQueue: the indices and the cells of a *)
(* ring agree, the rings implement bounded FIFO queues, every slot of the  *)
(* pool is accounted for, and, when no wait times out, no stale slot       *)
(* pointer survives a call and every synchronous call that succeeds was    *)
(* served, exactly once.                                                   *)
(***************************************************************************)
EXTENDS PooledQueueProofs

-----------------------------------------------------------------------------
(***************************************************************************)
(* Lemmas about the cells of a ring.  Everything below uses CellAfter only *)
(* through these four facts.                                               *)
(***************************************************************************)

\* The remainder, where the code uses it: an index wraps at most once.
LEMMA CellAfterValue ==
  ASSUME NEW i \in Cells, NEW k \in 0 .. Capacity
  PROVE  CellAfter(i, k) = IF i + k < Capacity THEN i + k ELSE i + k - Capacity
<1>1. Capacity \in Nat /\ Capacity > 0 /\ i \in Nat /\ k \in Nat /\ i < Capacity /\ k <= Capacity
  BY CapacityAssumption DEF Cells
<1>2. CASE i + k < Capacity
  BY <1>1, <1>2 DEF CellAfter
<1>3. CASE i + k >= Capacity
  <2> DEFINE r == i + k - Capacity
  <2>1. r \in 0 .. Capacity - 1 /\ i + k = Capacity * 1 + r
    BY <1>1, <1>3
  <2>2. (i + k) % Capacity = r
    BY <1>1, <2>1
  <2> QED BY <1>1, <1>3, <2>2 DEF CellAfter
<1> QED BY <1>1, <1>2, <1>3

\* The cell k places on is a cell; no place on is the cell itself.
LEMMA CellAfterIsCell ==
  ASSUME NEW i \in Cells
  PROVE  /\ \A k \in 0 .. Capacity : CellAfter(i, k) \in Cells
         /\ CellAfter(i, 0) = i
<1>1. Capacity \in Nat /\ Capacity > 0
  BY CapacityAssumption
<1>2. \A k \in 0 .. Capacity :
        CellAfter(i, k) = IF i + k < Capacity THEN i + k ELSE i + k - Capacity
  BY CellAfterValue
<1> QED BY <1>1, <1>2 DEF Cells

\* Places add up.
LEMMA CellAfterAdds ==
  ASSUME NEW i \in Cells, NEW j \in 0 .. Capacity, NEW k \in 0 .. Capacity,
         j + k <= Capacity
  PROVE  CellAfter(CellAfter(i, j), k) = CellAfter(i, j + k)
<1>1. Capacity \in Nat /\ Capacity > 0 /\ i \in 0 .. Capacity - 1 /\ j + k \in 0 .. Capacity
  BY CapacityAssumption DEF Cells
<1>2. CellAfter(i, j) \in Cells
  BY CellAfterIsCell
<1>3. CellAfter(i, j) = IF i + j < Capacity THEN i + j ELSE i + j - Capacity
  BY CellAfterValue
<1>4. CellAfter(i, j + k) = IF i + (j + k) < Capacity THEN i + (j + k) ELSE i + (j + k) - Capacity
  BY <1>1, CellAfterValue
<1> DEFINE m == CellAfter(i, j)
<1>5. CellAfter(m, k) = IF m + k < Capacity THEN m + k ELSE m + k - Capacity
  BY <1>2, CellAfterValue
<1> QED BY <1>1, <1>3, <1>4, <1>5

\* Fewer than Capacity places on, no cell comes twice.
LEMMA CellAfterInjective ==
  ASSUME NEW i \in Cells, NEW j \in 0 .. Capacity - 1, NEW k \in 0 .. Capacity - 1,
         CellAfter(i, j) = CellAfter(i, k)
  PROVE  j = k
<1>1. /\ Capacity \in Nat /\ Capacity > 0 /\ i \in 0 .. Capacity - 1
      /\ j \in 0 .. Capacity /\ k \in 0 .. Capacity
  BY CapacityAssumption DEF Cells
<1>2. /\ CellAfter(i, j) = IF i + j < Capacity THEN i + j ELSE i + j - Capacity
      /\ CellAfter(i, k) = IF i + k < Capacity THEN i + k ELSE i + k - Capacity
  BY <1>1, CellAfterValue
<1> DEFINE m == CellAfter(i, j)
<1>3. /\ m = IF i + j < Capacity THEN i + j ELSE i + j - Capacity
      /\ m = IF i + k < Capacity THEN i + k ELSE i + k - Capacity
  BY <1>2
<1> HIDE DEF m
<1> QED BY <1>1, <1>3

\* What Stored does to the cells: the k-th request of seq goes k - 1 cells after the
\* tail, all other cells stay.
LEMMA StoredCells ==
  ASSUME NEW q \in Queues, NEW seq \in Seq(Slots), tail[q] \in Cells,
         Len(seq) <= Capacity
  PROVE  /\ \A k \in 1 .. Len(seq) : Stored(q, seq)[CellAfter(tail[q], k - 1)] = seq[k]
         /\ \A i \in Cells :
              \/ Stored(q, seq)[i] = entries[q][i]
              \/ \E k \in 1 .. Len(seq) :
                   i = CellAfter(tail[q], k - 1) /\ Stored(q, seq)[i] = seq[k]
         /\ \A i \in Cells :
              (\A k \in 1 .. Len(seq) : i # CellAfter(tail[q], k - 1))
                => Stored(q, seq)[i] = entries[q][i]
<1> DEFINE At(i, k) == i = CellAfter(tail[q], k - 1)
           K(i)     == CHOOSE k \in 1 .. Len(seq) : At(i, k)
<1>1. Len(seq) \in Nat /\ Capacity \in Nat /\ Capacity > 0
  BY CapacityAssumption
<1>2. \A k \in 1 .. Len(seq) : k - 1 \in 0 .. Capacity - 1 /\ k - 1 \in 0 .. Capacity
  BY <1>1
<1>3. \A i \in Cells :
        Stored(q, seq)[i] = IF \E k \in 1 .. Len(seq) : At(i, k) THEN seq[K(i)]
                                                              ELSE entries[q][i]
  BY DEF Stored
<1>4. ASSUME NEW i \in Cells, NEW k \in 1 .. Len(seq), At(i, k)
      PROVE  K(i) = k
  <2> HIDE DEF At
  <2>1. K(i) \in 1 .. Len(seq) /\ At(i, K(i))
    BY <1>4, Zenon
  <2> HIDE DEF K
  <2>2. CellAfter(tail[q], K(i) - 1) = CellAfter(tail[q], k - 1)
    BY <1>4, <2>1 DEF At
  <2>3. K(i) - 1 = k - 1
    BY <2>1, <2>2, <1>2, CellAfterInjective
  <2> QED BY <2>1, <2>3, <1>1
<1>5. \A k \in 1 .. Len(seq) : CellAfter(tail[q], k - 1) \in Cells
  BY <1>2, CellAfterIsCell
<1>6. \A k \in 1 .. Len(seq) : At(CellAfter(tail[q], k - 1), k)
  OBVIOUS
<1>7. \A i \in Cells : (\E k \in 1 .. Len(seq) : At(i, k)) =>
        \E k \in 1 .. Len(seq) : At(i, k) /\ Stored(q, seq)[i] = seq[k]
  <2> HIDE DEF At, K
  <2> QED BY <1>3, <1>4
<1>8. ASSUME NEW k \in 1 .. Len(seq)
      PROVE  Stored(q, seq)[CellAfter(tail[q], k - 1)] = seq[k]
  <2> DEFINE i == CellAfter(tail[q], k - 1)
  <2>1. i \in Cells /\ At(i, k)
    BY <1>5, <1>6
  <2> HIDE DEF i, At, K
  <2>2. K(i) = k
    BY <2>1, <1>4
  <2>3. Stored(q, seq)[i] = seq[K(i)]
    BY <2>1, <1>3
  <2>4. Stored(q, seq)[i] = seq[k]
    BY <2>2, <2>3
  <2> QED BY <2>4 DEF i
<1>9. ASSUME NEW i \in Cells
      PROVE  \/ Stored(q, seq)[i] = entries[q][i]
             \/ \E k \in 1 .. Len(seq) :
                  i = CellAfter(tail[q], k - 1) /\ Stored(q, seq)[i] = seq[k]
  <2>1. CASE \E k \in 1 .. Len(seq) : At(i, k)
    <3>1. \E k \in 1 .. Len(seq) : At(i, k) /\ Stored(q, seq)[i] = seq[k]
      BY <2>1, <1>7
    <3> QED BY <3>1
  <2>2. CASE ~ \E k \in 1 .. Len(seq) : At(i, k)
    <3> HIDE DEF At, K
    <3>1. Stored(q, seq)[i] = entries[q][i]
      BY <2>2, <1>3
    <3> QED BY <3>1
  <2> QED BY <2>1, <2>2
<1>10. ASSUME NEW i \in Cells, \A k \in 1 .. Len(seq) : i # CellAfter(tail[q], k - 1)
       PROVE  Stored(q, seq)[i] = entries[q][i]
  <2>1. ~ \E k \in 1 .. Len(seq) : At(i, k)
    BY <1>10
  <2> HIDE DEF At, K
  <2> QED BY <2>1, <1>3
<1> QED BY <1>8, <1>9, <1>10
-----------------------------------------------------------------------------
(***************************************************************************)
(* The two steps of a ring.                                                *)
(***************************************************************************)
MaybeSlots == Slots \cup {NoSlot}

\* RingShape, of one ring.
RingInShape(q) ==
  /\ tail[q] = CellAfter(head[q], size[q])
  /\ \A i \in Cells : entries[q][i] # NoSlot <=> i \in Window(q)

\* The types of the variables of one ring, and what is known of its indices.
LEMMA RingTypes ==
  ASSUME TypeOK, NEW q \in Queues
  PROVE  /\ Capacity \in Nat /\ Capacity > 0
         /\ size[q] \in 0 .. Capacity
         /\ head[q] \in Cells /\ tail[q] \in Cells
         /\ entries[q] \in [Cells -> MaybeSlots]
BY CapacityAssumption DEF TypeOK, MaybeSlots

\* The cells from hd on are a sequence, whatever the cells.
LEMMA CellsInOrder ==
  ASSUME NEW ent \in [Cells -> MaybeSlots], NEW hd \in Cells, NEW sz \in 0 .. Capacity
  PROVE  LET seq == [k \in 1 .. sz |-> ent[CellAfter(hd, k - 1)]]
         IN  seq \in Seq(MaybeSlots) /\ Len(seq) = sz
<1> DEFINE seq == [k \in 1 .. sz |-> ent[CellAfter(hd, k - 1)]]
<1>1. Capacity \in Nat /\ sz \in Nat /\ sz <= Capacity
  BY CapacityAssumption
<1>2. ASSUME NEW k \in 1 .. sz
      PROVE  ent[CellAfter(hd, k - 1)] \in MaybeSlots
  <2>1. k - 1 \in 0 .. Capacity
    BY <1>1
  <2>2. CellAfter(hd, k - 1) \in Cells
    BY <2>1, CellAfterIsCell
  <2> QED BY <2>2
<1>3. seq \in [1 .. sz -> MaybeSlots]
  BY <1>2
<1> HIDE DEF seq
<1>4. seq \in Seq(MaybeSlots) /\ Len(seq) = sz
  BY <1>1, <1>3
<1> QED BY <1>4 DEF seq

\* A ring none of whose variables changes keeps its shape and its contents.
LEMMA RingFrame ==
  ASSUME NEW q \in Queues, entries'[q] = entries[q], head'[q] = head[q],
         tail'[q] = tail[q], size'[q] = size[q]
  PROVE  /\ RingInShape(q) => RingInShape(q)'
         /\ Contents(q)' = Contents(q)
BY DEF RingInShape, Window, Contents

\* The requests of seq enter ring q behind those it holds, in their order.
LEMMA EnqueueRing ==
  ASSUME TypeOK, NEW q \in Queues, NEW seq \in Seq(Slots), RingInShape(q),
         HasRoom(q, Len(seq)), Enqueue(q, seq), head' = head
  PROVE  /\ RingInShape(q)'
         /\ TypeOK' => Contents(q)' = Contents(q) \o seq
<1> DEFINE n == Len(seq)
<1>1. /\ Capacity \in Nat /\ Capacity > 0
      /\ size[q] \in Nat /\ n \in Nat /\ size[q] + n <= Capacity
      /\ head[q] \in Cells /\ tail[q] \in Cells /\ entries[q] \in [Cells -> MaybeSlots]
  BY RingTypes DEF HasRoom
<1>2. /\ entries'[q] = Stored(q, seq)
      /\ tail'[q] = CellAfter(tail[q], n)
      /\ size'[q] = size[q] + n
      /\ head'[q] = head[q]
  BY DEF Enqueue, TypeOK
<1>3. tail[q] = CellAfter(head[q], size[q])
  BY DEF RingInShape
<1>4. \A k \in 0 .. n : CellAfter(tail[q], k) = CellAfter(head[q], size[q] + k)
  <2>1. \A k \in 0 .. n : k \in 0 .. Capacity /\ size[q] \in 0 .. Capacity /\ size[q] + k <= Capacity
    BY <1>1
  <2> QED BY <2>1, <1>1, <1>3, CellAfterAdds
<1>5. tail'[q] = CellAfter(head'[q], size'[q])
  BY <1>1, <1>2, <1>4
<1>6. /\ \A k \in 1 .. n : Stored(q, seq)[CellAfter(tail[q], k - 1)] = seq[k]
      /\ \A i \in Cells :
           \/ Stored(q, seq)[i] = entries[q][i]
           \/ \E k \in 1 .. n : i = CellAfter(tail[q], k - 1) /\ Stored(q, seq)[i] = seq[k]
      /\ \A i \in Cells :
           (\A k \in 1 .. n : i # CellAfter(tail[q], k - 1))
             => Stored(q, seq)[i] = entries[q][i]
  <2>1. n <= Capacity
    BY <1>1
  <2> QED BY <2>1, <1>1, StoredCells
\* The cells of the new requests, counted from the head.
<1>7. \A k \in 1 .. n : /\ k - 1 \in 0 .. n /\ size[q] + (k - 1) \in 0 .. Capacity - 1
                        /\ CellAfter(tail[q], k - 1) = CellAfter(head[q], size[q] + (k - 1))
                        /\ entries'[q][CellAfter(head[q], size[q] + (k - 1))] = seq[k]
  <2>1. ASSUME NEW k \in 1 .. n
        PROVE  k - 1 \in 0 .. n /\ size[q] + (k - 1) \in 0 .. Capacity - 1
    BY <1>1
  <2> QED BY <2>1, <1>2, <1>4, <1>6
\* The cells in use so far.
<1>8. ASSUME NEW j \in 0 .. size[q] - 1
      PROVE  entries'[q][CellAfter(head[q], j)] = entries[q][CellAfter(head[q], j)]
  <2>1. j \in 0 .. Capacity - 1 /\ j \in 0 .. Capacity
    BY <1>1
  <2>2. ASSUME NEW k \in 1 .. n
        PROVE  CellAfter(head[q], j) # CellAfter(tail[q], k - 1)
    <3>1. j # size[q] + (k - 1)
      BY <1>1
    <3> QED BY <3>1, <2>1, <1>1, <1>7, CellAfterInjective
  <2>3. CellAfter(head[q], j) \in Cells
    BY <2>1, <1>1, CellAfterIsCell
  <2> QED BY <2>2, <2>3, <1>2, <1>6
<1>9. \A k \in 1 .. n : seq[k] \in Slots /\ seq[k] # NoSlot
  BY ElementOfSeq, NoSlotAssumption
<1>10. ASSUME NEW i \in Cells
       PROVE  entries'[q][i] # NoSlot <=> i \in Window(q)'
  <2>1. i \in Window(q)' <=> \E j \in 0 .. size[q] + n - 1 : i = CellAfter(head[q], j)
    <3>1. i \in Window(q)' <=> \E j \in 0 .. size'[q] - 1 : i = CellAfter(head'[q], j)
      BY DEF Window, CellAfter
    <3>2. size'[q] = size[q] + n /\ head'[q] = head[q]
      BY <1>2, Zenon
    <3> QED BY <3>1, <3>2, <1>1, SMT
  <2>2. CASE \E k \in 1 .. n : i = CellAfter(tail[q], k - 1)
    <3>1. PICK k \in 1 .. n : i = CellAfter(head[q], size[q] + (k - 1))
      BY <2>2, <1>7
    <3>2. size[q] + (k - 1) \in 0 .. size[q] + n - 1
      BY <1>1
    <3> QED BY <3>1, <3>2, <2>1, <1>7, <1>9
  <2>3. CASE \A k \in 1 .. n : i # CellAfter(tail[q], k - 1)
    <3>1. entries'[q][i] = entries[q][i]
      BY <2>3, <1>2, <1>6
    <3>2. entries[q][i] # NoSlot <=> i \in Window(q)
      BY DEF RingInShape
    <3>3. i \in Window(q) => i \in Window(q)'
      <4>1. \A j \in 0 .. size[q] - 1 : j \in 0 .. size[q] + n - 1
        BY <1>1
      <4> QED BY <4>1, <2>1 DEF Window
    <3>4. i \in Window(q)' => i \in Window(q)
      <4>1. SUFFICES ASSUME NEW j \in 0 .. size[q] + n - 1, i = CellAfter(head[q], j)
                     PROVE  i \in Window(q)
        BY <2>1
      <4>2. CASE j \in 0 .. size[q] - 1
        BY <4>1, <4>2 DEF Window
      <4>3. CASE j >= size[q]
        <5> DEFINE k == j - size[q] + 1
        <5>1. k \in 1 .. n /\ size[q] + (k - 1) = j
          BY <4>1, <4>3, <1>1
        <5>2. i = CellAfter(tail[q], k - 1)
          BY <5>1, <4>1, <1>7
        <5> QED BY <5>1, <5>2, <2>3
      <4> QED BY <4>2, <4>3, <1>1
    <3> QED BY <3>1, <3>2, <3>3, <3>4
  <2> QED BY <2>2, <2>3
<1>11. RingInShape(q)'
  BY <1>5, <1>10 DEF RingInShape
<1>12. ASSUME TypeOK'
       PROVE  Contents(q)' = Contents(q) \o seq
  <2>1. /\ Contents(q) \in Seq(MaybeSlots) /\ Len(Contents(q)) = size[q]
        /\ \A k \in 1 .. size[q] : Contents(q)[k] = entries[q][CellAfter(head[q], k - 1)]
    <3>1. size[q] \in 0 .. Capacity
      BY RingTypes
    <3> QED BY <3>1, <1>1, CellsInOrder DEF Contents
  <2>2. /\ Contents(q)' \in Seq(MaybeSlots) /\ Len(Contents(q)') = size'[q]
        /\ \A k \in 1 .. size'[q] : Contents(q)'[k] = entries'[q][CellAfter(head'[q], k - 1)]
    <3>1. /\ size'[q] \in 0 .. Capacity /\ head'[q] \in Cells
          /\ entries'[q] \in [Cells -> MaybeSlots]
      BY <1>12 DEF TypeOK, MaybeSlots
    <3> QED BY <3>1, CellsInOrder DEF Contents
  <2>3. seq \in Seq(MaybeSlots)
    BY SeqMonotonic DEF MaybeSlots
  <2>4. /\ Contents(q) \o seq \in Seq(MaybeSlots)
        /\ Len(Contents(q) \o seq) = size[q] + n
        /\ \A k \in 1 .. size[q] + n :
             (Contents(q) \o seq)[k] = IF k <= size[q] THEN Contents(q)[k] ELSE seq[k - size[q]]
    <3> DEFINE a == Contents(q)
    <3>1. a \in Seq(MaybeSlots) /\ Len(a) = size[q]
      BY <2>1
    <3> HIDE DEF a
    <3>2. /\ a \o seq \in Seq(MaybeSlots) /\ Len(a \o seq) = Len(a) + Len(seq)
          /\ \A k \in 1 .. Len(a) + Len(seq) :
               (a \o seq)[k] = IF k <= Len(a) THEN a[k] ELSE seq[k - Len(a)]
      BY <3>1, <2>3, ConcatProperties, Zenon
    <3>3. /\ a \o seq \in Seq(MaybeSlots) /\ Len(a \o seq) = size[q] + n
          /\ \A k \in 1 .. size[q] + n :
               (a \o seq)[k] = IF k <= size[q] THEN a[k] ELSE seq[k - size[q]]
      BY <3>1, <3>2, Zenon
    <3> QED BY <3>3 DEF a
  <2>5. ASSUME NEW k \in 1 .. size[q] + n
        PROVE  Contents(q)'[k] = (Contents(q) \o seq)[k]
    <3>1. Contents(q)'[k] = entries'[q][CellAfter(head[q], k - 1)]
      BY <2>2, <1>2
    <3>2. CASE k <= size[q]
      <4>1. k \in 1 .. size[q] /\ k - 1 \in 0 .. size[q] - 1
        BY <3>2, <1>1
      <4> QED BY <4>1, <3>1, <3>2, <2>1, <2>4, <1>8
    <3>3. CASE k > size[q]
      <4> DEFINE m == k - size[q]
      <4>1. m \in 1 .. n /\ size[q] + (m - 1) = k - 1 /\ ~ k <= size[q]
        BY <3>3, <1>1
      <4>2. Contents(q)'[k] = seq[m]
        BY <4>1, <3>1, <1>7
      <4> QED BY <4>1, <4>2, <2>4
    <3>4. k <= size[q] \/ k > size[q]
      BY <1>1
    <3> QED BY <3>2, <3>3, <3>4, Zenon
  <2> DEFINE new == Contents(q)'
             old == Contents(q) \o seq
  <2>6. /\ new \in Seq(MaybeSlots) /\ old \in Seq(MaybeSlots)
        /\ Len(new) = size[q] + n /\ Len(old) = size[q] + n
        /\ \A k \in 1 .. size[q] + n : new[k] = old[k]
    BY <2>2, <2>4, <2>5, <1>2
  <2> HIDE DEF new, old
  <2>7. new = old
    BY <2>6, SeqEqual
  <2> QED BY <2>7 DEF new, old
<1> QED BY <1>11, <1>12

\* dequeue_request takes the oldest request of the ring: there is one, it leaves the
\* ring, and what is behind it stays.
LEMMA TakeRing ==
  ASSUME TypeOK, Take, NEW q \in Queues, q = scan, RingInShape(q)
  PROVE  /\ cur' # NoSlot
         /\ RingInShape(q)'
         /\ Contents(q) # <<>>
         /\ cur' = Head(Contents(q))
         /\ TypeOK' => Contents(q)' = Tail(Contents(q))
<1>1. /\ q \in Queues /\ Capacity \in Nat /\ Capacity > 0
      /\ size[q] \in 1 .. Capacity /\ size[q] \in Nat
      /\ head[q] \in Cells /\ tail[q] \in Cells /\ entries[q] \in [Cells -> MaybeSlots]
  <2>1. size[q] > 0
    BY DEF Take
  <2> QED BY <2>1, RingTypes
<1>2. /\ cur' = entries[q][head[q]]
      /\ entries'[q] = [entries[q] EXCEPT ![head[q]] = NoSlot]
      /\ head'[q] = CellAfter(head[q], 1)
      /\ size'[q] = size[q] - 1
      /\ tail'[q] = tail[q]
  BY <1>1 DEF Take, TypeOK
<1>3. tail[q] = CellAfter(head[q], size[q])
  BY DEF RingInShape
<1>4. \A k \in 0 .. size[q] - 1 : CellAfter(CellAfter(head[q], 1), k) = CellAfter(head[q], k + 1)
  <2>1. \A k \in 0 .. size[q] - 1 : k \in 0 .. Capacity /\ 1 \in 0 .. Capacity /\ 1 + k <= Capacity
                                   /\ 1 + k = k + 1
    BY <1>1
  <2>2. \A k \in 0 .. size[q] - 1 : CellAfter(CellAfter(head[q], 1), k) = CellAfter(head[q], 1 + k)
    BY <2>1, <1>1, CellAfterAdds
  <2> QED BY <2>1, <2>2
<1>5. tail'[q] = CellAfter(head'[q], size'[q])
  <2>1. size[q] - 1 \in 0 .. size[q] - 1 /\ (size[q] - 1) + 1 = size[q]
    BY <1>1
  <2>2. CellAfter(CellAfter(head[q], 1), size[q] - 1) = CellAfter(head[q], (size[q] - 1) + 1)
    BY <2>1, <1>4
  <2> QED BY <2>1, <2>2, <1>2, <1>3
\* The oldest request is at the head.
<1>6. CellAfter(head[q], 0) = head[q]
  BY <1>1, CellAfterIsCell
<1>7. cur' # NoSlot
  <2>1. 0 \in 0 .. size[q] - 1
    BY <1>1
  <2>2. head[q] \in Window(q)
    BY <2>1, <1>6 DEF Window
  <2> QED BY <2>2, <1>1, <1>2 DEF RingInShape
\* The cells behind it are other ones.
<1>8. ASSUME NEW k \in 1 .. size[q] - 1
      PROVE  /\ CellAfter(head[q], k) # head[q]
             /\ entries'[q][CellAfter(head[q], k)] = entries[q][CellAfter(head[q], k)]
  <2>1. k \in 0 .. Capacity - 1 /\ 0 \in 0 .. Capacity - 1 /\ k # 0 /\ k \in 0 .. Capacity
    BY <1>1
  <2>2. CellAfter(head[q], k) # CellAfter(head[q], 0)
    BY <2>1, <1>1, CellAfterInjective
  <2>3. CellAfter(head[q], k) \in Cells
    BY <2>1, <1>1, CellAfterIsCell
  <2> QED BY <2>2, <2>3, <1>1, <1>2, <1>6
<1>9. ASSUME NEW i \in Cells
      PROVE  entries'[q][i] # NoSlot <=> i \in Window(q)'
  <2>1. i \in Window(q)' <=> \E j \in 0 .. size[q] - 1 - 1 : i = CellAfter(head[q], j + 1)
    <3>1. i \in Window(q)' <=> \E j \in 0 .. size'[q] - 1 : i = CellAfter(head'[q], j)
      BY <1>2 DEF Window, CellAfter
    <3>2. i \in Window(q)' <=> \E j \in 0 .. size[q] - 1 - 1 : i = CellAfter(CellAfter(head[q], 1), j)
      BY <3>1, <1>1, <1>2, SMT
    <3>3. \A j \in 0 .. size[q] - 1 - 1 : j \in 0 .. size[q] - 1
      BY <1>1
    <3> QED BY <3>2, <3>3, <1>4
  <2>2. CASE i = head[q]
    <3>1. entries'[q][i] = NoSlot
      BY <2>2, <1>1, <1>2
    <3>2. \A j \in 0 .. size[q] - 1 - 1 : j + 1 \in 1 .. size[q] - 1
      BY <1>1
    <3> QED BY <3>1, <3>2, <2>1, <2>2, <1>8
  <2>3. CASE i # head[q]
    <3>1. entries'[q][i] = entries[q][i]
      BY <2>3, <1>1, <1>2
    <3>2. entries[q][i] # NoSlot <=> i \in Window(q)
      BY DEF RingInShape
    <3>3. ASSUME i \in Window(q) PROVE i \in Window(q)'
      <4>1. PICK k \in 0 .. size[q] - 1 : i = CellAfter(head[q], k)
        BY <3>3 DEF Window
      <4>2. k # 0
        BY <4>1, <2>3, <1>6
      <4>3. k - 1 \in 0 .. size[q] - 1 - 1 /\ (k - 1) + 1 = k
        BY <4>2, <1>1
      <4> QED BY <4>1, <4>3, <2>1
    <3>4. ASSUME i \in Window(q)' PROVE i \in Window(q)
      <4>1. PICK j \in 0 .. size[q] - 1 - 1 : i = CellAfter(head[q], j + 1)
        BY <3>4, <2>1
      <4>2. j + 1 \in 0 .. size[q] - 1
        BY <1>1
      <4> QED BY <4>1, <4>2 DEF Window
    <3> QED BY <3>1, <3>2, <3>3, <3>4
  <2> QED BY <2>2, <2>3
<1>10. RingInShape(q)'
  BY <1>5, <1>9 DEF RingInShape
<1>11. /\ Contents(q) \in Seq(MaybeSlots) /\ Len(Contents(q)) = size[q]
       /\ \A k \in 1 .. size[q] : Contents(q)[k] = entries[q][CellAfter(head[q], k - 1)]
  <2>1. size[q] \in 0 .. Capacity /\ head[q] \in Cells /\ entries[q] \in [Cells -> MaybeSlots]
    BY <1>1
  <2> QED BY <2>1, CellsInOrder DEF Contents
<1>12. Contents(q) # <<>> /\ Head(Contents(q)) = entries[q][head[q]]
  <2>1. Contents(q) # <<>> /\ 1 \in 1 .. size[q] /\ 1 - 1 = 0
    BY <1>1, <1>11
  <2>2. Head(Contents(q)) = Contents(q)[1]
    BY <2>1, <1>11
  <2> QED BY <2>1, <2>2, <1>6, <1>11
<1>13. ASSUME TypeOK'
       PROVE  Contents(q)' = Tail(Contents(q))
  <2>1. /\ Contents(q)' \in Seq(MaybeSlots) /\ Len(Contents(q)') = size'[q]
        /\ \A k \in 1 .. size'[q] : Contents(q)'[k] = entries'[q][CellAfter(head'[q], k - 1)]
    <3>1. /\ size'[q] \in 0 .. Capacity /\ head'[q] \in Cells
          /\ entries'[q] \in [Cells -> MaybeSlots]
      BY <1>1, <1>13 DEF TypeOK, MaybeSlots
    <3> QED BY <3>1, CellsInOrder DEF Contents
  <2>2. /\ Tail(Contents(q)) \in Seq(MaybeSlots)
        /\ Len(Tail(Contents(q))) = size[q] - 1
        /\ \A k \in 1 .. size[q] - 1 : Tail(Contents(q))[k] = Contents(q)[k + 1]
    BY <1>11, <1>12, HeadTailProperties
  <2>3. ASSUME NEW k \in 1 .. size[q] - 1
        PROVE  Contents(q)'[k] = Tail(Contents(q))[k]
    <3>1. Contents(q)'[k] = entries'[q][CellAfter(CellAfter(head[q], 1), k - 1)]
      BY <2>1, <1>2
    <3>2. k - 1 \in 0 .. size[q] - 1 /\ (k - 1) + 1 = k /\ k + 1 \in 1 .. size[q] /\ (k + 1) - 1 = k
      BY <1>1
    <3>3. CellAfter(CellAfter(head[q], 1), k - 1) = CellAfter(head[q], k)
      BY <3>2, <1>4
    <3>4. Contents(q)'[k] = entries[q][CellAfter(head[q], k)]
      BY <3>1, <3>3, <1>8
    <3>5. Contents(q)[k + 1] = entries[q][CellAfter(head[q], k)]
      BY <3>2, <1>11
    <3> QED BY <3>4, <3>5, <2>2
  <2> DEFINE new == Contents(q)'
             old == Tail(Contents(q))
  <2>4. /\ new \in Seq(MaybeSlots) /\ old \in Seq(MaybeSlots)
        /\ Len(new) = size[q] - 1 /\ Len(old) = size[q] - 1
        /\ \A k \in 1 .. size[q] - 1 : new[k] = old[k]
    BY <2>1, <2>2, <2>3, <1>2
  <2> HIDE DEF new, old
  <2>5. new = old
    BY <2>4, SeqEqual
  <2> QED BY <2>5 DEF new, old
<1> QED BY <1>2, <1>7, <1>10, <1>12, <1>13
-----------------------------------------------------------------------------
(***************************************************************************)
(* The inductive invariant of the rings.  RingShape needs the types of the *)
(* indices and that what is stored is a slot; that the rings implement     *)
(* FIFO queues needs, too, that the SPDK thread holds a request exactly    *)
(* between a dequeue and the completion, and that a call that is about to  *)
(* submit has something to submit to rings that are set up.                *)
(***************************************************************************)
SpdkHasRequest == cur = NoSlot <=> spdk_pc = "poll"

CollectsSome(c) == pc[c] \in {"prepare", "submit"} => initialized /\ held[c] # <<>>

RInv ==
  /\ IInv
  /\ \A q \in Queues : RingInShape(q)
  /\ SpdkHasRequest
  /\ \A c \in Clients : CollectsSome(c)

LEMMA RInvRingShape == RInv => RingShape
BY DEF RInv, RingInShape, RingShape

\* A step that leaves the rings alone.
LEMMA RingsFrame ==
  ASSUME UNCHANGED ringVars
  PROVE  /\ (\A q \in Queues : RingInShape(q)) => \A q \in Queues : RingInShape(q)'
         /\ RingContents' = RingContents
BY DEF ringVars, RingInShape, Window, RingContents, Contents

LEMMA InitRInv == Init => RInv
<1> SUFFICES ASSUME Init PROVE RInv
  OBVIOUS
<1>1. IInv
  BY InitIInv
<1>2. ASSUME NEW q \in Queues PROVE RingInShape(q)
  <2>1. /\ head[q] = 0 /\ tail[q] = 0 /\ size[q] = 0
        /\ \A i \in Cells : entries[q][i] = NoSlot
    BY DEF Init, EachRing, EmptyRing
  <2>2. 0 \in Cells
    BY CapacityAssumption DEF Cells
  <2>3. tail[q] = CellAfter(head[q], size[q])
    BY <2>1, <2>2, CellAfterIsCell
  <2>4. Window(q) = {}
    BY <2>1 DEF Window
  <2> QED BY <2>1, <2>3, <2>4 DEF RingInShape
<1>3. SpdkHasRequest /\ \A c \in Clients : CollectsSome(c)
  BY DEF Init, SpdkHasRequest, CollectsSome
<1> QED BY <1>1, <1>2, <1>3 DEF RInv

\* What a step of client c does to the parts of the state that are not its own.
LEMMA ClientStepFrame ==
  ASSUME TypeOK, NEW c \in Clients, ClientStep(c) \/ \E kind \in Ops : Call(c, kind)
  PROVE  /\ UNCHANGED <<initialized, spdkVars>>
         /\ ~Submit(c) => UNCHANGED ringVars
         /\ \A d \in Clients \ {c} : pc'[d] = pc[d] /\ held'[d] = held[d] /\ op'[d] = op[d] /\ rc'[d] = rc[d]
<1> USE DEF TypeOK
<1>1. CASE Allocate(c) \/ AllocateFails(c) \/ Prepare(c) \/ UnknownType(c)
  BY <1>1 DEF Allocate, AllocateFails, Prepare, UnknownType
<1>2. CASE Submit(c)
  BY <1>2 DEF Submit, Forget
<1>3. CASE SubmitFails(c) \/ CheckDone(c) \/ WaitLoop(c) \/ WaitTimesOut(c)
  BY <1>3 DEF SubmitFails, CheckDone, WaitLoop, WaitTimesOut
<1>4. CASE Free(c) \/ Return(c) \/ \E kind \in Ops : Call(c, kind)
  BY <1>4 DEF Free, Return, Call
<1> QED BY <1>1, <1>2, <1>3, <1>4 DEF ClientStep

\* A call never reaches its submission with nothing to submit, nor without rings.
LEMMA CollectsSomeStep ==
  ASSUME IInv, NEW c \in Clients, CollectsSome(c),
         ClientStep(c) \/ \E kind \in Ops : Call(c, kind)
  PROVE  CollectsSome(c)'
<1> USE DEF IInv, TypeOK, CollectsSome
<1>1. CASE Allocate(c)
  <2>1. PICK s \in Slots : held' = [held EXCEPT ![c] = Append(@, s)]
    BY <1>1 DEF Allocate
  <2>2. held'[c] = Append(held[c], s) /\ held[c] \in Seq(Slots)
    BY <2>1
  <2>3. held'[c] # <<>>
    BY <2>2, AppendProperties
  <2> QED BY <1>1, <2>3 DEF Allocate
<1>2. CASE AllocateFails(c) \/ Prepare(c) \/ UnknownType(c)
  BY <1>2 DEF AllocateFails, Prepare, UnknownType
<1>3. CASE Submit(c)
  BY <1>3 DEF Submit, Forget
<1>4. CASE SubmitFails(c) \/ CheckDone(c) \/ WaitLoop(c) \/ WaitTimesOut(c)
  BY <1>4 DEF SubmitFails, CheckDone, WaitLoop, WaitTimesOut
<1>5. CASE Free(c) \/ Return(c) \/ \E kind \in Ops : Call(c, kind)
  BY <1>5 DEF Free, Return, Call
<1> QED BY <1>1, <1>2, <1>3, <1>4, <1>5 DEF ClientStep

LEMMA SubmitRings ==
  ASSUME RInv, NEW c \in Clients, Submit(c)
  PROVE  /\ \A q \in Queues : RingInShape(q)'
         /\ TypeOK' => RingContents' = [RingContents EXCEPT ![QueueOf[c]] = @ \o held[c]]
<1> DEFINE q == QueueOf[c]
<1>1. /\ q \in Queues /\ held[c] \in Seq(Slots) /\ TypeOK
      /\ HasRoom(q, Len(held[c])) /\ Enqueue(q, held[c]) /\ head' = head
  BY QueueOfAssumption DEF RInv, IInv, TypeOK, Submit
<1>2. RingInShape(q)' /\ (TypeOK' => Contents(q)' = Contents(q) \o held[c])
  <2>1. RingInShape(q)
    BY <1>1 DEF RInv
  <2> HIDE DEF q
  <2> QED BY <1>1, <2>1, EnqueueRing
<1>3. ASSUME NEW r \in Queues, r # q
      PROVE  RingInShape(r)' /\ Contents(r)' = Contents(r)
  <2>1. /\ entries'[r] = entries[r] /\ head'[r] = head[r]
        /\ tail'[r] = tail[r] /\ size'[r] = size[r]
    BY <1>1, <1>3 DEF Enqueue, TypeOK
  <2> QED BY <2>1, RingFrame DEF RInv
<1> HIDE DEF q
<1>4. \A r \in Queues : RingInShape(r)'
  BY <1>2, <1>3
<1>5. TypeOK' => RingContents' = [RingContents EXCEPT ![q] = @ \o held[c]]
  BY <1>1, <1>2, <1>3 DEF RingContents
<1> QED BY <1>4, <1>5 DEF q

LEMMA TakeRings ==
  ASSUME RInv, Take
  PROVE  /\ \A q \in Queues : RingInShape(q)'
         /\ cur' # NoSlot
         /\ RingContents[scan] # <<>>
         /\ cur' = Head(RingContents[scan])
         /\ TypeOK' => RingContents' = [RingContents EXCEPT ![scan] = Tail(@)]
<1>1. PICK q \in Queues : q = scan
  BY DEF RInv, IInv, TypeOK
<1>2. TypeOK /\ RingInShape(q)
  BY DEF RInv, IInv
<1>3. /\ cur' # NoSlot /\ RingInShape(q)'
      /\ Contents(q) # <<>> /\ cur' = Head(Contents(q))
      /\ TypeOK' => Contents(q)' = Tail(Contents(q))
  BY <1>1, <1>2, TakeRing
<1>4. ASSUME NEW r \in Queues, r # q
      PROVE  RingInShape(r)' /\ Contents(r)' = Contents(r)
  <2>1. /\ entries'[r] = entries[r] /\ head'[r] = head[r]
        /\ tail'[r] = tail[r] /\ size'[r] = size[r]
    BY <1>1, <1>2, <1>4 DEF Take, TypeOK
  <2> QED BY <2>1, RingFrame DEF RInv
<1>5. \A r \in Queues : RingInShape(r)'
  BY <1>3, <1>4
<1>6. RingContents[q] = Contents(q)
  BY DEF RingContents
<1>7. TypeOK' => RingContents' = [RingContents EXCEPT ![q] = Tail(@)]
  BY <1>3, <1>4 DEF RingContents
<1> QED BY <1>1, <1>3, <1>5, <1>6, <1>7

\* xbdev_queue_fini leaves empty rings behind.
LEMMA FiniRings ==
  ASSUME QueueFini
  PROVE  /\ \A q \in Queues : RingInShape(q)'
         /\ RingContents' = [q \in Queues |-> <<>>]
<1>1. ASSUME NEW q \in Queues
      PROVE  /\ head'[q] = 0 /\ tail'[q] = 0 /\ size'[q] = 0
             /\ \A i \in Cells : entries'[q][i] = NoSlot
  BY <1>1 DEF QueueFini, RingsDestroyed, EachRing, EmptyRing
<1>2. ASSUME NEW q \in Queues
      PROVE  RingInShape(q)' /\ Contents(q)' = <<>>
  <2>1. 0 \in Cells
    BY CapacityAssumption DEF Cells
  <2>2. tail'[q] = CellAfter(head'[q], size'[q])
    BY <1>1, <2>1, CellAfterIsCell
  <2>3. Window(q)' = {}
    BY <1>1 DEF Window
  <2>4. Contents(q)' = <<>>
    BY <1>1 DEF Contents
  <2> QED BY <1>1, <2>2, <2>3, <2>4 DEF RingInShape
<1> QED BY <1>2 DEF RingContents

\* Every step preserves the invariant of the rings.
LEMMA NextRInv == RInv /\ [Next]_vars => RInv'
<1> SUFFICES ASSUME RInv, [Next]_vars PROVE RInv'
  OBVIOUS
<1>1. IInv /\ TypeOK /\ IInv'
  BY NextIInv DEF RInv, IInv
<1>2. CASE QueueInit
  <2>1. (\A q \in Queues : RingInShape(q)') /\ SpdkHasRequest'
    BY <1>2, RingsFrame DEF QueueInit, RInv, SpdkHasRequest, spdkVars
  <2>2. \A c \in Clients : CollectsSome(c)'
    BY <1>2 DEF QueueInit, RInv, CollectsSome, clientVars
  <2> QED BY <2>1, <2>2, <1>1 DEF RInv
<1>3. CASE QueueFini
  <2>1. \A q \in Queues : RingInShape(q)'
    BY <1>3, FiniRings
  <2>2. SpdkHasRequest' /\ \A c \in Clients : CollectsSome(c)'
    BY <1>3 DEF QueueFini, RInv, SpdkHasRequest, spdkVars, CollectsSome, clientVars
  <2> QED BY <2>1, <2>2, <1>1 DEF RInv
<1>4. ASSUME NEW c \in Clients, ClientStep(c) \/ \E kind \in Ops : Call(c, kind)
      PROVE  RInv'
  <2>1. /\ UNCHANGED <<initialized, spdkVars>>
        /\ ~Submit(c) => UNCHANGED ringVars
        /\ \A d \in Clients \ {c} : pc'[d] = pc[d] /\ held'[d] = held[d]
    BY <1>1, <1>4, ClientStepFrame
  <2>2. \A q \in Queues : RingInShape(q)'
    BY <2>1, RingsFrame, SubmitRings DEF RInv
  <2>3. SpdkHasRequest'
    BY <2>1 DEF RInv, SpdkHasRequest, spdkVars
  <2>4. ASSUME NEW d \in Clients PROVE CollectsSome(d)'
    <3>1. CASE d = c
      BY <3>1, <1>1, <1>4, CollectsSomeStep DEF RInv
    <3>2. CASE d # c
      BY <3>2, <2>1 DEF RInv, CollectsSome
    <3> QED BY <3>1, <3>2
  <2> QED BY <2>2, <2>3, <2>4, <1>1 DEF RInv
<1>5. CASE SpdkStep
  <2>1. CASE Take
    <3>1. (\A q \in Queues : RingInShape(q)') /\ SpdkHasRequest'
      BY <2>1, TakeRings DEF SpdkHasRequest, Take
    <3>2. \A c \in Clients : CollectsSome(c)'
      BY <2>1 DEF Take, RInv, CollectsSome, clientVars
    <3> QED BY <3>1, <3>2, <1>1 DEF RInv
  <2>2. CASE ScanEmpty \/ Dispatch
    <3>1. (\A q \in Queues : RingInShape(q)') /\ SpdkHasRequest'
      BY <2>2, RingsFrame DEF ScanEmpty, Dispatch, RInv, SpdkHasRequest
    <3>2. \A c \in Clients : CollectsSome(c)'
      BY <2>2 DEF ScanEmpty, Dispatch, RInv, CollectsSome, clientVars
    <3> QED BY <3>1, <3>2, <1>1 DEF RInv
  <2>3. CASE Complete
    <3>1. (\A q \in Queues : RingInShape(q)') /\ SpdkHasRequest'
      BY <2>3, RingsFrame DEF Complete, RInv, SpdkHasRequest
    <3>2. ASSUME NEW c \in Clients PROVE CollectsSome(c)'
      <4>1. pc'[c] \in {"prepare", "submit"} => pc[c] \in {"prepare", "submit"}
        BY <2>3 DEF Complete, AllAwake
      <4>2. UNCHANGED <<initialized, held>>
        BY <2>3 DEF Complete
      <4> QED BY <4>1, <4>2 DEF RInv, CollectsSome
    <3> QED BY <3>1, <3>2, <1>1 DEF RInv
  <2> QED BY <2>1, <2>2, <2>3, <1>5 DEF SpdkStep
<1>6. CASE UNCHANGED vars
  <2>1. (\A q \in Queues : RingInShape(q)') /\ SpdkHasRequest'
    BY <1>6, RingsFrame DEF vars, RInv, SpdkHasRequest, spdkVars
  <2>2. \A c \in Clients : CollectsSome(c)'
    BY <1>6 DEF vars, RInv, CollectsSome, clientVars
  <2> QED BY <2>1, <2>2, <1>1 DEF RInv
<1> QED BY <1>2, <1>3, <1>4, <1>5, <1>6 DEF Next

\* The cells, the indices and the counter of every ring always agree, batches,
\* refused requests and timed out waits included: dequeue_request never hands NULL
\* to the SPDK thread and never overtakes enqueue_request.
THEOREM RingsKeepShape == Spec => []RingShape
<1> QED BY RInvRingShape, InitRInv, NextRInv, PTL DEF Spec
-----------------------------------------------------------------------------
(***************************************************************************)
(* The rings implement bounded FIFO queues.                                *)
(***************************************************************************)

\* A step of client c changes what c offers only.
LEMMA OffersStep ==
  ASSUME NEW c \in Clients,
         \A d \in Clients \ {c} : pc'[d] = pc[d] /\ held'[d] = held[d]
  PROVE  /\ Offers' = [Offers EXCEPT ![c] = Offered(c)']
         /\ Offers[c] = Offered(c)
         /\ Offers'[c] = Offered(c)'
         /\ Offered(c)' = Offered(c) => Offers' = Offers
BY DEF Offers, Offered

\* A step in which nobody comes to its submission or leaves it changes no offer.
LEMMA OffersFrame ==
  ASSUME held' = held, \A c \in Clients : pc'[c] = "submit" <=> pc[c] = "submit"
  PROVE  Offers' = Offers
BY DEF Offers, Offered

LEMMA InitAbstract == Init => Fifo!Init
<1> SUFFICES ASSUME Init PROVE Fifo!Init
  OBVIOUS
<1>1. RingContents = [q \in Queues |-> <<>>]
  BY DEF Init, RingContents, Contents, EachRing
<1>2. Offers = [c \in Clients |-> <<>>]
  BY DEF Init, Offers, Offered
<1> QED BY <1>1, <1>2 DEF Init, Fifo!Init, Fifo!Empty

\* Every step of a call is a step of its producer or none.
LEMMA ClientAbstract ==
  ASSUME RInv, RInv', NEW c \in Clients, ClientStep(c) \/ \E kind \in Ops : Call(c, kind)
  PROVE  Fifo!Next \/ UNCHANGED Fifo!vars
<1>1. TypeOK /\ TypeOK' /\ CollectsSome(c) /\ CollectsSome(c)'
  BY DEF RInv, IInv
<1>2. /\ UNCHANGED <<initialized, cur>>
      /\ ~Submit(c) => RingContents' = RingContents
      /\ \A d \in Clients \ {c} : pc'[d] = pc[d] /\ held'[d] = held[d]
  BY <1>1, ClientStepFrame, RingsFrame DEF spdkVars
<1>3. /\ Offers' = [Offers EXCEPT ![c] = Offered(c)']
      /\ Offers[c] = Offered(c) /\ Offers'[c] = Offered(c)'
      /\ Offered(c)' = Offered(c) => Offers' = Offers
  BY <1>2, OffersStep
<1>4. CASE Submit(c)
  <2> DEFINE q == QueueOf[c]
  <2>1. /\ pc[c] = "submit" /\ initialized /\ held[c] # <<>> /\ q \in Queues
        /\ HasRoom(q, Len(held[c])) /\ pc'[c] # "submit"
    BY <1>1, <1>4, QueueOfAssumption DEF Submit, Forget, CollectsSome, TypeOK
  <2>2. Offered(c) = held[c] /\ Offered(c)' = <<>>
    BY <2>1 DEF Offered
  <2>3. RingContents' = [RingContents EXCEPT ![q] = @ \o Offers[c]]
    BY <1>1, <1>3, <1>4, <2>2, SubmitRings
  <2>4. Len(RingContents[q]) = size[q]
    <3>1. /\ size[q] \in 0 .. Capacity /\ head[q] \in Cells
          /\ entries[q] \in [Cells -> MaybeSlots]
      BY <2>1, <1>1, RingTypes
    <3> QED BY <3>1, <2>1, CellsInOrder DEF RingContents, Contents
  <2>5. Len(RingContents[q]) + Len(Offers[c]) <= Capacity
    BY <2>1, <2>2, <2>4, <1>3 DEF HasRoom
  <2>6. Fifo!Put(c, q)
    BY <2>1, <2>2, <2>3, <2>5, <1>2, <1>3 DEF Fifo!Put
  <2> QED BY <2>1, <2>6 DEF Fifo!Next
<1>5. CASE Prepare(c) /\ pc'[c] = "submit"
  <2>1. pc[c] # "submit" /\ held'[c] = held[c] /\ ~Submit(c)
    BY <1>5 DEF Prepare, Submit
  <2>2. Offered(c) = <<>> /\ Offered(c)' = held[c]
    BY <2>1, <1>5 DEF Offered
  <2>3. held[c] # <<>> /\ held[c] \in Seq(Slots)
    BY <2>1, <1>1, <1>5 DEF CollectsSome, TypeOK
  <2>4. Fifo!Offer(c)
    BY <2>1, <2>2, <2>3, <1>2, <1>3 DEF Fifo!Offer
  <2> QED BY <2>4 DEF Fifo!Next
<1>6. CASE SubmitFails(c)
  <2>1. pc[c] = "submit" /\ pc'[c] # "submit" /\ held[c] # <<>>
    BY <1>1, <1>6 DEF SubmitFails, CollectsSome, TypeOK
  <2>2. Offered(c) = held[c] /\ Offered(c)' = <<>> /\ RingContents' = RingContents
    BY <2>1, <1>6, RingsFrame DEF Offered, SubmitFails
  <2>3. Fifo!Withdraw(c)
    BY <2>1, <2>2, <1>2, <1>3 DEF Fifo!Withdraw
  <2> QED BY <2>3 DEF Fifo!Next
<1>7. CASE pc[c] # "submit" /\ pc'[c] # "submit"
  <2>1. Offered(c) = <<>> /\ Offered(c)' = <<>> /\ ~Submit(c)
    BY <1>7 DEF Offered, Submit
  <2> QED BY <2>1, <1>2, <1>3 DEF Fifo!vars
<1>8. \/ Submit(c) \/ SubmitFails(c) \/ (Prepare(c) /\ pc'[c] = "submit")
      \/ pc[c] # "submit" /\ pc'[c] # "submit"
  <2>1. CASE Allocate(c) \/ AllocateFails(c) \/ UnknownType(c) \/ CheckDone(c) \/ WaitLoop(c)
    BY <2>1, <1>1 DEF Allocate, AllocateFails, UnknownType, CheckDone, WaitLoop, TypeOK
  <2>2. CASE WaitTimesOut(c) \/ Free(c) \/ Return(c) \/ \E kind \in Ops : Call(c, kind)
    BY <2>2, <1>1 DEF WaitTimesOut, Free, Return, Call, TypeOK
  <2>3. CASE Prepare(c)
    BY <2>3 DEF Prepare
  <2> QED BY <2>1, <2>2, <2>3 DEF ClientStep
<1> QED BY <1>4, <1>5, <1>6, <1>7, <1>8

\* Every step of the SPDK thread is a step of the server or none.
LEMMA SpdkAbstract ==
  ASSUME RInv, RInv', SpdkStep
  PROVE  Fifo!Next \/ UNCHANGED Fifo!vars
<1>1. TypeOK /\ TypeOK' /\ SpdkHasRequest
  BY DEF RInv, IInv
<1>2. CASE Take
  <2>1. Offers' = Offers
    BY <1>2, OffersFrame DEF Take, clientVars
  <2>2. scan \in Queues /\ cur = NoSlot
    BY <1>1, <1>2 DEF Take, TypeOK, SpdkHasRequest
  <2>3. Fifo!Get(scan)
    BY <2>1, <2>2, <1>1, <1>2, TakeRings DEF Take, Fifo!Get
  <2> QED BY <2>2, <2>3 DEF Fifo!Next
<1>3. CASE ScanEmpty \/ Dispatch
  <2>1. Offers' = Offers /\ RingContents' = RingContents
    BY <1>3, OffersFrame, RingsFrame DEF ScanEmpty, Dispatch, clientVars
  <2> QED BY <2>1, <1>3 DEF ScanEmpty, Dispatch, Fifo!vars
<1>4. CASE Complete
  <2>1. RingContents' = RingContents
    BY <1>4, RingsFrame DEF Complete
  <2>2. \A c \in Clients : pc'[c] = "submit" <=> pc[c] = "submit"
    BY <1>4 DEF Complete, AllAwake
  <2>3. Offers' = Offers
    BY <1>4, <2>2, OffersFrame DEF Complete
  <2>4. Fifo!Finish
    BY <2>1, <2>3, <1>1, <1>4 DEF Complete, SpdkHasRequest, Fifo!Finish
  <2> QED BY <2>4 DEF Fifo!Next
<1> QED BY <1>2, <1>3, <1>4 DEF SpdkStep

LEMMA NextAbstract ==
  RInv /\ RInv' /\ [Next]_vars => [Fifo!Next]_Fifo!vars
<1> SUFFICES ASSUME RInv, RInv', [Next]_vars PROVE Fifo!Next \/ UNCHANGED Fifo!vars
  OBVIOUS
<1>1. CASE QueueInit
  <2>1. Offers' = Offers /\ RingContents' = RingContents
    BY <1>1, OffersFrame, RingsFrame DEF QueueInit, clientVars
  <2>2. Fifo!Open
    BY <2>1, <1>1 DEF QueueInit, spdkVars, Fifo!Open
  <2> QED BY <2>2 DEF Fifo!Next
<1>2. CASE QueueFini
  <2>1. Offers' = Offers /\ RingContents' = [q \in Queues |-> <<>>]
    BY <1>2, OffersFrame, FiniRings DEF QueueFini, clientVars
  <2>2. Fifo!Close
    BY <2>1, <1>2 DEF QueueFini, spdkVars, Fifo!Close, Fifo!Empty
  <2> QED BY <2>2 DEF Fifo!Next
<1>3. ASSUME NEW c \in Clients, ClientStep(c) \/ \E kind \in Ops : Call(c, kind)
      PROVE  Fifo!Next \/ UNCHANGED Fifo!vars
  BY <1>3, ClientAbstract
<1>4. CASE SpdkStep
  BY <1>4, SpdkAbstract
<1>5. CASE UNCHANGED vars
  <2>1. Offers' = Offers /\ RingContents' = RingContents
    BY <1>5, OffersFrame, RingsFrame DEF vars, clientVars
  <2> QED BY <2>1, <1>5 DEF vars, spdkVars, Fifo!vars
<1> QED BY <1>1, <1>2, <1>3, <1>4, <1>5 DEF Next

\* The rings implement bounded FIFO queues with one server: a batch enters as a whole
\* and in its order, requests leave in the order they were accepted, and none is lost,
\* duplicated or invented between the two, whoever interleaves with whom.
THEOREM RingsImplementFifo == Spec => ImplementsFifo
<1> QED BY InitRInv, NextRInv, InitAbstract, NextAbstract, PTL DEF Spec, ImplementsFifo, Fifo!Spec
-----------------------------------------------------------------------------
(***************************************************************************)
(* The life of a request while no wait times out.  A slot is filled in by  *)
(* the call that collects it, referred to from one place at most between   *)
(* the submission and the completion, and owned all that time by a call    *)
(* that waits for it or by nobody who would free it.                       *)
(***************************************************************************)

\* Slot s is in a ring; the rings or the SPDK thread refer to it.
Queued(s)   == \E q \in Queues, i \in Cells : entries[q][i] = s
Referred(s) == cur = s \/ Queued(s)

Waiting(c)    == pc[c] \in {"check", "lock", "asleep"}
Collecting(c) == pc[c] \in {"alloc", "prepare", "submit"}

\* The request is filled in and its handler has not run.
Fresh(s) == ctx[s] /\ ~done[s] /\ served[s] = 0

OneReference ==
  /\ \A q, r \in Queues, i, j \in Cells :
       entries[q][i] = entries[r][j] /\ entries[q][i] # NoSlot => q = r /\ i = j
  /\ cur # NoSlot => ~Queued(cur)

ReferredAreOwned ==
  \A s \in Slots : Referred(s) => s \in handed \/ \E c \in Clients : Waiting(c) /\ Holds(c, s)

RequestsRunOnce ==
  /\ \A s \in Slots : Queued(s) => Fresh(s)
  /\ spdk_pc = "dispatch" => Fresh(cur)
  /\ spdk_pc = "complete" => served[cur] = 1 /\ ~done[cur]

\* What a call has collected so far: no more than it wants, not served yet, and
\* filled in but for the slot at hand.
Collected(c) ==
  /\ pc[c] = "alloc"   => Len(held[c]) < Wanted(c)
  /\ pc[c] = "prepare" => Len(held[c]) <= Wanted(c)
  /\ pc[c] = "submit"  => Len(held[c]) = Wanted(c)
  /\ Collecting(c) =>
       \A i \in 1 .. Len(held[c]) :
         /\ ~done[held[c][i]] /\ served[held[c][i]] = 0
         /\ ctx[held[c][i]] \/ (pc[c] = "prepare" /\ i = Len(held[c]))

\* A waiting call has one request, and once that is marked complete it was served.
AwaitsOne(c) ==
  /\ Waiting(c) => /\ Len(held[c]) = 1 /\ rc[c] = "ok"
                   /\ done[held[c][1]] => served[held[c][1]] = 1
  /\ pc[c] = "release" /\ rc[c] = "ok" /\ held[c] # <<>> =>
       Len(held[c]) = 1 /\ served[held[c][1]] = 1

WInv ==
  /\ RInv
  /\ OneReference
  /\ ReferredAreOwned
  /\ RequestsRunOnce
  /\ \A c \in Clients : Collected(c) /\ AwaitsOne(c)

\* A slot that a call holds without waiting for it is in no ring, and the SPDK thread
\* does not work on it.
LEMMA HeldNotReferred ==
  ASSUME WInv, NEW c \in Clients, ~Waiting(c), NEW i \in 1 .. Len(held[c])
  PROVE  /\ held[c][i] \in Slots /\ Holds(c, held[c][i])
         /\ ~Referred(held[c][i])
<1> DEFINE s == held[c][i]
<1>1. s \in Slots /\ Holds(c, s)
  <2>1. held[c] \in Seq(Slots)
    BY DEF WInv, RInv, IInv, TypeOK
  <2> QED BY <2>1, ElementOfSeq DEF Holds, SlotsOf
<1> HIDE DEF s
<1>2. s \notin handed /\ \A d \in Clients : Holds(d, s) => d = c
  BY <1>1 DEF WInv, RInv, IInv, SlotOwners, OneOwner
<1>3. ~Referred(s)
  BY <1>1, <1>2 DEF WInv, ReferredAreOwned
<1> QED BY <1>1, <1>3 DEF s

\* A slot the rings or the SPDK thread refer to is allocated.
LEMMA ReferredUsed ==
  ASSUME WInv, NEW s \in Slots, Referred(s)
  PROVE  used[s]
BY DEF WInv, RInv, IInv, ReferredAreOwned, SlotOwners, PoolMatchesOwners

\* The request the SPDK thread works on.
LEMMA CurIsReferred ==
  ASSUME WInv, spdk_pc # "poll"
  PROVE  cur \in Slots /\ Referred(cur) /\ ~Queued(cur)
BY DEF WInv, RInv, IInv, TypeOK, SpdkHasRequest, OneReference, Referred

\* A step that changes nothing of the call of d nor of the slots it holds.
LEMMA CallFrame ==
  ASSUME NEW d \in Clients, Collected(d), AwaitsOne(d),
         pc'[d] = pc[d], op'[d] = op[d], held'[d] = held[d], rc'[d] = rc[d],
         \A i \in 1 .. Len(held[d]) :
           /\ done'[held[d][i]] = done[held[d][i]]
           /\ served'[held[d][i]] = served[held[d][i]]
           /\ ctx[held[d][i]] => ctx'[held[d][i]]
  PROVE  Collected(d)' /\ AwaitsOne(d)'
<1>1. Collected(d)'
  BY DEF Collected, Collecting, Wanted
<1>2. AwaitsOne(d)'
  <2> DEFINE n == Len(held[d])
  <2>1. n = 1 => 1 \in 1 .. n
    <3> HIDE DEF n
    <3> QED OBVIOUS
  <2> QED BY <2>1 DEF AwaitsOne, Waiting
<1> QED BY <1>1, <1>2

LEMMA InitWInv == Init => WInv
<1> SUFFICES ASSUME Init PROVE WInv
  OBVIOUS
<1>1. RInv
  BY InitRInv
<1>2. \A q \in Queues, i \in Cells : entries[q][i] = NoSlot
  BY DEF Init, EachRing, EmptyRing
<1>3. cur = NoSlot /\ spdk_pc = "poll" /\ \A c \in Clients : pc[c] = "idle"
  BY DEF Init
<1>4. \A s \in Slots : ~Referred(s) /\ ~Queued(s)
  BY <1>2, <1>3, NoSlotAssumption DEF Referred, Queued
<1>5. OneReference
  BY <1>2, <1>3 DEF OneReference
<1>6. ReferredAreOwned /\ RequestsRunOnce
  BY <1>3, <1>4 DEF ReferredAreOwned, RequestsRunOnce
<1>7. \A c \in Clients : Collected(c) /\ AwaitsOne(c)
  BY <1>3 DEF Collected, Collecting, AwaitsOne, Waiting
<1> QED BY <1>1, <1>5, <1>6, <1>7 DEF WInv

\* What the rings and the SPDK thread refer to stays owned while both stay as they are
\* and no owner leaves the wait for a request that is referred to.
LEMMA ReferencesFrame ==
  ASSUME WInv, UNCHANGED <<entries, cur, spdk_pc, done, served>>,
         handed \subseteq handed',
         \A c \in Clients, s \in Slots :
           Waiting(c) /\ Holds(c, s) /\ Referred(s) => Waiting(c)' /\ Holds(c, s)',
         \A s \in Slots : ctx[s] /\ Referred(s) => ctx'[s]
  PROVE  OneReference' /\ ReferredAreOwned' /\ RequestsRunOnce'
<1>1. \A s : Queued(s)' = Queued(s) /\ Referred(s)' = Referred(s)
  BY DEF Queued, Referred
<1>2. OneReference'
  BY <1>1 DEF WInv, OneReference
<1>3. ReferredAreOwned'
  BY <1>1 DEF WInv, ReferredAreOwned
<1>4. RequestsRunOnce'
  <2>1. ASSUME NEW s \in Slots, Queued(s)' PROVE Fresh(s)'
    <3>1. Queued(s) /\ Referred(s)
      BY <1>1, <2>1 DEF Referred
    <3> QED BY <3>1 DEF WInv, RequestsRunOnce, Fresh
  <2>2. ASSUME spdk_pc' = "dispatch" PROVE Fresh(cur)'
    <3>1. spdk_pc = "dispatch" /\ cur \in Slots /\ Referred(cur)
      BY <2>2, CurIsReferred
    <3> QED BY <3>1 DEF WInv, RequestsRunOnce, Fresh
  <2>3. spdk_pc' = "complete" => served'[cur'] = 1 /\ ~done'[cur']
    BY DEF WInv, RequestsRunOnce
  <2> QED BY <2>1, <2>2, <2>3 DEF RequestsRunOnce
<1> QED BY <1>2, <1>3, <1>4

\* alloc_request_from_pool hands out a slot nothing refers to and nobody holds.
LEMMA AllocateWInv ==
  ASSUME WInv, RInv', NEW c \in Clients, Allocate(c)
  PROVE  WInv'
<1>1. TypeOK /\ CollectsSome(c) /\ Collected(c) /\ pc[c] = "alloc"
  BY DEF WInv, RInv, IInv, Allocate
<1>2. PICK s \in Slots :
        /\ ~used[s]
        /\ done'   = [done EXCEPT ![s] = FALSE]
        /\ ctx'    = [ctx EXCEPT ![s] = FALSE]
        /\ served' = [served EXCEPT ![s] = 0]
        /\ held'   = [held EXCEPT ![c] = Append(@, s)]
  BY DEF Allocate
<1>3. /\ pc' = [pc EXCEPT ![c] = "prepare"]
      /\ UNCHANGED <<entries, op, rc, spdk_pc, cur, handed>>
  BY DEF Allocate, ringVars, spdkVars
<1>4. ~Referred(s) /\ \A d \in Clients : ~Holds(d, s)
  BY <1>2, ReferredUsed DEF WInv, RInv, IInv, SlotOwners, PoolMatchesOwners
<1>5. \A t : Queued(t)' = Queued(t) /\ Referred(t)' = Referred(t)
  BY <1>3 DEF Queued, Referred
<1>6. \A t \in Slots : t # s => done'[t] = done[t] /\ ctx'[t] = ctx[t] /\ served'[t] = served[t]
  BY <1>1, <1>2 DEF TypeOK
<1>7. \A d \in Clients \ {c} : pc'[d] = pc[d] /\ held'[d] = held[d]
  BY <1>1, <1>2, <1>3 DEF TypeOK
<1>8. OneReference'
  BY <1>3, <1>5 DEF WInv, OneReference
<1>9. ReferredAreOwned'
  <2>1. ASSUME NEW t \in Slots, Referred(t)
        PROVE  t \in handed' \/ \E d \in Clients : Waiting(d)' /\ Holds(d, t)'
    <3>1. ASSUME NEW d \in Clients, Waiting(d), Holds(d, t)
          PROVE  Waiting(d)' /\ Holds(d, t)'
      <4>1. d # c
        BY <1>1, <3>1 DEF Waiting
      <4> QED BY <4>1, <3>1, <1>7 DEF Waiting, Holds
    <3> QED BY <2>1, <3>1, <1>3 DEF WInv, ReferredAreOwned
  <2> QED BY <2>1, <1>5 DEF ReferredAreOwned
<1>10. RequestsRunOnce'
  <2>1. ASSUME NEW t \in Slots, Queued(t)' PROVE Fresh(t)'
    <3>1. Queued(t) /\ t # s
      BY <1>4, <1>5, <2>1 DEF Referred
    <3> QED BY <3>1, <1>6 DEF WInv, RequestsRunOnce, Fresh
  <2>2. ASSUME spdk_pc # "poll" PROVE cur \in Slots /\ cur # s
    BY <2>2, <1>4, CurIsReferred
  <2> QED BY <2>1, <2>2, <1>3, <1>6 DEF WInv, RequestsRunOnce, Fresh
<1>11. ASSUME NEW d \in Clients, d # c
       PROVE  Collected(d)' /\ AwaitsOne(d)'
  <2>1. ASSUME NEW i \in 1 .. Len(held[d])
        PROVE  held[d][i] \in Slots /\ held[d][i] # s
    <3>1. held[d] \in Seq(Slots)
      BY <1>1 DEF TypeOK
    <3> QED BY <3>1, <1>4, ElementOfSeq DEF Holds, SlotsOf
  <2> QED BY <2>1, <1>3, <1>6, <1>7, <1>11, CallFrame DEF WInv
<1>12. Collected(c)' /\ AwaitsOne(c)'
  <2>1. held[c] \in Seq(Slots) /\ pc'[c] = "prepare" /\ held'[c] = Append(held[c], s)
    BY <1>1, <1>2, <1>3 DEF TypeOK
  <2>2. /\ Len(held'[c]) = Len(held[c]) + 1 /\ Len(held[c]) \in Nat
        /\ held'[c][Len(held[c]) + 1] = s
        /\ \A i \in 1 .. Len(held[c]) : held'[c][i] = held[c][i] /\ held[c][i] \in Slots
    BY <2>1, AppendProperties, ElementOfSeq
  <2>3. \A i \in 1 .. Len(held[c]) : held[c][i] # s
    BY <1>4 DEF Holds, SlotsOf
  <2>4. ~done'[s] /\ served'[s] = 0
    BY <1>1, <1>2 DEF TypeOK
  <2>5. ASSUME NEW i \in 1 .. Len(held'[c])
        PROVE  /\ ~done'[held'[c][i]] /\ served'[held'[c][i]] = 0
               /\ ctx'[held'[c][i]] \/ i = Len(held'[c])
    <3>1. i \in 1 .. Len(held[c]) \/ i = Len(held[c]) + 1
      BY <2>2
    <3>2. CASE i \in 1 .. Len(held[c])
      <4>1. ~done[held[c][i]] /\ served[held[c][i]] = 0 /\ ctx[held[c][i]]
        BY <3>2, <1>1 DEF Collected, Collecting
      <4> QED BY <4>1, <3>2, <2>2, <2>3, <1>6
    <3>3. CASE i = Len(held[c]) + 1
      BY <3>3, <2>2, <2>4
    <3> QED BY <3>1, <3>2, <3>3
  <2>6. Len(held'[c]) <= Wanted(c)'
    <3>1. Wanted(c)' = Wanted(c) /\ Wanted(c) \in Nat
      BY <1>3, BatchSizeAssumption DEF Wanted
    <3>2. Len(held[c]) < Wanted(c)
      BY <1>1 DEF Collected
    <3> QED BY <3>1, <3>2, <2>2
  <2> QED BY <2>1, <2>5, <2>6 DEF Collected, Collecting, AwaitsOne, Waiting
<1> QED BY <1>8, <1>9, <1>10, <1>11, <1>12 DEF WInv

\* The steps of a call that change its own place and what it holds alone.
LEMMA QuietWInv ==
  ASSUME WInv, RInv', NEW c \in Clients,
         \/ AllocateFails(c) \/ UnknownType(c) \/ SubmitFails(c) \/ CheckDone(c)
         \/ WaitLoop(c) \/ Free(c) \/ Return(c)
         \/ \E kind \in Ops : Call(c, kind)
  PROVE  WInv'
<1>1. /\ TypeOK /\ Collected(c) /\ AwaitsOne(c)
      /\ held[c] \in Seq(Slots) /\ pc \in [Clients -> Locations]
      /\ pc[c] = "idle" => held[c] = <<>>
  BY DEF WInv, RInv, IInv, TypeOK, SlotOwners, IdleHoldsNothing
<1>2. UNCHANGED <<entries, cur, spdk_pc, done, served, ctx, handed>>
  BY DEF AllocateFails, UnknownType, SubmitFails, CheckDone, WaitLoop, Free, Return, Call,
         ringVars, reqVars, spdkVars
<1>3. /\ ~Submit(c)
      /\ \A d \in Clients \ {c} : pc'[d] = pc[d] /\ held'[d] = held[d] /\ op'[d] = op[d] /\ rc'[d] = rc[d]
  <2>1. ~Submit(c)
    BY <1>1, <1>2 DEF AllocateFails, UnknownType, SubmitFails, CheckDone, WaitLoop, Free,
                      Return, Call, Submit
  <2>2. ClientStep(c) \/ \E kind \in Ops : Call(c, kind)
    BY DEF ClientStep
  <2> QED BY <2>1, <2>2, <1>1, ClientStepFrame
\* Who waits for a request that is referred to goes on waiting.
<1>4. ASSUME NEW d \in Clients, NEW s \in Slots, Waiting(d), Holds(d, s), Referred(s)
      PROVE  Waiting(d)' /\ Holds(d, s)'
  <2>1. CASE d # c
    BY <2>1, <1>3, <1>4 DEF Waiting, Holds
  <2>2. CASE d = c
    <3>1. Len(held[c]) = 1 /\ s = held[c][1]
      BY <2>2, <1>1, <1>4 DEF AwaitsOne, Holds, SlotsOf
    <3>2. ~done[s]
      <4>1. CASE Queued(s)
        BY <4>1 DEF WInv, RequestsRunOnce, Fresh
      <4>2. CASE cur = s
        <5>1. spdk_pc \in {"dispatch", "complete"}
          BY <4>2, NoSlotAssumption, <1>1 DEF WInv, RInv, SpdkHasRequest, TypeOK, SpdkStates
        <5> QED BY <5>1, <4>2 DEF WInv, RequestsRunOnce, Fresh
      <4> QED BY <4>1, <4>2, <1>4 DEF Referred
    <3>3. CheckDone(c) \/ WaitLoop(c)
      BY <2>2, <1>4 DEF Waiting, AllocateFails, UnknownType, SubmitFails, Free, Return, Call
    <3>4. pc'[c] \in {"lock", "asleep"} /\ held' = held
      BY <3>1, <3>2, <3>3, <1>1 DEF CheckDone, WaitLoop, Awaited
    <3> QED BY <2>2, <3>4, <1>4 DEF Waiting, Holds
  <2> QED BY <2>1, <2>2
<1>5. OneReference' /\ ReferredAreOwned' /\ RequestsRunOnce'
  BY <1>2, <1>4, ReferencesFrame
<1>6. ASSUME NEW d \in Clients, d # c
      PROVE  Collected(d)' /\ AwaitsOne(d)'
  BY <1>2, <1>3, <1>6, CallFrame DEF WInv
<1>7. Collected(c)' /\ AwaitsOne(c)'
  <2>1. CASE AllocateFails(c) \/ UnknownType(c) \/ SubmitFails(c)
    <3>1. pc'[c] = "release" /\ rc'[c] # "ok"
      BY <2>1, <1>1 DEF AllocateFails, UnknownType, SubmitFails, TypeOK
    <3> QED BY <3>1 DEF Collected, Collecting, AwaitsOne, Waiting
  <2>2. CASE CheckDone(c) \/ WaitLoop(c)
    <3>1. /\ pc'[c] \in {"lock", "asleep"} \/ (pc'[c] = "release" /\ done[held[c][1]])
          /\ Waiting(c) /\ UNCHANGED <<held, rc>>
      BY <2>2, <1>1 DEF CheckDone, WaitLoop, Awaited, Waiting
    <3> QED BY <3>1, <1>1, <1>2 DEF Collected, Collecting, AwaitsOne, Waiting
  <2>3. CASE Free(c)
    <3>1. pc[c] = "release" /\ pc'[c] = "release" /\ rc' = rc /\ held[c] # <<>> /\ held'[c] = Tail(held[c])
      BY <2>3, <1>1 DEF Free, TypeOK
    <3>2. rc[c] = "ok" => held'[c] = <<>>
      <4>1. SUFFICES ASSUME rc[c] = "ok" PROVE held'[c] = <<>>
        OBVIOUS
      <4>2. Len(held[c]) = 1
        BY <3>1, <4>1, <1>1 DEF AwaitsOne
      <4>3. Tail(held[c]) \in Seq(Slots) /\ Len(Tail(held[c])) = 0
        BY <4>2, <3>1, <1>1, HeadTailProperties
      <4> QED BY <4>3, <3>1, EmptySeq
    <3> QED BY <3>1, <3>2 DEF Collected, Collecting, AwaitsOne, Waiting
  <2>4. CASE Return(c)
    <3>1. pc'[c] = "idle"
      BY <2>4, <1>1 DEF Return
    <3> QED BY <3>1 DEF Collected, Collecting, AwaitsOne, Waiting
  <2>5. CASE \E kind \in Ops : Call(c, kind)
    <3>1. pc'[c] = "alloc" /\ held'[c] = <<>>
      BY <2>5, <1>1 DEF Call
    <3>2. Wanted(c)' \in Nat /\ Wanted(c)' > 0
      BY BatchSizeAssumption DEF Wanted
    <3>3. Len(held'[c]) = 0
      BY <3>1
    <3> QED BY <3>1, <3>2, <3>3 DEF Collected, Collecting, AwaitsOne, Waiting
  <2> QED BY <2>1, <2>2, <2>3, <2>4, <2>5
<1> QED BY <1>5, <1>6, <1>7 DEF WInv

\* The call fills in the context of the slot at hand.
LEMMA PrepareWInv ==
  ASSUME WInv, RInv', NEW c \in Clients, Prepare(c)
  PROVE  WInv'
<1> DEFINE n == Len(held[c])
<1>1. /\ TypeOK /\ Collected(c) /\ pc[c] = "prepare"
      /\ held[c] \in Seq(Slots) /\ n \in Nat /\ Wanted(c) \in Nat
  BY BatchSizeAssumption DEF WInv, RInv, IInv, TypeOK, Prepare, Wanted
<1>2. /\ ctx' = [ctx EXCEPT ![held[c][n]] = TRUE]
      /\ pc'  = [pc EXCEPT ![c] = IF n < Wanted(c) THEN "alloc" ELSE "submit"]
      /\ UNCHANGED <<entries, done, op, held, rc, spdk_pc, cur, served, handed>>
  BY DEF Prepare, ringVars, spdkVars
<1>3. \A s \in Slots : ctx[s] => ctx'[s]
  BY <1>1, <1>2 DEF TypeOK
<1>4. \A d \in Clients : d # c => pc'[d] = pc[d]
  BY <1>1, <1>2 DEF TypeOK
<1>5. \A d \in Clients : Waiting(d)' <=> Waiting(d)
  BY <1>1, <1>2 DEF TypeOK, Waiting
<1>6. OneReference' /\ ReferredAreOwned' /\ RequestsRunOnce'
  BY <1>2, <1>3, <1>5, ReferencesFrame DEF Holds
<1>7. ASSUME NEW d \in Clients, d # c
      PROVE  Collected(d)' /\ AwaitsOne(d)'
  <2>1. \A i \in 1 .. Len(held[d]) : held[d][i] \in Slots
    BY <1>1, ElementOfSeq DEF TypeOK
  <2> QED BY <2>1, <1>2, <1>3, <1>4, <1>7, CallFrame DEF WInv
<1>8. Collected(c)' /\ AwaitsOne(c)'
  <2>1. ASSUME NEW i \in 1 .. n
        PROVE  ~done[held[c][i]] /\ served[held[c][i]] = 0 /\ ctx'[held[c][i]]
    <3>1. /\ ~done[held[c][i]] /\ served[held[c][i]] = 0
          /\ ctx[held[c][i]] \/ i = n
      BY <1>1 DEF Collected, Collecting
    <3>2. held[c][i] \in Slots
      BY <1>1, ElementOfSeq
    <3> QED BY <3>1, <3>2, <1>1, <1>2 DEF TypeOK
  <2>2. /\ pc'[c] = IF n < Wanted(c) THEN "alloc" ELSE "submit"
        /\ n <= Wanted(c) /\ Wanted(c)' = Wanted(c) /\ held' = held /\ done' = done /\ served' = served
    BY <1>1, <1>2 DEF TypeOK, Collected, Wanted
  <2>3. /\ pc'[c] = "alloc" => n < Wanted(c)
        /\ pc'[c] = "submit" => n = Wanted(c)
        /\ pc'[c] \in {"alloc", "submit"}
    BY <1>1, <2>2
  <2> QED BY <2>1, <2>2, <2>3 DEF Collected, Collecting, AwaitsOne, Waiting
<1> QED BY <1>6, <1>7, <1>8 DEF WInv

\* Where the requests of a submission end up: each in one new cell of its ring.
LEMMA SubmitCells ==
  ASSUME WInv, NEW c \in Clients, Submit(c)
  PROVE  \A r \in Queues, i \in Cells :
           \/ entries'[r][i] = entries[r][i]
           \/ \E k \in 1 .. Len(held[c]) :
                /\ r = QueueOf[c] /\ i = CellAfter(tail[r], k - 1)
                /\ entries'[r][i] = held[c][k]
<1> DEFINE q == QueueOf[c]
<1>1. /\ q \in Queues /\ held[c] \in Seq(Slots) /\ TypeOK
      /\ HasRoom(q, Len(held[c])) /\ Enqueue(q, held[c])
  BY QueueOfAssumption DEF WInv, RInv, IInv, TypeOK, Submit
<1> HIDE DEF q
<1>2. tail[q] \in Cells /\ Len(held[c]) <= Capacity
  <2>1. size[q] \in Nat /\ Capacity \in Nat /\ tail[q] \in Cells /\ Len(held[c]) \in Nat
    BY <1>1, RingTypes
  <2> QED BY <2>1, <1>1 DEF HasRoom
<1>3. \A i \in Cells :
        \/ Stored(q, held[c])[i] = entries[q][i]
        \/ \E k \in 1 .. Len(held[c]) :
             i = CellAfter(tail[q], k - 1) /\ Stored(q, held[c])[i] = held[c][k]
  BY <1>1, <1>2, StoredCells
<1>4. /\ entries'[q] = Stored(q, held[c])
      /\ \A r \in Queues : r # q => entries'[r] = entries[r]
  BY <1>1 DEF Enqueue, TypeOK
<1> QED BY <1>3, <1>4 DEF q

\* xbdev_request_submit and xbdev_batch_requests.
LEMMA SubmitWInv ==
  ASSUME WInv, RInv', NEW c \in Clients, Submit(c)
  PROVE  WInv'
<1> DEFINE n == Len(held[c])
<1>1. /\ TypeOK /\ Collected(c) /\ pc[c] = "submit" /\ ~Waiting(c)
      /\ held[c] \in Seq(Slots) /\ n \in Nat /\ n = Wanted(c)
  BY DEF WInv, RInv, IInv, TypeOK, Submit, Waiting, Collected
<1>2. UNCHANGED <<done, ctx, served, op, spdk_pc, cur>>
  BY DEF Submit, reqVars, spdkVars
<1>3. \A d \in Clients \ {c} : pc'[d] = pc[d] /\ held'[d] = held[d] /\ op'[d] = op[d] /\ rc'[d] = rc[d]
  BY <1>1, ClientStepFrame DEF ClientStep
<1>4. \A i \in 1 .. n : /\ held[c][i] \in Slots /\ held[c][i] # NoSlot
                        /\ Holds(c, held[c][i])
                        /\ ~Referred(held[c][i]) /\ Fresh(held[c][i])
  <2>1. ASSUME NEW i \in 1 .. n
        PROVE  Fresh(held[c][i])
    BY <1>1 DEF Collected, Collecting, Fresh
  <2> QED BY <2>1, <1>1, HeldNotReferred, NoSlotAssumption
<1>5. \A i, j \in 1 .. n : held[c][i] = held[c][j] => i = j
  BY DEF WInv, RInv, IInv, SlotOwners, OneOwner
<1>6. \A r \in Queues, i \in Cells :
        \/ entries'[r][i] = entries[r][i]
        \/ \E k \in 1 .. n : /\ r = QueueOf[c] /\ i = CellAfter(tail[r], k - 1)
                             /\ entries'[r][i] = held[c][k]
  BY SubmitCells
<1>7. \A s : Queued(s)' => Queued(s) \/ \E k \in 1 .. n : s = held[c][k]
  BY <1>6 DEF Queued
<1>8. OneReference'
  <2>1. ASSUME NEW q \in Queues, NEW r \in Queues, NEW i \in Cells, NEW j \in Cells,
               entries'[q][i] = entries'[r][j], entries'[q][i] # NoSlot
        PROVE  q = r /\ i = j
    <3>1. CASE entries'[q][i] = entries[q][i] /\ entries'[r][j] = entries[r][j]
      <4>1. entries[q][i] = entries[r][j] /\ entries[q][i] # NoSlot
        BY <3>1, <2>1, Zenon
      <4> QED BY <4>1 DEF WInv, OneReference
    <3>2. CASE /\ entries'[q][i] = entries[q][i]
               /\ \E k \in 1 .. n : entries'[r][j] = held[c][k]
      BY <3>2, <2>1, <1>4 DEF Referred, Queued
    <3>3. CASE /\ entries'[r][j] = entries[r][j]
               /\ \E k \in 1 .. n : entries'[q][i] = held[c][k]
      BY <3>3, <2>1, <1>4 DEF Referred, Queued
    <3>4. CASE /\ \E k \in 1 .. n : /\ q = QueueOf[c] /\ i = CellAfter(tail[q], k - 1)
                                    /\ entries'[q][i] = held[c][k]
               /\ \E m \in 1 .. n : /\ r = QueueOf[c] /\ j = CellAfter(tail[r], m - 1)
                                    /\ entries'[r][j] = held[c][m]
      BY <3>4, <2>1, <1>5
    <3> QED BY <3>1, <3>2, <3>3, <3>4, <1>6
  <2>2. ASSUME cur' # NoSlot PROVE ~Queued(cur)'
    <3>1. cur # NoSlot /\ cur' = cur /\ ~Queued(cur)
      BY <2>2, <1>2 DEF WInv, OneReference
    <3>2. \A k \in 1 .. n : cur # held[c][k]
      BY <1>4 DEF Referred
    <3> QED BY <3>1, <3>2, <1>6 DEF Queued
  <2> QED BY <2>1, <2>2 DEF OneReference
<1>9. ASSUME Waits(c)
      PROVE  ReferredAreOwned' /\ Collected(c)' /\ AwaitsOne(c)'
  <2>1. /\ pc' = [pc EXCEPT ![c] = "check"] /\ UNCHANGED <<held, handed>>
        /\ rc' = [rc EXCEPT ![c] = "ok"]
    BY <1>9 DEF Submit
  <2>2. Waiting(c)' /\ \A d \in Clients : Waiting(d) => Waiting(d)'
    BY <2>1, <1>1 DEF Waiting, TypeOK
  <2>3. ReferredAreOwned'
    <3>1. ASSUME NEW s \in Slots, Referred(s)'
          PROVE  s \in handed' \/ \E d \in Clients : Waiting(d)' /\ Holds(d, s)'
      <4>1. CASE Referred(s)
        BY <4>1, <2>1, <2>2 DEF WInv, ReferredAreOwned, Holds
      <4>2. CASE \E k \in 1 .. n : s = held[c][k]
        BY <4>2, <2>1, <2>2 DEF Holds, SlotsOf
      <4> QED BY <4>1, <4>2, <3>1, <1>2, <1>7 DEF Referred
    <3> QED BY <3>1 DEF ReferredAreOwned
  <2>4. Collected(c)' /\ AwaitsOne(c)'
    <3>1. n = 1
      BY <1>1, <1>9 DEF Waits, Wanted
    <3>2. 1 \in 1 .. n
      BY <3>1
    <3>3. ~done[held[c][1]]
      BY <3>2, <1>4 DEF Fresh
    <3>4. pc'[c] = "check" /\ rc'[c] = "ok" /\ held' = held /\ done' = done
      BY <2>1, <1>1, <1>2 DEF TypeOK
    <3> QED BY <3>1, <3>3, <3>4 DEF Collected, Collecting, AwaitsOne, Waiting
  <2> QED BY <2>3, <2>4
<1>10. ASSUME ~Waits(c)
       PROVE  ReferredAreOwned' /\ Collected(c)' /\ AwaitsOne(c)'
  <2>1. /\ pc' = [pc EXCEPT ![c] = "idle"] /\ handed' = handed \cup SlotsOf(held[c])
    BY <1>10 DEF Submit, Forget
  <2>2. ReferredAreOwned'
    <3>1. ASSUME NEW s \in Slots, Referred(s)'
          PROVE  s \in handed' \/ \E d \in Clients : Waiting(d)' /\ Holds(d, s)'
      <4>1. CASE Referred(s)
        <5>1. CASE s \in handed
          BY <5>1, <2>1
        <5>2. CASE \E d \in Clients : Waiting(d) /\ Holds(d, s)
          <6>1. PICK d \in Clients : Waiting(d) /\ Holds(d, s)
            BY <5>2
          <6>2. d # c
            BY <6>1, <1>1
          <6> QED BY <6>1, <6>2, <1>3 DEF Waiting, Holds
        <5> QED BY <4>1, <5>1, <5>2 DEF WInv, ReferredAreOwned
      <4>2. CASE \E k \in 1 .. n : s = held[c][k]
        BY <4>2, <2>1 DEF SlotsOf
      <4> QED BY <4>1, <4>2, <3>1, <1>2, <1>7 DEF Referred
    <3> QED BY <3>1 DEF ReferredAreOwned
  <2>3. Collected(c)' /\ AwaitsOne(c)'
    <3>1. pc'[c] = "idle"
      BY <2>1, <1>1 DEF TypeOK
    <3> QED BY <3>1 DEF Collected, Collecting, AwaitsOne, Waiting
  <2> QED BY <2>2, <2>3
<1>11. RequestsRunOnce'
  <2>1. ASSUME NEW s \in Slots, Queued(s)' PROVE Fresh(s)'
    <3>1. Fresh(s)
      BY <2>1, <1>4, <1>7 DEF WInv, RequestsRunOnce
    <3> QED BY <3>1, <1>2 DEF Fresh
  <2> QED BY <2>1, <1>2 DEF WInv, RequestsRunOnce, Fresh
<1>12. ASSUME NEW d \in Clients, d # c
       PROVE  Collected(d)' /\ AwaitsOne(d)'
  BY <1>2, <1>3, <1>12, CallFrame DEF WInv
<1> QED BY <1>8, <1>9, <1>10, <1>11, <1>12 DEF WInv

\* dequeue_request: the reference moves from the ring to the SPDK thread.
LEMMA TakeWInv ==
  ASSUME WInv, RInv', Take
  PROVE  WInv'
<1>1. /\ TypeOK /\ scan \in Queues /\ head[scan] \in Cells
      /\ spdk_pc = "poll" /\ spdk_pc' = "dispatch"
      /\ cur = NoSlot /\ cur' = entries[scan][head[scan]]
      /\ entries' = [entries EXCEPT ![scan][head[scan]] = NoSlot]
      /\ UNCHANGED <<pc, op, held, rc, done, ctx, served, handed>>
  BY DEF WInv, RInv, IInv, TypeOK, SpdkHasRequest, Take, reqVars, clientVars
<1>2. cur' # NoSlot /\ cur' \in Slots /\ Queued(cur')
  <2>1. cur' # NoSlot
    BY TakeRings DEF WInv
  <2>2. entries[scan][head[scan]] \in Slots \cup {NoSlot}
    BY <1>1 DEF TypeOK
  <2> QED BY <2>1, <2>2, <1>1 DEF Queued
<1>3. \A q \in Queues, i \in Cells :
        \/ entries'[q][i] = entries[q][i] /\ (q # scan \/ i # head[scan])
        \/ entries'[q][i] = NoSlot /\ q = scan /\ i = head[scan]
  BY <1>1 DEF TypeOK
<1>4. \A s \in Slots : Queued(s)' => Queued(s) /\ s # cur'
  <2>1. ASSUME NEW s \in Slots, Queued(s)' PROVE Queued(s) /\ s # cur'
    <3>1. PICK q \in Queues, i \in Cells : entries'[q][i] = s
      BY <2>1 DEF Queued
    <3>2. entries[q][i] = s /\ (q # scan \/ i # head[scan]) /\ s # NoSlot
      BY <3>1, <1>3, NoSlotAssumption
    <3>3. entries[scan][head[scan]] # entries[q][i]
      BY <3>2, <1>1 DEF WInv, OneReference
    <3> QED BY <3>2, <3>3, <1>1 DEF Queued
  <2> QED BY <2>1
<1>5. OneReference'
  <2>1. ASSUME NEW q \in Queues, NEW r \in Queues, NEW i \in Cells, NEW j \in Cells,
               entries'[q][i] = entries'[r][j], entries'[q][i] # NoSlot
        PROVE  q = r /\ i = j
    <3>1. entries[q][i] = entries[r][j] /\ entries[q][i] # NoSlot
      BY <2>1, <1>3
    <3> QED BY <3>1 DEF WInv, OneReference
  <2>2. ~Queued(cur)'
    <3>1. ASSUME NEW q \in Queues, NEW i \in Cells PROVE entries'[q][i] # cur'
      <4>1. CASE entries'[q][i] \in Slots
        BY <4>1, <1>4 DEF Queued
      <4>2. CASE entries'[q][i] \notin Slots
        BY <4>2, <1>2
      <4> QED BY <4>1, <4>2
    <3> QED BY <3>1 DEF Queued
  <2> QED BY <2>1, <2>2 DEF OneReference
<1>6. ReferredAreOwned'
  <2>1. ASSUME NEW s \in Slots, Referred(s)' PROVE Referred(s)
    BY <2>1, <1>2, <1>4 DEF Referred
  <2>2. \A d \in Clients, s \in Slots : Waiting(d)' = Waiting(d) /\ Holds(d, s)' = Holds(d, s)
    BY <1>1 DEF Waiting, Holds
  <2> QED BY <2>1, <2>2, <1>1 DEF WInv, ReferredAreOwned
<1>7. RequestsRunOnce'
  <2>1. \A s \in Slots : Queued(s) => Fresh(s)
    BY DEF WInv, RequestsRunOnce
  <2>2. \A s \in Slots : Queued(s)' => Fresh(s)'
    BY <2>1, <1>1, <1>4 DEF Fresh
  <2>3. Fresh(cur)'
    BY <2>1, <1>1, <1>2 DEF Fresh
  <2> QED BY <2>2, <2>3, <1>1 DEF RequestsRunOnce
<1>8. \A d \in Clients : Collected(d)' /\ AwaitsOne(d)'
  BY <1>1, CallFrame DEF WInv
<1> QED BY <1>5, <1>6, <1>7, <1>8 DEF WInv

\* The handler runs: the request at hand is referred to from nowhere else.
LEMMA DispatchWInv ==
  ASSUME WInv, RInv', Dispatch
  PROVE  WInv'
<1>1. /\ TypeOK /\ spdk_pc = "dispatch" /\ spdk_pc' = "complete"
      /\ served' = [served EXCEPT ![cur] = IF @ = 0 THEN 1 ELSE 2]
      /\ UNCHANGED <<entries, cur, pc, op, held, rc, done, ctx, handed>>
  BY DEF WInv, RInv, IInv, Dispatch, ringVars, reqVars, clientVars
<1>2. cur \in Slots /\ Referred(cur) /\ ~Queued(cur) /\ Fresh(cur)
  BY <1>1, CurIsReferred DEF WInv, RequestsRunOnce
<1>3. served'[cur] = 1 /\ \A s \in Slots : s # cur => served'[s] = served[s]
  BY <1>1, <1>2 DEF TypeOK, Fresh
<1>4. \A s : Queued(s)' = Queued(s) /\ Referred(s)' = Referred(s)
  BY <1>1 DEF Queued, Referred
<1>5. OneReference' /\ ReferredAreOwned'
  BY <1>1, <1>4 DEF WInv, OneReference, ReferredAreOwned, Waiting, Holds
<1>6. RequestsRunOnce'
  <2>1. ASSUME NEW s \in Slots, Queued(s)' PROVE Fresh(s)'
    <3>1. Queued(s) /\ s # cur /\ Fresh(s)
      BY <2>1, <1>2, <1>4 DEF WInv, RequestsRunOnce
    <3> QED BY <3>1, <1>1, <1>3 DEF Fresh
  <2>2. served'[cur'] = 1 /\ ~done'[cur']
    BY <1>1, <1>2, <1>3 DEF Fresh
  <2> QED BY <2>1, <2>2, <1>1 DEF RequestsRunOnce
<1>7. ASSUME NEW d \in Clients
      PROVE  Collected(d)' /\ AwaitsOne(d)'
  <2>1. held[d] \in Seq(Slots) /\ \A i \in 1 .. Len(held[d]) : held[d][i] \in Slots
    BY <1>1, ElementOfSeq DEF TypeOK
  <2>2. CASE ~Waiting(d)
    <3>1. \A i \in 1 .. Len(held[d]) : held[d][i] # cur
      BY <2>2, <1>2, HeldNotReferred
    <3> QED BY <3>1, <2>1, <1>1, <1>3, CallFrame DEF WInv
  <2>3. CASE Waiting(d)
    <3>1. Len(held[d]) = 1 /\ rc[d] = "ok" /\ (done[held[d][1]] => served[held[d][1]] = 1)
      BY <2>3 DEF WInv, AwaitsOne
    <3>2. held[d][1] \in Slots
      BY <2>1, <3>1
    <3>3. done'[held[d][1]] => served'[held[d][1]] = 1
      BY <3>1, <3>2, <1>1, <1>3
    <3>4. UNCHANGED <<pc, held, rc>>
      BY <1>1
    <3> QED BY <2>3, <3>1, <3>3, <3>4 DEF Collected, Collecting, AwaitsOne, Waiting
  <2> QED BY <2>2, <2>3
<1> QED BY <1>5, <1>6, <1>7 DEF WInv

\* xbdev_mark_request_complete: the request is marked only now that it was served, and
\* the SPDK thread lets go of it.
LEMMA CompleteWInv ==
  ASSUME WInv, RInv', Complete
  PROVE  WInv'
<1>1. /\ TypeOK /\ spdk_pc = "complete" /\ spdk_pc' = "poll" /\ cur' = NoSlot
      /\ UNCHANGED <<entries, op, held, rc, served, ctx, handed>>
      /\ \/ done' = [done EXCEPT ![cur] = TRUE] /\ pc' = AllAwake
         \/ done' = done /\ pc' = pc
  BY DEF WInv, RInv, IInv, Complete, ringVars
<1>2. cur \in Slots /\ Referred(cur) /\ ~Queued(cur) /\ served[cur] = 1 /\ cur # NoSlot
  BY <1>1, CurIsReferred, NoSlotAssumption DEF WInv, RequestsRunOnce
<1>3. \A s \in Slots : s # cur => done'[s] = done[s]
  BY <1>1 DEF TypeOK
<1>4. /\ \A s : Queued(s)' = Queued(s)
      /\ \A s \in Slots : Referred(s)' => Referred(s)
  BY <1>1, NoSlotAssumption DEF Queued, Referred
<1>5. \A d \in Clients : /\ Waiting(d)' <=> Waiting(d)
                         /\ ~Waiting(d) => pc'[d] = pc[d]
  BY <1>1 DEF Waiting, AllAwake, TypeOK
<1>6. OneReference' /\ ReferredAreOwned'
  BY <1>1, <1>4, <1>5 DEF WInv, OneReference, ReferredAreOwned, Holds
<1>7. RequestsRunOnce'
  <2>1. ASSUME NEW s \in Slots, Queued(s)' PROVE Fresh(s)'
    <3>1. Queued(s) /\ s # cur /\ Fresh(s)
      BY <2>1, <1>2, <1>4 DEF WInv, RequestsRunOnce
    <3> QED BY <3>1, <1>1, <1>3 DEF Fresh
  <2> QED BY <2>1, <1>1 DEF RequestsRunOnce
<1>8. ASSUME NEW d \in Clients
      PROVE  Collected(d)' /\ AwaitsOne(d)'
  <2>1. held[d] \in Seq(Slots) /\ \A i \in 1 .. Len(held[d]) : held[d][i] \in Slots
    BY <1>1, ElementOfSeq DEF TypeOK
  <2>2. CASE ~Waiting(d)
    <3>1. \A i \in 1 .. Len(held[d]) : held[d][i] # cur
      BY <2>2, <1>2, HeldNotReferred
    <3> QED BY <3>1, <2>1, <2>2, <1>1, <1>3, <1>5, CallFrame DEF WInv
  <2>3. CASE Waiting(d)
    <3>1. Len(held[d]) = 1 /\ rc[d] = "ok" /\ (done[held[d][1]] => served[held[d][1]] = 1)
      BY <2>3 DEF WInv, AwaitsOne
    <3>2. held[d][1] \in Slots
      BY <2>1, <3>1
    <3>3. done'[held[d][1]] => served'[held[d][1]] = 1
      BY <3>1, <3>2, <1>1, <1>2, <1>3
    <3>4. UNCHANGED <<held, rc>> /\ Waiting(d)'
      BY <2>3, <1>1, <1>5
    <3> QED BY <3>1, <3>3, <3>4 DEF Collected, Collecting, AwaitsOne, Waiting
  <2> QED BY <2>2, <2>3
<1> QED BY <1>6, <1>7, <1>8 DEF WInv

\* A scan that finds nothing, and xbdev_queue_init.
LEMMA StillWInv ==
  ASSUME WInv, RInv',
         UNCHANGED <<entries, cur, spdk_pc, done, ctx, served, handed, pc, op, held, rc>>
  PROVE  WInv'
<1>1. OneReference' /\ ReferredAreOwned' /\ RequestsRunOnce'
  BY ReferencesFrame DEF Waiting, Holds
<1>2. \A d \in Clients : Collected(d)' /\ AwaitsOne(d)'
  BY CallFrame DEF WInv
<1> QED BY <1>1, <1>2 DEF WInv

\* xbdev_queue_fini: the references go with the rings.
LEMMA FiniWInv ==
  ASSUME WInv, RInv', QueueFini
  PROVE  WInv'
<1>1. /\ spdk_pc = "poll" /\ cur = NoSlot /\ spdk_pc' = "poll" /\ cur' = NoSlot
      /\ \A c \in Clients : pc[c] = "idle" /\ pc'[c] = "idle"
      /\ \A q \in Queues, i \in Cells : entries'[q][i] = NoSlot
  BY DEF QueueFini, RingsDestroyed, EachRing, EmptyRing, WInv, RInv, SpdkHasRequest, spdkVars, clientVars
<1>2. \A s \in Slots : ~Referred(s)' /\ ~Queued(s)'
  BY <1>1, NoSlotAssumption DEF Referred, Queued
<1>3. OneReference'
  BY <1>1 DEF OneReference
<1>4. ReferredAreOwned' /\ RequestsRunOnce'
  BY <1>1, <1>2 DEF ReferredAreOwned, RequestsRunOnce
<1>5. \A c \in Clients : Collected(c)' /\ AwaitsOne(c)'
  BY <1>1 DEF Collected, Collecting, AwaitsOne, Waiting
<1> QED BY <1>3, <1>4, <1>5 DEF WInv

\* While no wait times out, every step preserves the invariant.
LEMMA NextWInv ==
  ASSUME ~TimesOut
  PROVE  WInv /\ [Next]_vars => WInv'
<1> SUFFICES ASSUME WInv, [Next]_vars PROVE WInv'
  OBVIOUS
<1>1. RInv'
  BY NextRInv DEF WInv
<1>2. CASE QueueInit
  BY <1>1, <1>2, StillWInv DEF QueueInit, ringVars, reqVars, clientVars, spdkVars
<1>3. CASE QueueFini
  BY <1>1, <1>3, FiniWInv
<1>4. ASSUME NEW c \in Clients, ClientStep(c) \/ \E kind \in Ops : Call(c, kind)
      PROVE  WInv'
  <2>1. ~WaitTimesOut(c)
    BY DEF WaitTimesOut
  <2> QED BY <2>1, <1>1, <1>4, AllocateWInv, QuietWInv, PrepareWInv, SubmitWInv DEF ClientStep
<1>5. CASE SpdkStep
  <2>1. CASE ScanEmpty
    BY <2>1, <1>1, StillWInv DEF ScanEmpty, ringVars, reqVars, clientVars
  <2> QED BY <2>1, <1>1, <1>5, TakeWInv, DispatchWInv, CompleteWInv DEF SpdkStep
<1>6. CASE UNCHANGED vars
  BY <1>1, <1>6, StillWInv DEF vars, ringVars, reqVars, clientVars, spdkVars
<1> QED BY <1>2, <1>3, <1>4, <1>5, <1>6 DEF Next

\* A set whose members are all equal has at most one.
LEMMA AtMostOne ==
  ASSUME NEW S, \A x, y \in S : x = y
  PROVE  Cardinality(S) \in 0 .. 1 /\ (Cardinality(S) = 1 => S # {})
<1>1. CASE S = {}
  <2>1. Cardinality(S) = 0
    BY <1>1, FS_EmptySet
  <2> QED BY <2>1
<1>2. CASE S # {}
  <2>1. PICK x \in S : S = {x}
    BY <1>2
  <2>2. Cardinality(S) = 1
    BY <2>1, FS_Singleton
  <2> QED BY <1>2, <2>2
<1> QED BY <1>1, <1>2

LEMMA WInvNoStaleReference == WInv => NoStaleReference
<1> SUFFICES ASSUME WInv, NEW s \in Slots
             PROVE  /\ Cardinality(CellsWith(s)) + (IF cur = s THEN 1 ELSE 0) <= 1
                    /\ OnItsWay(s) => used[s]
  BY DEF NoStaleReference
<1>1. s # NoSlot
  BY NoSlotAssumption
<1>2. ASSUME NEW x \in CellsWith(s), NEW y \in CellsWith(s)
      PROVE  x = y
  <2>1. /\ x \in Queues \X Cells /\ y \in Queues \X Cells
        /\ entries[x[1]][x[2]] = s /\ entries[y[1]][y[2]] = s
    BY DEF CellsWith
  <2>2. x[1] \in Queues /\ y[1] \in Queues /\ x[2] \in Cells /\ y[2] \in Cells
    BY <2>1
  <2>3. x[1] = y[1] /\ x[2] = y[2]
    BY <2>1, <2>2, <1>1 DEF WInv, OneReference
  <2> QED BY <2>1, <2>3
<1>3. CellsWith(s) # {} => Queued(s)
  <2>1. ASSUME NEW x \in CellsWith(s) PROVE Queued(s)
    BY DEF CellsWith, Queued
  <2> QED BY <2>1
<1>4. Cardinality(CellsWith(s)) + (IF cur = s THEN 1 ELSE 0) <= 1
  <2>1. Cardinality(CellsWith(s)) \in 0 .. 1 /\ (Cardinality(CellsWith(s)) = 1 => CellsWith(s) # {})
    BY <1>2, AtMostOne
  <2>2. cur = s => CellsWith(s) = {}
    BY <1>1, <1>3 DEF WInv, OneReference
  <2> DEFINE m == Cardinality(CellsWith(s))
  <2>3. m \in 0 .. 1 /\ (cur = s => m # 1)
    BY <2>1, <2>2
  <2> HIDE DEF m
  <2>4. m + (IF cur = s THEN 1 ELSE 0) <= 1
    BY <2>3
  <2> QED BY <2>4 DEF m
<1>5. OnItsWay(s) => used[s]
  BY <1>3, ReferredUsed DEF Referred, OnItsWay
<1> QED BY <1>4, <1>5

LEMMA WInvHandlerHasContext == WInv => HandlerHasContext
<1> SUFFICES ASSUME WInv, spdk_pc = "dispatch" PROVE used[cur] /\ ctx[cur]
  BY DEF HandlerHasContext
<1>1. cur \in Slots /\ Referred(cur)
  BY CurIsReferred
<1>2. used[cur]
  BY <1>1, ReferredUsed
<1>3. ctx[cur]
  BY DEF WInv, RequestsRunOnce, Fresh
<1> QED BY <1>2, <1>3

LEMMA WInvSyncSuccess == WInv => SyncSuccessMeansServed
BY DEF WInv, AwaitsOne, SyncSuccessMeansServed, Awaited

\* While no wait times out, no ring and no SPDK thread refers to a slot that has gone
\* back to the pool, nor twice to one slot, whatever the calls in flight: the caller
\* that frees its request is never followed by a handler on the next owner's.
THEOREM NoStaleSlots == ASSUME ~TimesOut PROVE Spec => []NoStaleReference
BY InitWInv, NextWInv, WInvNoStaleReference, PTL DEF Spec

\* While no wait times out, a handler runs only on a request its call has filled in.
THEOREM HandlersHaveContext == ASSUME ~TimesOut PROVE Spec => []HandlerHasContext
BY InitWInv, NextWInv, WInvHandlerHasContext, PTL DEF Spec

\* While no wait times out, xbdev_sync_request_execute that returns success returns
\* after its handler ran, exactly once, with any number of callers on the one
\* condition variable.
THEOREM SuccessMeansServed == ASSUME ~TimesOut PROVE Spec => []SyncSuccessMeansServed
BY InitWInv, NextWInv, WInvSyncSuccess, PTL DEF Spec
-----------------------------------------------------------------------------
(***************************************************************************)
(* The slots of the pool, timed out waits included.  Who owns a slot is    *)
(* settled by IInv.  That a request left to the SPDK thread is not lost on *)
(* its way needs the shape of the rings: a submission must not overwrite a *)
(* cell in use, and a dequeue must hand out the request it removes.        *)
(***************************************************************************)

\* A request left to the SPDK thread is in a ring, or taken and not yet dispatched,
\* or its handler has run.
HandedAreKept ==
  \A s \in handed : Queued(s) \/ (cur = s /\ spdk_pc = "dispatch") \/ served[s] > 0

HInv == RInv /\ HandedAreKept

LEMMA QueuedOnItsWay ==
  ASSUME NEW s \in Slots, Queued(s)
  PROVE  CellsWith(s) # {}
<1>1. PICK q \in Queues, i \in Cells : entries[q][i] = s
  BY DEF Queued
<1>2. <<q, i>> \in CellsWith(s)
  BY <1>1 DEF CellsWith
<1> QED BY <1>2

LEMMA HInvSlotAccounting == HInv => SlotAccounting
<1> SUFFICES ASSUME HInv PROVE SlotAccounting
  OBVIOUS
<1>1. SlotOwners /\ handed \subseteq Slots
  BY DEF HInv, RInv, IInv, TypeOK
<1>2. ASSUME NEW s \in Leaked
      PROVE  served[s] > 0
  <2>1. s \in handed /\ s \in Slots /\ cur # s /\ CellsWith(s) = {}
    BY <1>1 DEF Leaked, OnItsWay
  <2> QED BY <2>1, QueuedOnItsWay DEF HInv, HandedAreKept
<1> QED BY <1>1, <1>2 DEF SlotAccounting, OnlyServedLeak

\* A submission puts each of its requests into a cell and overwrites none.
LEMMA SubmitKeepsCells ==
  ASSUME RInv, NEW c \in Clients, Submit(c)
  PROVE  /\ \A s \in SlotsOf(held[c]) : Queued(s)'
         /\ \A s \in Slots : Queued(s) => Queued(s)'
<1> DEFINE q == QueueOf[c]
           n == Len(held[c])
<1>1. /\ q \in Queues /\ held[c] \in Seq(Slots) /\ n \in Nat /\ TypeOK
      /\ HasRoom(q, n) /\ Enqueue(q, held[c]) /\ RingInShape(q)
  <2>1. /\ q \in Queues /\ held[c] \in Seq(Slots) /\ TypeOK
        /\ HasRoom(q, n) /\ Enqueue(q, held[c])
    BY QueueOfAssumption DEF RInv, IInv, TypeOK, Submit
  <2> HIDE DEF q
  <2>2. RingInShape(q)
    BY <2>1 DEF RInv
  <2> QED BY <2>1, <2>2
<1>2. /\ size[q] \in Nat /\ Capacity \in Nat /\ Capacity > 0 /\ size[q] + n <= Capacity
      /\ head[q] \in Cells /\ tail[q] \in Cells /\ n <= Capacity
  <2>1. /\ size[q] \in Nat /\ Capacity \in Nat /\ Capacity > 0
        /\ head[q] \in Cells /\ tail[q] \in Cells
    BY <1>1, RingTypes
  <2> QED BY <2>1, <1>1 DEF HasRoom
<1>3. /\ \A k \in 1 .. n : Stored(q, held[c])[CellAfter(tail[q], k - 1)] = held[c][k]
      /\ \A i \in Cells :
           (\A k \in 1 .. n : i # CellAfter(tail[q], k - 1))
             => Stored(q, held[c])[i] = entries[q][i]
  BY <1>1, <1>2, StoredCells
<1>4. /\ entries'[q] = Stored(q, held[c])
      /\ \A r \in Queues : r # q => entries'[r] = entries[r]
  BY <1>1 DEF Enqueue, TypeOK
<1> HIDE DEF q
<1>5. ASSUME NEW s \in SlotsOf(held[c])
      PROVE  Queued(s)'
  <2>1. PICK k \in 1 .. n : s = held[c][k]
    BY DEF SlotsOf
  <2>2. k - 1 \in 0 .. Capacity
    BY <1>1, <1>2
  <2>3. CellAfter(tail[q], k - 1) \in Cells
    BY <1>2, <2>2, CellAfterIsCell
  <2>4. entries'[q][CellAfter(tail[q], k - 1)] = s
    BY <2>1, <1>3, <1>4
  <2> QED BY <2>3, <2>4, <1>1 DEF Queued
<1>6. ASSUME NEW s \in Slots, Queued(s)
      PROVE  Queued(s)'
  <2>1. PICK r \in Queues, i \in Cells : entries[r][i] = s
    BY <1>6 DEF Queued
  <2>2. CASE r # q
    BY <2>1, <2>2, <1>4 DEF Queued
  <2>3. CASE r = q
    <3>1. i \in Window(q)
      BY <2>1, <2>3, <1>1, NoSlotAssumption DEF RingInShape
    <3>2. PICK j \in 0 .. size[q] - 1 : i = CellAfter(head[q], j)
      BY <3>1 DEF Window
    <3>3. ASSUME NEW k \in 1 .. n
          PROVE  i # CellAfter(tail[q], k - 1)
      <4>1. /\ k - 1 \in 0 .. Capacity /\ size[q] \in 0 .. Capacity
            /\ size[q] + (k - 1) \in 0 .. Capacity - 1 /\ size[q] + (k - 1) <= Capacity
            /\ j \in 0 .. Capacity - 1 /\ j # size[q] + (k - 1)
        BY <1>1, <1>2
      <4>2. tail[q] = CellAfter(head[q], size[q])
        BY <1>1 DEF RingInShape
      <4>3. CellAfter(tail[q], k - 1) = CellAfter(head[q], size[q] + (k - 1))
        BY <4>1, <4>2, <1>2, CellAfterAdds
      <4> QED BY <4>1, <4>3, <3>2, <1>2, CellAfterInjective
    <3>4. entries'[q][i] = s
      BY <3>3, <2>1, <2>3, <1>3, <1>4
    <3> QED BY <3>4, <1>1 DEF Queued
  <2> QED BY <2>2, <2>3
<1> QED BY <1>5, <1>6

\* A step that leaves the rings, the SPDK thread and what was handed to it alone.
LEMMA HandedFrame ==
  ASSUME HandedAreKept, UNCHANGED <<entries, cur, spdk_pc, handed, served>>
  PROVE  HandedAreKept'
BY DEF HandedAreKept, Queued

\* The steps of a call.  The slot that is allocated was not left to the SPDK thread.
LEMMA ClientHanded ==
  ASSUME HInv, NEW c \in Clients, ClientStep(c) \/ \E kind \in Ops : Call(c, kind)
  PROVE  HandedAreKept'
<1> USE DEF HInv
<1>1. CASE Allocate(c)
  <2>1. PICK s \in Slots : ~used[s] /\ served' = [served EXCEPT ![s] = 0]
    BY <1>1 DEF Allocate
  <2>2. s \notin handed /\ served \in [Slots -> 0 .. 2] /\ handed \subseteq Slots
    BY <2>1 DEF RInv, IInv, TypeOK, SlotOwners, PoolMatchesOwners
  <2>3. \A t \in handed : served'[t] = served[t]
    BY <2>1, <2>2
  <2>4. UNCHANGED <<entries, cur, spdk_pc, handed>>
    BY <1>1 DEF Allocate, ringVars, spdkVars
  <2> QED BY <2>3, <2>4 DEF HandedAreKept, Queued
<1>2. CASE Submit(c)
  <2>1. UNCHANGED <<cur, spdk_pc, served>>
    BY <1>2 DEF Submit, spdkVars
  <2>2. handed' \subseteq handed \cup SlotsOf(held[c])
    BY <1>2 DEF Submit, Forget
  <2>3. handed \subseteq Slots
    BY DEF RInv, IInv, TypeOK
  <2>4. /\ \A s \in SlotsOf(held[c]) : Queued(s)'
        /\ \A s \in Slots : Queued(s) => Queued(s)'
    BY <1>2, SubmitKeepsCells
  <2> QED BY <2>1, <2>2, <2>3, <2>4 DEF HandedAreKept
<1>3. CASE AllocateFails(c) \/ Prepare(c) \/ UnknownType(c)
  BY <1>3, HandedFrame DEF AllocateFails, Prepare, UnknownType, ringVars, spdkVars
<1>4. CASE SubmitFails(c) \/ CheckDone(c) \/ WaitLoop(c) \/ WaitTimesOut(c)
  BY <1>4, HandedFrame DEF SubmitFails, CheckDone, WaitLoop, WaitTimesOut, ringVars, spdkVars
<1>5. CASE Free(c) \/ Return(c) \/ \E kind \in Ops : Call(c, kind)
  BY <1>5, HandedFrame DEF Free, Return, Call, ringVars, spdkVars
<1> QED BY <1>1, <1>2, <1>3, <1>4, <1>5 DEF ClientStep

\* The steps of the SPDK thread: what leaves a ring is dispatched.
LEMMA SpdkHanded ==
  ASSUME HInv, SpdkStep
  PROVE  HandedAreKept'
<1> USE DEF HInv
<1>1. CASE ScanEmpty
  BY <1>1, HandedFrame DEF ScanEmpty, ringVars
<1>2. CASE Take
  <2>1. /\ cur = NoSlot /\ cur' = entries[scan][head[scan]] /\ spdk_pc' = "dispatch"
        /\ entries' = [entries EXCEPT ![scan][head[scan]] = NoSlot]
        /\ handed' = handed /\ served' = served
    BY <1>2 DEF Take, RInv, SpdkHasRequest
  <2>2. /\ handed \subseteq Slots /\ scan \in Queues /\ head[scan] \in Cells
        /\ entries \in [Queues -> [Cells -> Slots \cup {NoSlot}]]
    BY DEF RInv, IInv, TypeOK
  <2>3. ASSUME NEW s \in handed, Queued(s)
        PROVE  Queued(s)' \/ cur' = s
    <3>1. PICK q \in Queues, i \in Cells : entries[q][i] = s
      BY <2>3 DEF Queued
    <3>2. CASE q = scan /\ i = head[scan]
      BY <3>1, <3>2, <2>1
    <3>3. CASE ~(q = scan /\ i = head[scan])
      <4>1. entries'[q][i] = s
        BY <3>1, <3>3, <2>1, <2>2
      <4> QED BY <4>1 DEF Queued
    <3> QED BY <3>2, <3>3
  <2>4. \A s \in handed : cur # s
    BY <2>1, <2>2, NoSlotAssumption
  <2> QED BY <2>1, <2>3, <2>4 DEF HandedAreKept
<1>3. CASE Dispatch
  <2>1. /\ UNCHANGED <<entries, cur, handed>>
        /\ served' = [served EXCEPT ![cur] = IF @ = 0 THEN 1 ELSE 2]
    BY <1>3 DEF Dispatch, ringVars
  <2>2. served \in [Slots -> 0 .. 2] /\ handed \subseteq Slots
    BY DEF RInv, IInv, TypeOK
  <2>3. ASSUME NEW s \in handed
        PROVE  (served[s] > 0 => served'[s] > 0) /\ (cur = s => served'[s] > 0)
    <3>1. CASE cur = s
      BY <3>1, <2>1, <2>2
    <3>2. CASE cur # s
      BY <3>2, <2>1, <2>2
    <3> QED BY <3>1, <3>2
  <2> QED BY <2>1, <2>3 DEF HandedAreKept, Queued
<1>4. CASE Complete
  <2>1. UNCHANGED <<entries, handed, served>> /\ spdk_pc = "complete"
    BY <1>4 DEF Complete, ringVars
  <2> QED BY <2>1 DEF HandedAreKept, Queued
<1> QED BY <1>1, <1>2, <1>3, <1>4 DEF SpdkStep

LEMMA InitHInv == Init => HInv
BY InitRInv DEF HInv, HandedAreKept, Init

LEMMA NextHInv == HInv /\ [Next]_vars => HInv'
<1> SUFFICES ASSUME HInv, [Next]_vars PROVE HInv'
  OBVIOUS
<1>1. RInv'
  BY NextRInv DEF HInv
<1>2. CASE QueueInit
  BY <1>1, <1>2, HandedFrame DEF QueueInit, HInv, ringVars, spdkVars
<1>3. CASE QueueFini
  BY <1>1, <1>3 DEF QueueFini, PoolDestroyed, HInv, HandedAreKept
<1>4. ASSUME NEW c \in Clients, ClientStep(c) \/ \E kind \in Ops : Call(c, kind)
      PROVE  HInv'
  BY <1>1, <1>4, ClientHanded DEF HInv
<1>5. CASE SpdkStep
  BY <1>1, <1>5, SpdkHanded DEF HInv
<1>6. CASE UNCHANGED vars
  BY <1>1, <1>6, HandedFrame DEF vars, HInv, ringVars, spdkVars
<1> QED BY <1>2, <1>3, <1>4, <1>5, <1>6 DEF Next

\* Slots are never shared inside the pool, and none leaks before its request is
\* served, whatever the calls, their interleaving, their failures and their timeouts.
\* What does leak, served asynchronous requests, is what the run of AsyncIsFreed shows.
THEOREM SlotsAccountedFor == Spec => []SlotAccounting
BY InitHInv, NextHInv, HInvSlotAccounting, PTL DEF Spec
=============================================================================
