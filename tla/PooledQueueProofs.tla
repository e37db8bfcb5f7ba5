-------------------------- MODULE PooledQueueProofs --------------------------
(***************************************************************************)
(* Theorems about PooledQueue, for every number of clients, rings, cells   *)
(* and slots, every kind of call and every assignment of rings to clients. *)
(***************************************************************************)
EXTENDS PooledQueue, FiniteSetTheorems, SequenceTheorems, TLAPS

-----------------------------------------------------------------------------
(***************************************************************************)
(* Lemmas about the pool and about the sequences of slots that calls hold. *)
(***************************************************************************)

\* A set of slots is finite and has at most PoolSize members.
LEMMA SlotSetSize ==
  ASSUME NEW S \in SUBSET Slots
  PROVE  IsFiniteSet(S) /\ Cardinality(S) \in 0 .. PoolSize
<1>1. IsFiniteSet(Slots) /\ Cardinality(Slots) = PoolSize
  BY PoolSizeAssumption, FS_Interval DEF Slots
<1>2. IsFiniteSet(S) /\ Cardinality(S) <= Cardinality(Slots)
  BY <1>1, FS_Subset
<1>3. Cardinality(S) \in Nat
  BY <1>2, FS_CardinalityType
<1> QED BY <1>1, <1>2, <1>3, PoolSizeAssumption

\* A cell index computed from any other is a cell.
LEMMA CellAfterType ==
  ASSUME NEW i \in Nat, NEW k \in Nat
  PROVE  CellAfter(i, k) \in Cells
BY CapacityAssumption DEF CellAfter, Cells

\* Appending a slot adds it to the slots of a sequence.
LEMMA SlotsOfAppend ==
  ASSUME NEW seq \in Seq(Slots), NEW s \in Slots
  PROVE  /\ Append(seq, s) \in Seq(Slots)
         /\ Len(Append(seq, s)) = Len(seq) + 1
         /\ \A i \in 1 .. Len(seq) : Append(seq, s)[i] = seq[i]
         /\ Append(seq, s)[Len(seq) + 1] = s
         /\ SlotsOf(Append(seq, s)) = SlotsOf(seq) \cup {s}
<1>1. /\ Append(seq, s) \in Seq(Slots)
      /\ Len(Append(seq, s)) = Len(seq) + 1
      /\ \A i \in 1 .. Len(seq) : Append(seq, s)[i] = seq[i]
      /\ Append(seq, s)[Len(seq) + 1] = s
  OBVIOUS
<1>2. Len(seq) \in Nat
  OBVIOUS
<1>3. 1 .. Len(Append(seq, s)) = 1 .. Len(seq) \cup {Len(seq) + 1}
  BY <1>1, <1>2
<1>4. SlotsOf(Append(seq, s)) = SlotsOf(seq) \cup {s}
  BY <1>1, <1>3 DEF SlotsOf
<1> QED BY <1>1, <1>4

\* Taking the first slot off a sequence without repetitions removes just it.
LEMMA SlotsOfTail ==
  ASSUME NEW seq \in Seq(Slots), seq # <<>>,
         \A i, j \in 1 .. Len(seq) : seq[i] = seq[j] => i = j
  PROVE  /\ Head(seq) \in SlotsOf(seq)
         /\ Tail(seq) \in Seq(Slots)
         /\ SlotsOf(Tail(seq)) = SlotsOf(seq) \ {Head(seq)}
         /\ \A i, j \in 1 .. Len(Tail(seq)) : Tail(seq)[i] = Tail(seq)[j] => i = j
<1>1. /\ Len(seq) \in Nat \ {0} /\ Head(seq) = seq[1]
      /\ Tail(seq) \in Seq(Slots) /\ Len(Tail(seq)) = Len(seq) - 1
      /\ \A i \in 1 .. Len(Tail(seq)) : Tail(seq)[i] = seq[i + 1]
  BY EmptySeq, HeadTailProperties
<1>2. Head(seq) \in SlotsOf(seq)
  BY <1>1 DEF SlotsOf
<1>3. \A i \in 1 .. Len(Tail(seq)) : i + 1 \in 1 .. Len(seq) /\ i + 1 # 1
  BY <1>1
<1>4. ASSUME NEW x \in SlotsOf(Tail(seq))
      PROVE  x \in SlotsOf(seq) \ {Head(seq)}
  <2>1. PICK i \in 1 .. Len(Tail(seq)) : x = seq[i + 1]
    BY <1>1 DEF SlotsOf
  <2>2. x # seq[1]
    BY <2>1, <1>1, <1>3
  <2> QED BY <2>1, <2>2, <1>1, <1>3 DEF SlotsOf
<1>5. ASSUME NEW x \in SlotsOf(seq) \ {Head(seq)}
      PROVE  x \in SlotsOf(Tail(seq))
  <2>1. PICK i \in 1 .. Len(seq) : x = seq[i] /\ i # 1
    BY <1>1 DEF SlotsOf
  <2>2. i - 1 \in 1 .. Len(Tail(seq)) /\ (i - 1) + 1 = i
    BY <2>1, <1>1
  <2>3. x = Tail(seq)[i - 1]
    BY <2>1, <2>2, <1>1
  <2> QED BY <2>2, <2>3 DEF SlotsOf
<1>6. \A i, j \in 1 .. Len(Tail(seq)) : Tail(seq)[i] = Tail(seq)[j] => i = j
  BY <1>1, <1>3
<1> QED BY <1>1, <1>2, <1>4, <1>5, <1>6
-----------------------------------------------------------------------------
(***************************************************************************)
(* The inductive invariant: the type invariant and the owners of the       *)
(* slots.  Neither is inductive alone: the bounds of used_count need the   *)
(* owners, the owners need the types of the sequences.                     *)
(***************************************************************************)
IInv == TypeOK /\ SlotOwners

\* The initial state.
LEMMA InitIInv == Init => IInv
<1> SUFFICES ASSUME Init PROVE IInv
  OBVIOUS
<1>1. 0 \in Queues /\ 0 \in Cells
  BY NumQueuesAssumption, CapacityAssumption DEF Queues, Cells
<1>2. 0 \in 0 .. PoolSize /\ 0 \in 0 .. Capacity
  BY PoolSizeAssumption, CapacityAssumption
<1>3. TypeOK
  <2>1. entries \in [Queues -> [Cells -> Slots \cup {NoSlot}]]
    <3>1. EmptyRing \in [Cells -> Slots \cup {NoSlot}]
      BY DEF EmptyRing
    <3> QED BY <3>1 DEF Init, EachRing
  <2>2. held \in [Clients -> Seq(Slots)]
    BY EmptySeq DEF Init
  <2>3. /\ head \in [Queues -> Cells] /\ tail \in [Queues -> Cells]
        /\ size \in [Queues -> 0 .. Capacity]
    BY <1>1, <1>2 DEF Init, EachRing
  <2>4. /\ used \in [Slots -> BOOLEAN] /\ sync_req \in [Slots -> BOOLEAN]
        /\ done \in [Slots -> BOOLEAN] /\ ctx \in [Slots -> BOOLEAN]
        /\ served \in [Slots -> 0 .. 2]
    BY DEF Init, EachSlot
  <2>5. /\ initialized \in BOOLEAN /\ used_count \in 0 .. PoolSize
        /\ spdk_pc \in SpdkStates /\ scan \in Queues
        /\ cur \in Slots \cup {NoSlot} /\ handed \in SUBSET Slots
    BY <1>1, <1>2 DEF Init, SpdkStates
  <2>6. /\ pc \in [Clients -> Locations] /\ op \in [Clients -> Kinds]
        /\ rc \in [Clients -> Codes]
    BY DEF Init, Locations, Kinds, Codes
  <2> QED BY <2>1, <2>2, <2>3, <2>4, <2>5, <2>6 DEF TypeOK
<1>4. UsedSlots = {}
  BY DEF Init, UsedSlots, EachSlot
<1>5. \A c \in Clients : held[c] = <<>> /\ SlotsOf(held[c]) = {}
  BY DEF Init, SlotsOf
<1>6. used_count = Cardinality(UsedSlots)
  BY <1>4, FS_EmptySet DEF Init
<1>7. PoolMatchesOwners /\ OneOwner /\ IdleHoldsNothing
  BY <1>5, <1>6 DEF PoolMatchesOwners, OneOwner, IdleHoldsNothing, Holds, Init, EachSlot
<1> QED BY <1>3, <1>7 DEF IInv, SlotOwners

\* A step that touches neither the pool nor what the calls hold, and that ends no
\* call that still holds a slot, preserves the owners.
LEMMA OwnersFrame ==
  ASSUME SlotOwners,
         UNCHANGED <<used, used_count, held, handed>>,
         \A c \in Clients : pc'[c] = "idle" => pc[c] = "idle" \/ held[c] = <<>>
  PROVE  SlotOwners'
BY DEF SlotOwners, PoolMatchesOwners, OneOwner, IdleHoldsNothing, UsedSlots, Holds,
       SlotsOf

\* alloc_request_from_pool.
LEMMA AllocateStep ==
  ASSUME IInv, NEW c \in Clients, Allocate(c)
  PROVE  IInv'
<1> USE DEF IInv
<1>1. PICK s \in Slots :
        /\ ~used[s]
        /\ used'       = [used EXCEPT ![s] = TRUE]
        /\ used_count' = used_count + 1
        /\ sync_req'   = [sync_req EXCEPT ![s] = (op[c] = "sync")]
        /\ done'       = [done EXCEPT ![s] = FALSE]
        /\ ctx'        = [ctx EXCEPT ![s] = FALSE]
        /\ served'     = [served EXCEPT ![s] = 0]
        /\ held'       = [held EXCEPT ![c] = Append(@, s)]
  BY DEF Allocate
<1>2. /\ pc' = [pc EXCEPT ![c] = "prepare"] /\ pc[c] = "alloc"
      /\ UNCHANGED <<initialized, ringVars, op, rc, spdkVars, handed>>
  BY DEF Allocate
<1>3. held \in [Clients -> Seq(Slots)] /\ used \in [Slots -> BOOLEAN]
  BY DEF TypeOK
<1>4. held'[c] = Append(held[c], s) /\ \A d \in Clients \ {c} : held'[d] = held[d]
  BY <1>1, <1>3
<1>5. /\ held'[c] \in Seq(Slots)
      /\ Len(held'[c]) = Len(held[c]) + 1
      /\ \A i \in 1 .. Len(held[c]) : held'[c][i] = held[c][i]
      /\ held'[c][Len(held[c]) + 1] = s
      /\ SlotsOf(held'[c]) = SlotsOf(held[c]) \cup {s}
  BY <1>3, <1>4, SlotsOfAppend
<1>6. s \notin handed /\ \A d \in Clients : s \notin SlotsOf(held[d])
  BY <1>1 DEF SlotOwners, PoolMatchesOwners, Holds
<1>7. UsedSlots' = UsedSlots \cup {s} /\ s \notin UsedSlots
  BY <1>1, <1>3 DEF UsedSlots
<1>8. used_count' = Cardinality(UsedSlots')
  <2>1. IsFiniteSet(UsedSlots)
    BY SlotSetSize DEF UsedSlots
  <2> QED BY <1>1, <1>7, <2>1, FS_AddElement DEF SlotOwners, PoolMatchesOwners
<1>9. PoolMatchesOwners'
  BY <1>1, <1>2, <1>3, <1>4, <1>5, <1>6, <1>8
     DEF SlotOwners, PoolMatchesOwners, Holds
<1>10. OneOwner'
  <2>1. ASSUME NEW d \in Clients, NEW t \in Slots, Holds(d, t)'
        PROVE  t \notin handed' /\ \A e \in Clients : Holds(e, t)' => e = d
    <3>1. handed' = handed
      BY <1>2
    <3>2. CASE t = s
      BY <3>1, <3>2, <2>1, <1>4, <1>6 DEF Holds
    <3>3. CASE t # s
      <4>1. \A e \in Clients : Holds(e, t)' <=> Holds(e, t)
        BY <3>3, <1>4, <1>5 DEF Holds
      <4> QED BY <4>1, <3>1, <2>1 DEF SlotOwners, OneOwner
    <3> QED BY <3>2, <3>3
  <2>2. ASSUME NEW d \in Clients, NEW i \in 1 .. Len(held'[d]),
               NEW j \in 1 .. Len(held'[d]), held'[d][i] = held'[d][j]
        PROVE  i = j
    <3>1. CASE d # c
      BY <3>1, <2>2, <1>4 DEF SlotOwners, OneOwner
    <3>2. CASE d = c
      <4>1. \A k \in 1 .. Len(held[c]) : held[c][k] # s
        BY <1>6 DEF SlotsOf
      <4>2. \A k \in 1 .. Len(held'[c]) : k \in 1 .. Len(held[c]) \/ k = Len(held[c]) + 1
        BY <1>3, <1>5
      <4> QED BY <3>2, <2>2, <4>1, <4>2, <1>5 DEF SlotOwners, OneOwner
    <3> QED BY <3>1, <3>2
  <2> QED BY <2>1, <2>2 DEF OneOwner
<1>11. IdleHoldsNothing'
  BY <1>2, <1>4 DEF SlotOwners, IdleHoldsNothing, TypeOK
<1>12. used_count' \in 0 .. PoolSize
  BY <1>8, SlotSetSize DEF UsedSlots
<1>13. TypeOK'
  BY <1>1, <1>2, <1>3, <1>4, <1>5, <1>12 DEF TypeOK, ringVars, spdkVars, Locations
<1> QED BY <1>9, <1>10, <1>11, <1>13 DEF SlotOwners

\* free_request_to_pool.
LEMMA FreeStep ==
  ASSUME IInv, NEW c \in Clients, Free(c)
  PROVE  IInv'
<1> USE DEF IInv
<1> DEFINE s == Head(held[c])
<1>1. /\ pc[c] = "release" /\ held[c] # <<>>
      /\ used'       = [used EXCEPT ![s] = FALSE]
      /\ used_count' = IF used[s] THEN used_count - 1 ELSE used_count
      /\ held'       = [held EXCEPT ![c] = Tail(@)]
      /\ UNCHANGED <<initialized, ringVars, reqVars, pc, op, rc, spdkVars,
                     served, handed>>
  BY DEF Free
<1>2. held \in [Clients -> Seq(Slots)] /\ used \in [Slots -> BOOLEAN]
  BY DEF TypeOK
<1>3. /\ s \in SlotsOf(held[c]) /\ s \in Slots
      /\ Tail(held[c]) \in Seq(Slots)
      /\ SlotsOf(Tail(held[c])) = SlotsOf(held[c]) \ {s}
      /\ \A i, j \in 1 .. Len(Tail(held[c])) : Tail(held[c])[i] = Tail(held[c])[j] => i = j
  <2>1. \A i, j \in 1 .. Len(held[c]) : held[c][i] = held[c][j] => i = j
    BY DEF SlotOwners, OneOwner
  <2> QED BY <1>1, <1>2, <2>1, SlotsOfTail, HeadTailProperties
<1>4. held'[c] = Tail(held[c]) /\ \A d \in Clients \ {c} : held'[d] = held[d]
  BY <1>1, <1>2
<1>5. used[s]
  BY <1>3 DEF SlotOwners, PoolMatchesOwners, Holds
<1>6. s \notin handed /\ \A d \in Clients : s \in SlotsOf(held[d]) => d = c
  BY <1>3 DEF SlotOwners, OneOwner, Holds
<1>7. UsedSlots' = UsedSlots \ {s} /\ s \in UsedSlots
  BY <1>1, <1>2, <1>3, <1>5 DEF UsedSlots
<1>8. used_count' = Cardinality(UsedSlots')
  <2>1. IsFiniteSet(UsedSlots)
    BY SlotSetSize DEF UsedSlots
  <2> QED BY <1>1, <1>5, <1>7, <2>1, FS_RemoveElement DEF SlotOwners, PoolMatchesOwners
<1>9. PoolMatchesOwners'
  <2>1. ASSUME NEW t \in Slots
        PROVE  used'[t] <=> (t \in handed' \/ \E d \in Clients : Holds(d, t)')
    <3>1. CASE t = s
      BY <3>1, <1>1, <1>2, <1>3, <1>4, <1>6 DEF Holds
    <3>2. CASE t # s
      <4>1. used'[t] = used[t] /\ handed' = handed
        BY <3>2, <1>1, <1>2
      <4>2. \A d \in Clients : Holds(d, t)' <=> Holds(d, t)
        BY <3>2, <1>3, <1>4 DEF Holds
      <4> QED BY <4>1, <4>2 DEF SlotOwners, PoolMatchesOwners
    <3> QED BY <3>1, <3>2
  <2> QED BY <2>1, <1>8 DEF PoolMatchesOwners
<1>10. OneOwner'
  <2>1. ASSUME NEW d \in Clients, NEW t \in Slots, Holds(d, t)'
        PROVE  t \notin handed' /\ \A e \in Clients : Holds(e, t)' => e = d
    <3>1. handed' = handed
      BY <1>1
    <3>2. \A e \in Clients : Holds(e, t)' => Holds(e, t)
      BY <1>3, <1>4 DEF Holds
    <3> QED BY <2>1, <3>1, <3>2 DEF SlotOwners, OneOwner
  <2>2. ASSUME NEW d \in Clients, NEW i \in 1 .. Len(held'[d]),
               NEW j \in 1 .. Len(held'[d]), held'[d][i] = held'[d][j]
        PROVE  i = j
    <3>1. CASE d # c
      BY <3>1, <2>2, <1>4 DEF SlotOwners, OneOwner
    <3>2. CASE d = c
      BY <3>2, <2>2, <1>3, <1>4
    <3> QED BY <3>1, <3>2
  <2> QED BY <2>1, <2>2 DEF OneOwner
<1>11. IdleHoldsNothing'
  BY <1>1, <1>4 DEF SlotOwners, IdleHoldsNothing
<1>12. used_count' \in 0 .. PoolSize
  BY <1>8, SlotSetSize DEF UsedSlots
<1>13. TypeOK'
  BY <1>1, <1>2, <1>3, <1>4, <1>12 DEF TypeOK, ringVars, reqVars, spdkVars
<1> QED BY <1>9, <1>10, <1>11, <1>13 DEF SlotOwners

\* The slots move from the call to the set nobody frees, or stay with it.
LEMMA SubmitStep ==
  ASSUME IInv, NEW c \in Clients, Submit(c)
  PROVE  IInv'
<1> USE DEF IInv
<1> DEFINE q == QueueOf[c]
           n == Len(held[c])
<1>1. /\ pc[c] = "submit" /\ HasRoom(q, n)
      /\ entries' = [entries EXCEPT ![q] = Stored(q, held[c])]
      /\ tail'    = [tail EXCEPT ![q] = CellAfter(@, n)]
      /\ size'    = [size EXCEPT ![q] = @ + n]
      /\ rc' = [rc EXCEPT ![c] = "ok"]
      /\ UNCHANGED <<initialized, head, poolVars, reqVars, op, spdkVars, served>>
  BY DEF Submit, Enqueue
<1>2. /\ q \in Queues /\ n \in Nat /\ held[c] \in Seq(Slots)
      /\ held \in [Clients -> Seq(Slots)] /\ pc \in [Clients -> Locations]
  BY QueueOfAssumption DEF TypeOK
<1>3. SlotsOf(held[c]) \subseteq Slots
  BY <1>2 DEF SlotsOf
<1>4. entries' \in [Queues -> [Cells -> Slots \cup {NoSlot}]]
  <2>1. Stored(q, held[c]) \in [Cells -> Slots \cup {NoSlot}]
    <3>1. ASSUME NEW i \in Cells,
                 \E k \in 1 .. n : i = CellAfter(tail[q], k - 1)
          PROVE  held[c][CHOOSE k \in 1 .. n : i = CellAfter(tail[q], k - 1)] \in Slots
      <4> DEFINE P(k) == i = CellAfter(tail[q], k - 1)
                 K    == CHOOSE k \in 1 .. n : P(k)
      <4>1. \E k \in 1 .. n : P(k)
        BY <3>1
      <4> HIDE DEF P
      <4>2. K \in 1 .. n
        BY <4>1, Zenon
      <4>3. \A k \in 1 .. Len(held[c]) : held[c][k] \in Slots
        BY <1>2, ElementOfSeq
      <4>4. held[c][K] \in Slots
        BY <4>2, <4>3, Zenon
      <4> QED BY <4>4 DEF P
    <3>2. \A i \in Cells : entries[q][i] \in Slots \cup {NoSlot}
      BY <1>2 DEF TypeOK
    <3> QED BY <3>1, <3>2 DEF Stored
  <2> QED BY <1>1, <2>1 DEF TypeOK
<1>5. tail' \in [Queues -> Cells] /\ size' \in [Queues -> 0 .. Capacity]
  <2>1. tail[q] \in Nat /\ size[q] \in 0 .. Capacity
    BY <1>2, CapacityAssumption DEF TypeOK, Cells
  <2>2. CellAfter(tail[q], n) \in Cells
    BY <2>1, <1>2, CellAfterType
  <2>3. size[q] + n \in 0 .. Capacity
    BY <2>1, <1>1, <1>2, CapacityAssumption DEF HasRoom
  <2> QED BY <2>2, <2>3, <1>1 DEF TypeOK
<1>6. CASE Waits(c)
  <2>1. pc' = [pc EXCEPT ![c] = "check"] /\ UNCHANGED <<held, handed>>
    BY <1>6 DEF Submit
  <2>2. SlotOwners'
    <3>1. UNCHANGED <<used, used_count>>
      BY <1>1 DEF poolVars
    <3> QED BY <2>1, <3>1, <1>2, OwnersFrame
  <2>3. TypeOK'
    BY <2>1, <1>1, <1>2, <1>4, <1>5
       DEF TypeOK, poolVars, reqVars, spdkVars, Locations, Codes
  <2> QED BY <2>2, <2>3
<1>7. CASE ~Waits(c)
  <2>1. /\ pc'      = [pc EXCEPT ![c] = "idle"]
        /\ held'    = [held EXCEPT ![c] = <<>>]
        /\ handed' = handed \cup SlotsOf(held[c])
    BY <1>7 DEF Submit, Forget
  <2>2. /\ held'[c] = <<>> /\ SlotsOf(held'[c]) = {}
        /\ \A d \in Clients \ {c} : held'[d] = held[d]
    BY <2>1, <1>2 DEF SlotsOf
  <2>3. UNCHANGED <<used, used_count>>
    BY <1>1 DEF poolVars
  <2>4. UsedSlots' = UsedSlots
    BY <2>3 DEF UsedSlots
  <2>5. PoolMatchesOwners'
    <3>1. ASSUME NEW s \in Slots
          PROVE  used'[s] <=> (s \in handed' \/ \E d \in Clients : Holds(d, s)')
      <4>1. s \in handed' <=> s \in handed \/ Holds(c, s)
        BY <2>1 DEF Holds
      <4>2. ~Holds(c, s)' /\ \A d \in Clients \ {c} : Holds(d, s)' <=> Holds(d, s)
        BY <2>2 DEF Holds
      <4> QED BY <4>1, <4>2, <2>3 DEF SlotOwners, PoolMatchesOwners
    <3> QED BY <3>1, <2>3, <2>4 DEF SlotOwners, PoolMatchesOwners
  <2>6. OneOwner'
    <3>1. ASSUME NEW d \in Clients, NEW s \in Slots, Holds(d, s)'
          PROVE  s \notin handed' /\ \A e \in Clients : Holds(e, s)' => e = d
      <4>1. d # c /\ Holds(d, s)
        BY <3>1, <2>2 DEF Holds
      <4>2. ~Holds(c, s) /\ s \notin handed
        BY <4>1 DEF SlotOwners, OneOwner
      <4>3. \A e \in Clients : Holds(e, s)' => Holds(e, s)
        BY <2>2 DEF Holds
      <4> QED BY <4>1, <4>2, <4>3, <2>1 DEF SlotOwners, OneOwner, Holds
    <3>2. \A d \in Clients : \A i, j \in 1 .. Len(held'[d]) :
            held'[d][i] = held'[d][j] => i = j
      BY <2>2 DEF SlotOwners, OneOwner
    <3> QED BY <3>1, <3>2 DEF OneOwner
  <2>7. IdleHoldsNothing'
    BY <2>1, <2>2, <1>2 DEF SlotOwners, IdleHoldsNothing
  <2>8. held' \in [Clients -> Seq(Slots)]
    BY <2>1, <1>2, EmptySeq
  <2>9. TypeOK'
    BY <2>1, <2>8, <1>1, <1>2, <1>3, <1>4, <1>5
       DEF TypeOK, poolVars, reqVars, spdkVars, Locations, Codes
  <2> QED BY <2>5, <2>6, <2>7, <2>9 DEF SlotOwners
<1> QED BY <1>6, <1>7

\* xbdev_queue_fini: every call is over, so no call holds a slot of the old pool.
LEMMA FiniStep ==
  ASSUME IInv, QueueFini
  PROVE  IInv'
<1> USE DEF IInv
<1>1. /\ \A c \in Clients : pc[c] = "idle"
      /\ initialized' = FALSE
      /\ entries' = EachRing(EmptyRing)
      /\ head' = EachRing(0) /\ tail' = EachRing(0) /\ size' = EachRing(0)
      /\ used' = EachSlot(FALSE) /\ used_count' = 0
      /\ sync_req' = EachSlot(FALSE) /\ done' = EachSlot(FALSE) /\ ctx' = EachSlot(FALSE)
      /\ served' = EachSlot(0) /\ handed' = {}
      /\ UNCHANGED <<pc, op, held, rc, spdk_pc, scan, cur>>
  BY DEF QueueFini, PoolDestroyed, RingsDestroyed, clientVars, spdkVars
<1>2. \A c \in Clients : held'[c] = <<>> /\ SlotsOf(held'[c]) = {}
  BY <1>1 DEF SlotOwners, IdleHoldsNothing, SlotsOf
<1>3. UsedSlots' = {}
  BY <1>1 DEF UsedSlots, EachSlot
<1>4. PoolMatchesOwners'
  BY <1>1, <1>2, <1>3, FS_EmptySet DEF PoolMatchesOwners, Holds, EachSlot
<1>5. OneOwner' /\ IdleHoldsNothing'
  BY <1>2 DEF OneOwner, IdleHoldsNothing, Holds
<1>6. 0 \in Cells /\ 0 \in 0 .. Capacity /\ 0 \in 0 .. PoolSize
  BY CapacityAssumption, PoolSizeAssumption DEF Cells
<1>7. entries' \in [Queues -> [Cells -> Slots \cup {NoSlot}]]
  <2>1. EmptyRing \in [Cells -> Slots \cup {NoSlot}]
    BY DEF EmptyRing
  <2> QED BY <2>1, <1>1 DEF EachRing
<1>8. /\ head' \in [Queues -> Cells] /\ tail' \in [Queues -> Cells]
      /\ size' \in [Queues -> 0 .. Capacity]
  BY <1>1, <1>6 DEF EachRing
<1>9. /\ used' \in [Slots -> BOOLEAN] /\ sync_req' \in [Slots -> BOOLEAN]
      /\ done' \in [Slots -> BOOLEAN] /\ ctx' \in [Slots -> BOOLEAN]
  BY <1>1 DEF EachSlot
<1>10. served' \in [Slots -> 0 .. 2]
  BY <1>1 DEF EachSlot
<1>11. TypeOK'
  BY <1>1, <1>6, <1>7, <1>8, <1>9, <1>10 DEF TypeOK
<1> QED BY <1>4, <1>5, <1>11 DEF SlotOwners

\* The steps of the calls that leave the pool and what they hold alone.
LEMMA QuietClientStep ==
  ASSUME IInv, NEW c \in Clients,
         \/ AllocateFails(c) \/ Prepare(c) \/ UnknownType(c) \/ SubmitFails(c)
         \/ CheckDone(c) \/ WaitLoop(c) \/ WaitTimesOut(c) \/ Return(c)
         \/ \E kind \in Ops : Call(c, kind)
  PROVE  IInv'
<1> USE DEF IInv, TypeOK, ringVars, poolVars, reqVars, spdkVars, Locations, Codes
<1>1. CASE AllocateFails(c)
  BY <1>1, OwnersFrame DEF AllocateFails
<1>2. CASE Prepare(c)
  BY <1>2, OwnersFrame DEF Prepare
<1>3. CASE SubmitFails(c)
  BY <1>3, OwnersFrame DEF SubmitFails
<1>4. CASE CheckDone(c)
  BY <1>4, OwnersFrame DEF CheckDone
<1>5. CASE WaitLoop(c)
  BY <1>5, OwnersFrame DEF WaitLoop
<1>6. CASE WaitTimesOut(c)
  BY <1>6, OwnersFrame DEF WaitTimesOut
<1>7. CASE Return(c)
  BY <1>7, OwnersFrame DEF Return, Kinds
<1>8. CASE \E kind \in Ops : Call(c, kind)
  BY <1>8, OwnersFrame, OpsAssumption DEF Call
<1>9. CASE UnknownType(c)
  BY <1>9, OwnersFrame DEF UnknownType
<1> QED BY <1>1, <1>2, <1>3, <1>4, <1>5, <1>6, <1>7, <1>8, <1>9

\* The steps of the SPDK thread, which never touches the pool.
LEMMA SpdkStepIInv ==
  ASSUME IInv, SpdkStep
  PROVE  IInv'
<1> USE DEF IInv, TypeOK, poolVars, reqVars, clientVars
<1>1. CASE ScanEmpty
  <2>1. scan' \in Queues
    BY <1>1, NumQueuesAssumption DEF ScanEmpty, Queues
  <2> QED BY <1>1, <2>1, OwnersFrame DEF ScanEmpty, ringVars
<1>2. CASE Take
  <2>1. head[scan] \in Cells /\ CellAfter(head[scan], 1) \in Cells
    <3>1. head[scan] \in Cells
      OBVIOUS
    <3>2. head[scan] \in Nat /\ 1 \in Nat
      BY <3>1, CapacityAssumption DEF Cells
    <3> QED BY <3>1, <3>2, CellAfterType
  <2>2. size[scan] - 1 \in 0 .. Capacity
    <3>1. size[scan] \in 0 .. Capacity
      OBVIOUS
    <3>2. size[scan] > 0
      BY <1>2 DEF Take
    <3> HIDE DEF TypeOK
    <3> QED BY <3>1, <3>2, CapacityAssumption
  <2>3. head' \in [Queues -> Cells] /\ size' \in [Queues -> 0 .. Capacity]
    BY <1>2, <2>1, <2>2 DEF Take
  <2>4. /\ entries' \in [Queues -> [Cells -> Slots \cup {NoSlot}]]
        /\ cur' \in Slots \cup {NoSlot}
    BY <1>2, <2>1 DEF Take
  <2>5. SlotOwners'
    BY <1>2, OwnersFrame DEF Take
  <2>6. spdk_pc' \in SpdkStates
    BY <1>2 DEF Take, SpdkStates
  <2>7. TypeOK'
    BY <1>2, <2>3, <2>4, <2>6 DEF Take
  <2> QED BY <2>5, <2>7
<1>3. CASE Dispatch
  <2>1. served' \in [Slots -> 0 .. 2]
    <3>1. served \in [Slots -> 0 .. 2]
      OBVIOUS
    <3>2. served' = [served EXCEPT ![cur] = IF @ = 0 THEN 1 ELSE 2]
      BY <1>3 DEF Dispatch
    <3>3. (IF served[cur] = 0 THEN 1 ELSE 2) \in 0 .. 2
      OBVIOUS
    <3> HIDE DEF TypeOK
    <3> QED BY <3>1, <3>2, <3>3
  <2>2. SlotOwners'
    BY <1>3, OwnersFrame DEF Dispatch
  <2> QED BY <1>3, <2>1, <2>2 DEF Dispatch, ringVars, SpdkStates
<1>4. CASE Complete
  <2>1. pc' \in [Clients -> Locations] /\ \A c \in Clients : pc'[c] = "idle" => pc[c] = "idle"
    BY <1>4 DEF Complete, AllAwake, Locations
  <2>2. 0 \in Queues
    BY NumQueuesAssumption DEF Queues
  <2>3. SlotOwners'
    BY <1>4, <2>1, OwnersFrame DEF Complete
  <2> QED BY <1>4, <2>1, <2>2, <2>3 DEF Complete, ringVars, SpdkStates
<1> QED BY <1>1, <1>2, <1>3, <1>4 DEF SpdkStep

\* Every step preserves the inductive invariant.
LEMMA NextIInv == IInv /\ [Next]_vars => IInv'
<1> SUFFICES ASSUME IInv, [Next]_vars PROVE IInv'
  OBVIOUS
<1>1. CASE QueueInit
  BY <1>1, OwnersFrame
     DEF QueueInit, IInv, TypeOK, ringVars, poolVars, reqVars, clientVars, spdkVars
<1>2. CASE QueueFini
  BY <1>2, FiniStep
<1>3. ASSUME NEW c \in Clients, ClientStep(c) \/ \E kind \in Ops : Call(c, kind)
      PROVE  IInv'
  BY <1>3, AllocateStep, FreeStep, SubmitStep, QuietClientStep DEF ClientStep
<1>4. CASE SpdkStep
  BY <1>4, SpdkStepIInv
<1>5. CASE UNCHANGED vars
  BY <1>5, OwnersFrame
     DEF vars, IInv, TypeOK, ringVars, poolVars, reqVars, clientVars, spdkVars
<1> QED BY <1>1, <1>2, <1>3, <1>4, <1>5 DEF Next

\* Every variable of the request system always has a value of its type: rings
\* never hold more than their capacity, indices stay inside them, used_count
\* between 0 and the size of the pool.
THEOREM TypeCorrect == Spec => []TypeOK
<1>1. IInv => TypeOK
  BY DEF IInv
<1> QED BY <1>1, InitIInv, NextIInv, PTL DEF Spec
=============================================================================
