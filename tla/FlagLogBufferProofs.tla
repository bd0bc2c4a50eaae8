------------------------ MODULE FlagLogBufferProofs ------------------------
(***************************************************************************)
(* Proofs about FlagLogBuffer, for every value of its constants.           *)
(***************************************************************************)
EXTENDS FlagLogBuffer, FoldProofs

-----------------------------------------------------------------------------
(* Lemmas about the operators the buffer is built from.                    *)

(* saturating_sub always yields a natural number no larger than a.         *)
LEMMA SatSubType ==
  ASSUME NEW a \in Nat, NEW b
  PROVE  SatSub(a, b) \in 0 .. a
BY DEF SatSub

(* What take_chunk_before removes: a prefix of the buffer that ends before *)
(* the boundary, and never nothing if the oldest record is before it.      *)
LEMMA ChunkBeforeProperties ==
  ASSUME NEW ls \in Seq(Entry), NEW bound \in Nat
  PROVE  /\ ChunkBefore(ls, bound) \in 0 .. Len(ls)
         /\ ChunkBefore(ls, bound) > 0 => ls[ChunkBefore(ls, bound)].seq < bound
         /\ Len(ls) > 0 /\ ls[1].seq < bound => ChunkBefore(ls, bound) > 0
<1> DEFINE S == {n \in 0 .. Len(ls) : FitsChunk(ls, n, bound)}
<1>1. Len(ls) \in Nat /\ S \in SUBSET (0 .. Len(ls))
  OBVIOUS
<1>2. 0 \in S
  BY <1>1 DEF FitsChunk
<1>3. Max(S) \in S /\ \A y \in S : Max(S) >= y
  <2> HIDE DEF S
  <2> QED BY <1>1, <1>2, BoundedMax
<1>4. ChunkBefore(ls, bound) = Max(S)
  BY DEF ChunkBefore
<1>5. Len(ls) > 0 /\ ls[1].seq < bound => 1 \in S
  BY <1>1 DEF FitsChunk
<1>6. Max(S) > 0 => ls[Max(S)].seq < bound
  BY <1>3 DEF FitsChunk
<1>7. QED
  <2> HIDE DEF S
  <2>1. Max(S) \in 0 .. Len(ls)
    BY <1>1, <1>3
  <2> QED BY <1>1, <1>3, <1>4, <1>5, <1>6, <2>1

LEMMA ChunkProperties ==
  ASSUME NEW ls \in Seq(Entry)
  PROVE  Chunk(ls) \in 0 .. Len(ls) /\ (Len(ls) > 0 => Chunk(ls) > 0)
<1>1. MaxSeq \in Nat
  BY BufferAssumption
<1>2. Len(ls) > 0 => ls[1].seq < MaxSeq
  <2>1. Len(ls) > 0 => ls[1] \in Entry
    OBVIOUS
  <2>2. QED
    BY <2>1, <1>1 DEF Entry, Seqs
<1>3. QED
  BY <1>1, <1>2, ChunkBeforeProperties DEF Chunk

(* Draining n entries leaves the rest, in order.                           *)
LEMMA DropProperties ==
  ASSUME NEW ls \in Seq(Entry), NEW n \in 0 .. Len(ls)
  PROVE  /\ Drop(ls, n) \in Seq(Entry)
         /\ Len(Drop(ls, n)) = Len(ls) - n
         /\ \A k \in 1 .. Len(ls) - n : Drop(ls, n)[k] = ls[k + n]
<1>1. \A i \in n + 1 .. Len(ls) : ls[i] \in Entry
  OBVIOUS
<1>2. QED
  BY <1>1, SubSeqProperties DEF Drop

LEMMA RecordsProperties ==
  ASSUME NEW ls \in Seq(Entry), NEW n \in 0 .. Len(ls)
  PROVE  /\ Records(ls, n) \in SUBSET Record
         /\ SeqsOf(Records(ls, n)) \in SUBSET Seqs
         /\ n > 0 => Records(ls, n) # {}
         /\ \A s \in SeqsOf(Records(ls, n)) : \E k \in 1 .. n : s = ls[k].seq
<1>1. \A k \in 1 .. n : ls[k] \in Entry
  OBVIOUS
<1>2. Records(ls, n) \in SUBSET Record
  BY <1>1 DEF Records, Entry, Record
<1>3. n > 0 => Records(ls, n) # {}
  <2>1. n > 0 => [seq |-> ls[1].seq, len |-> ls[1].len] \in Records(ls, n)
    BY DEF Records
  <2>2. QED
    BY <2>1
<1>4. \A s \in SeqsOf(Records(ls, n)) : \E k \in 1 .. n : s = ls[k].seq
  BY DEF SeqsOf, Records
<1>5. SeqsOf(Records(ls, n)) \in SUBSET Seqs
  BY <1>1, <1>4 DEF Entry
<1>6. QED
  BY <1>2, <1>3, <1>4, <1>5

LEMMA BytesAfterType ==
  ASSUME NEW ls, NEW b \in Nat, NEW n
  PROVE  BytesAfter(ls, b, n) \in Nat
BY SatSubType DEF BytesAfter

LEMMA SeqsOfType ==
  ASSUME NEW rs \in SUBSET Record
  PROVE  SeqsOf(rs) \in SUBSET Seqs
BY DEF SeqsOf, Record

-----------------------------------------------------------------------------
(* The inductive invariant: the safety properties, and that the futures    *)
(* which hold no slot carry no records.                                    *)
IInv ==
  /\ TypeOK
  /\ SlotAccounting
  /\ OneWaiter
  /\ NewestSuffix
  /\ RecordsBounded
  /\ DrainsOnlyItsOwn
  /\ QuietCarriesNothing

Slots == {i \in Invs : HoldsSlot(i)}

LEMMA SlotsFinite == IsFiniteSet(Slots) /\ Cardinality(Slots) \in Nat
<1>1. Slots \in SUBSET Invs
  BY DEF Slots
<1>2. QED
  BY <1>1, BufferAssumption, FS_Subset, FS_CardinalityType

(* Slot accounting survives a step that leaves every guard where it is,    *)
(* one that acquires a guard below the hard cap, one that drops a guard.   *)
LEMMA SlotsKept ==
  ASSUME SlotAccounting, in_flight' = in_flight,
         \A j \in Invs : HoldsSlot(j)' <=> HoldsSlot(j)
  PROVE  SlotAccounting'
<1>1. Slots' = Slots
  BY DEF Slots
<1>2. QED
  BY <1>1 DEF SlotAccounting, Slots

LEMMA SlotAcquired ==
  ASSUME SlotAccounting, NEW i \in Invs, ~HoldsSlot(i), HoldsSlot(i)',
         \A j \in Invs \ {i} : HoldsSlot(j)' <=> HoldsSlot(j),
         in_flight' = in_flight + 1, in_flight < HARD_IN_FLIGHT
  PROVE  SlotAccounting'
<1>1. Slots' = Slots \cup {i} /\ i \notin Slots
  BY DEF Slots
<1>2. Cardinality(Slots') = Cardinality(Slots) + 1
  BY <1>1, SlotsFinite, FS_AddElement
<1>3. in_flight = Cardinality(Slots)
  BY DEF SlotAccounting, Slots
<1>4. in_flight' = Cardinality(Slots')
  BY <1>2, <1>3
<1>5. in_flight' <= HARD_IN_FLIGHT
  BY <1>3, SlotsFinite, BufferAssumption
<1>6. QED
  BY <1>4, <1>5 DEF SlotAccounting, Slots

LEMMA SlotReleased ==
  ASSUME SlotAccounting, NEW i \in Invs, HoldsSlot(i), ~HoldsSlot(i)',
         \A j \in Invs \ {i} : HoldsSlot(j)' <=> HoldsSlot(j),
         in_flight' = SatSub(in_flight, 1)
  PROVE  SlotAccounting'
<1>1. Slots' = Slots \ {i} /\ i \in Slots
  BY DEF Slots
<1>2. Cardinality(Slots') = Cardinality(Slots) - 1
  BY <1>1, SlotsFinite, FS_RemoveElement
<1>3. in_flight = Cardinality(Slots) /\ in_flight <= HARD_IN_FLIGHT
  BY DEF SlotAccounting, Slots
<1>4. Cardinality(Slots) \in Nat \ {0}
  BY <1>1, SlotsFinite, FS_EmptySet
<1>5. in_flight' = in_flight - 1
  BY <1>3, <1>4 DEF SatSub
<1>6. QED
  BY <1>2, <1>3, <1>4, <1>5, BufferAssumption DEF SlotAccounting, Slots

(* A drain pass that follows a delivery drops one guard and may take       *)
(* another in the same step.                                               *)
LEMMA SlotHeld ==
  ASSUME SlotAccounting, NEW i \in Invs, HoldsSlot(i)
  PROVE  in_flight \in Nat \ {0} /\ SatSub(in_flight, 1) + 1 = in_flight
<1>1. i \in Slots
  BY DEF Slots
<1>2. in_flight = Cardinality(Slots)
  BY DEF SlotAccounting, Slots
<1>3. in_flight \in Nat \ {0}
  BY <1>1, <1>2, SlotsFinite, FS_EmptySet
<1>4. QED
  BY <1>3 DEF SatSub

(* Removing a prefix keeps the buffer the newest part of what arrived.     *)
Newest(ls, m) == \A k \in DOMAIN ls : ls[k].seq = m - Len(ls) + k - 1

LEMMA NewestAfterDrop ==
  ASSUME NEW ls \in Seq(Entry), NEW n \in 0 .. Len(ls), NEW m \in Nat,
         Newest(ls, m)
  PROVE  Newest(Drop(ls, n), m)
<1>1. /\ Drop(ls, n) \in Seq(Entry)
      /\ Len(Drop(ls, n)) = Len(ls) - n
      /\ \A k \in 1 .. Len(ls) - n : Drop(ls, n)[k] = ls[k + n]
  BY DropProperties
<1>2. SUFFICES ASSUME NEW k \in DOMAIN Drop(ls, n)
               PROVE  Drop(ls, n)[k].seq = m - Len(Drop(ls, n)) + k - 1
  BY DEF Newest
<1>3. k \in 1 .. Len(ls) - n /\ k + n \in DOMAIN ls
  BY <1>1
<1>4. ls[k + n].seq = m - Len(ls) + (k + n) - 1
  BY <1>3 DEF Newest
<1>5. Drop(ls, n)[k].seq = ls[k + n].seq
  BY <1>1, <1>3
<1>6. Len(ls) \in Nat /\ n \in Nat /\ k \in Nat
  BY <1>3
<1>7. m - Len(ls) + (k + n) - 1 = m - Len(Drop(ls, n)) + k - 1
  BY <1>1, <1>6
<1>8. QED
  BY <1>4, <1>5, <1>7

(* Everything the invariant needs to know of removing a nonempty chunk.    *)
LEMMA TakeProperties ==
  ASSUME NEW ls \in Seq(Entry), NEW n \in 1 .. Len(ls), NEW b \in Nat,
         NEW m \in Nat, Newest(ls, m)
  PROVE  /\ Drop(ls, n) \in Seq(Entry) /\ Len(Drop(ls, n)) = Len(ls) - n
         /\ BytesAfter(ls, b, n) \in Nat
         /\ Records(ls, n) \in SUBSET Record /\ Records(ls, n) # {}
         /\ SeqsOf(Records(ls, n)) \in SUBSET Seqs
         /\ Newest(Drop(ls, n), m)
<1>1. n \in 0 .. Len(ls) /\ n > 0
  OBVIOUS
<1>2. Drop(ls, n) \in Seq(Entry) /\ Len(Drop(ls, n)) = Len(ls) - n
  BY <1>1, DropProperties
<1>3. Records(ls, n) \in SUBSET Record /\ Records(ls, n) # {}
      /\ SeqsOf(Records(ls, n)) \in SUBSET Seqs
  BY <1>1, RecordsProperties
<1>4. Newest(Drop(ls, n), m)
  BY <1>1, NewestAfterDrop
<1>5. QED
  BY <1>2, <1>3, <1>4, BytesAfterType

LEMMA InitInv == Init => IInv
<1> SUFFICES ASSUME Init PROVE IInv
  OBVIOUS
<1>1. TypeOK
  <2>1. logs \in Seq(Entry) /\ bytes \in Nat /\ next_seq \in 0 .. MaxSeq
        /\ in_flight \in Nat
    BY BufferAssumption DEF Init
  <2>0. waiter_active \in BOOLEAN
    BY DEF Init
  <2>2. pc \in [Invs -> PCs] /\ batch \in [Invs -> SUBSET Record]
        /\ settled \in SUBSET Seqs
    BY DEF Init, PCs
  <2>3. left \in [Invs -> 0 .. BUDGET] /\ wake \in [Invs -> 0 .. POLL]
        /\ boundary \in [Invs -> 0 .. MaxSeq]
    BY BufferAssumption DEF Init
  <2>4. QED
    BY <2>0, <2>1, <2>2, <2>3 DEF TypeOK
<1>2. SlotAccounting
  <2>1. Slots = {}
    BY DEF Init, Slots, HoldsSlot, Delivering
  <2>2. QED
    BY <2>1, FS_EmptySet, BufferAssumption DEF Init, SlotAccounting, Slots
<1>3. OneWaiter /\ DrainsOnlyItsOwn /\ QuietCarriesNothing
  BY DEF Init, OneWaiter, WaiterRole, DrainsOnlyItsOwn, QuietCarriesNothing
<1>4. NewestSuffix /\ RecordsBounded
  BY BufferAssumption DEF Init, NewestSuffix, RecordsBounded
<1>5. QED
  BY <1>1, <1>2, <1>3, <1>4 DEF IInv

-----------------------------------------------------------------------------
(* One lemma per action: the invariant survives it.                        *)

(* Admission: a delivery is only ever started below the hard cap.          *)
LEMMA DecideProperties ==
  ASSUME NEW c \in BOOLEAN, NEW n \in Nat
  PROVE  /\ Decide(c, n) \in {"Hold", "Shed", "Deliver"}
         /\ Decide(c, n) = "Deliver" => n < HARD_IN_FLIGHT
         /\ Decide(c, n) = "Hold" => ~c
BY BufferAssumption DEF Decide

LEMMA OfferInv ==
  ASSUME IInv, NEW i \in Invs, NEW l \in Lens, Offer(i, l)
  PROVE  IInv'
<1> DEFINE e  == [seq |-> next_seq, len |-> l, age |-> 0]
           ls == Append(logs, e)
           b  == bytes + l
           n  == Chunk(ls)
           d  == IF SizeDue(ls, b) THEN Decide(AtCeiling(ls, b), in_flight) ELSE "Hold"
<1>0. TypeOK /\ SlotAccounting /\ OneWaiter /\ NewestSuffix /\ RecordsBounded
      /\ DrainsOnlyItsOwn /\ QuietCarriesNothing
  BY DEF IInv
<1>1. e \in Entry /\ next_seq' \in 0 .. MaxSeq /\ next_seq' = next_seq + 1
      /\ next_seq \in Nat
  BY <1>0, BufferAssumption DEF TypeOK, Entry, Seqs, Offer
<1>2. /\ ls \in Seq(Entry) /\ Len(ls) = Len(logs) + 1 /\ Len(logs) \in Nat
      /\ \A k \in 1 .. Len(logs) : ls[k] = logs[k]
      /\ ls[Len(logs) + 1] = e
  BY <1>0, <1>1, AppendProperties DEF TypeOK
<1>3. b \in Nat
  BY <1>0, BufferAssumption DEF TypeOK
<1>4. Newest(ls, next_seq')
  <2> SUFFICES ASSUME NEW k \in DOMAIN ls
               PROVE  ls[k].seq = next_seq' - Len(ls) + k - 1
    BY DEF Newest
  <2>1. CASE k = Len(logs) + 1
    <3>1. ls[k].seq = next_seq
      BY <2>1, <1>2
    <3>2. QED
      BY <3>1, <2>1, <1>1, <1>2
  <2>2. CASE k # Len(logs) + 1
    <3>1. k \in 1 .. Len(logs) /\ k \in DOMAIN logs
      BY <2>2, <1>2, <1>0 DEF TypeOK
    <3>2. logs[k].seq = next_seq - Len(logs) + k - 1
      BY <3>1, <1>0 DEF NewestSuffix
    <3>3. ls[k].seq = logs[k].seq
      BY <3>1, <1>2
    <3>4. QED
      BY <3>1, <3>2, <3>3, <1>1, <1>2
  <2>3. QED
    BY <2>1, <2>2
<1>5. n \in 1 .. Len(ls)
  <2> HIDE DEF ls
  <2>1. Chunk(ls) \in 0 .. Len(ls) /\ (Len(ls) > 0 => Chunk(ls) > 0)
    BY <1>2, ChunkProperties
  <2>2. QED
    BY <2>1, <1>2
<1>6. pc[i] = "idle" /\ pc' = [pc EXCEPT ![i] = "queued"]
      /\ UNCHANGED <<waiter_active, left, wake, boundary>>
  BY DEF Offer
<1>7. \/ d = "Hold" /\ logs' = ls /\ bytes' = b
         /\ UNCHANGED <<in_flight, batch, settled>>
      \/ d = "Shed" /\ logs' = Drop(ls, n) /\ bytes' = BytesAfter(ls, b, n)
         /\ settled' = settled \cup SeqsOf(Records(ls, n))
         /\ UNCHANGED <<in_flight, batch>>
      \/ d = "Deliver" /\ in_flight' = in_flight + 1
         /\ logs' = Drop(ls, n) /\ bytes' = BytesAfter(ls, b, n)
         /\ batch' = [batch EXCEPT ![i] = Records(ls, n)]
         /\ UNCHANGED settled
  BY DEF Offer
<1>8. /\ Drop(ls, n) \in Seq(Entry) /\ Len(Drop(ls, n)) = Len(ls) - n
      /\ BytesAfter(ls, b, n) \in Nat
      /\ Records(ls, n) \in SUBSET Record /\ Records(ls, n) # {}
      /\ SeqsOf(Records(ls, n)) \in SUBSET Seqs
      /\ Newest(Drop(ls, n), next_seq')
  <2>1. next_seq' \in Nat
    BY <1>1
  <2> HIDE DEF ls, b, n
  <2>2. QED
    BY <1>2, <1>3, <1>4, <1>5, <2>1, TakeProperties
<1>9. /\ d = "Deliver" => in_flight < HARD_IN_FLIGHT
      /\ d = "Hold" => Len(ls) < MAX_BUFFER_RECORDS
  <2>1. AtCeiling(ls, b) \in BOOLEAN
    BY DEF AtCeiling
  <2>2. in_flight \in Nat
    BY <1>0 DEF TypeOK
  <2>3. ~SizeDue(ls, b) => Len(ls) < MAX_BUFFER_RECORDS
    BY <1>2, BufferAssumption DEF SizeDue
  <2>4. ~AtCeiling(ls, b) => Len(ls) < MAX_BUFFER_RECORDS
    BY <1>2, BufferAssumption DEF AtCeiling
  <2>5. QED
    BY <2>1, <2>2, <2>3, <2>4, DecideProperties
<1> HIDE DEF e, ls, b, n, d
<1>10. batch[i] = {} /\ ~HoldsSlot(i)
  BY <1>0, <1>6 DEF QuietCarriesNothing, HoldsSlot, Delivering
<1>11. TypeOK'
  <2>0. batch' \in [Invs -> SUBSET Record]
    BY <1>0, <1>7, <1>8 DEF TypeOK
  <2>1. logs' \in Seq(Entry) /\ bytes' \in Nat /\ in_flight' \in Nat
        /\ settled' \in SUBSET Seqs
    BY <1>0, <1>2, <1>3, <1>7, <1>8 DEF TypeOK
  <2>2. pc' \in [Invs -> PCs]
    BY <1>0, <1>6 DEF TypeOK, PCs
  <2>3. waiter_active' \in BOOLEAN
    BY <1>0, <1>6 DEF TypeOK
  <2>4. QED
    BY <1>0, <1>1, <1>6, <2>0, <2>1, <2>2, <2>3 DEF TypeOK
<1>12. SlotAccounting'
  <2>1. CASE d = "Deliver"
    <3>1. HoldsSlot(i)'
      BY <1>0, <1>7, <1>8, <2>1 DEF HoldsSlot, TypeOK
    <3>2. \A j \in Invs \ {i} : HoldsSlot(j)' <=> HoldsSlot(j)
      BY <1>0, <1>6, <1>7, <2>1 DEF HoldsSlot, TypeOK
    <3>3. in_flight' = in_flight + 1 /\ in_flight < HARD_IN_FLIGHT
      BY <1>7, <1>9, <2>1
    <3>4. QED
      BY <1>0, <1>10, <3>1, <3>2, <3>3, SlotAcquired
  <2>2. CASE d # "Deliver"
    <3>1. in_flight' = in_flight /\ batch' = batch
      BY <1>7, <2>2
    <3>2. \A j \in Invs : HoldsSlot(j)' <=> HoldsSlot(j)
      BY <1>0, <1>6, <3>1 DEF HoldsSlot, TypeOK, Delivering
    <3>3. QED
      BY <1>0, <3>1, <3>2, SlotsKept
  <2>3. QED
    BY <2>1, <2>2
<1>13. OneWaiter'
  <2>1. \A j \in Invs : pc'[j] \in WaiterRole <=> pc[j] \in WaiterRole
    BY <1>0, <1>6 DEF TypeOK, WaiterRole
  <2>2. QED
    BY <1>0, <1>6, <2>1, Zenon DEF OneWaiter
<1>14. NewestSuffix'
  <2>1. Newest(logs', next_seq')
    BY <1>4, <1>7, <1>8
  <2>2. QED
    BY <2>1 DEF Newest, NewestSuffix
<1>15. RecordsBounded'
  <2>1. Len(logs) < MAX_BUFFER_RECORDS
    BY <1>0 DEF RecordsBounded
  <2>2. Len(logs') < MAX_BUFFER_RECORDS
    BY <1>2, <1>5, <1>7, <1>8, <1>9, <2>1, BufferAssumption
  <2>3. QED
    BY <2>2 DEF RecordsBounded
<1>16. DrainsOnlyItsOwn'
  <2> SUFFICES ASSUME NEW j \in Invs, pc'[j] = "draining"
               PROVE  \A s \in SeqsOf(batch'[j]) : s < boundary'[j]
    BY DEF DrainsOnlyItsOwn
  <2>1. j # i /\ pc[j] = "draining"
    BY <1>0, <1>6 DEF TypeOK
  <2>2. batch'[j] = batch[j] /\ boundary'[j] = boundary[j]
    BY <1>0, <1>6, <1>7, <2>1 DEF TypeOK
  <2>3. QED
    BY <1>0, <2>1, <2>2 DEF DrainsOnlyItsOwn
<1>17. QuietCarriesNothing'
  BY <1>0, <1>6, <1>7 DEF QuietCarriesNothing, TypeOK
<1>18. QED
  BY <1>11, <1>12, <1>13, <1>14, <1>15, <1>16, <1>17 DEF IInv

-----------------------------------------------------------------------------
(* How the conjuncts of the invariant survive the steps of one invocation  *)
(* that leave the other invocations alone.                                 *)

LEMMA OneWaiterKept ==
  ASSUME OneWaiter, waiter_active' = waiter_active,
         \A j \in Invs : pc'[j] \in WaiterRole <=> pc[j] \in WaiterRole
  PROVE  OneWaiter'
BY Zenon DEF OneWaiter

LEMMA WaiterClaimed ==
  ASSUME OneWaiter, pc \in [Invs -> PCs], NEW i \in Invs, ~waiter_active,
         NEW r \in WaiterRole, pc' = [pc EXCEPT ![i] = r], waiter_active' = TRUE
  PROVE  OneWaiter'
<1>1. \A j \in Invs : pc[j] \notin WaiterRole
  BY Zenon DEF OneWaiter
<1>2. pc'[i] \in WaiterRole /\ \A j \in Invs \ {i} : pc'[j] \notin WaiterRole
  BY <1>1
<1>3. QED
  BY <1>2, Zenon DEF OneWaiter

LEMMA WaiterReleased ==
  ASSUME OneWaiter, pc \in [Invs -> PCs], NEW i \in Invs, pc[i] \in WaiterRole,
         NEW r, r \notin WaiterRole, pc' = [pc EXCEPT ![i] = r],
         waiter_active' = FALSE
  PROVE  OneWaiter'
<1>1. \A j \in Invs \ {i} : pc[j] \notin WaiterRole
  BY Zenon DEF OneWaiter
<1>2. \A j \in Invs : pc'[j] \notin WaiterRole
  BY <1>1
<1>3. QED
  BY <1>2, Zenon DEF OneWaiter

LEMMA LogsKept ==
  ASSUME NewestSuffix, RecordsBounded, UNCHANGED <<logs, next_seq>>
  PROVE  NewestSuffix' /\ RecordsBounded'
BY DEF NewestSuffix, RecordsBounded

LEMMA LogsTaken ==
  ASSUME TypeOK, NewestSuffix, RecordsBounded, NEW n \in 1 .. Len(logs),
         logs' = Drop(logs, n), bytes' = BytesAfter(logs, bytes, n),
         next_seq' = next_seq
  PROVE  /\ NewestSuffix' /\ RecordsBounded'
         /\ logs' \in Seq(Entry) /\ bytes' \in Nat
         /\ Records(logs, n) \in SUBSET Record /\ Records(logs, n) # {}
         /\ SeqsOf(Records(logs, n)) \in SUBSET Seqs
<1>1. logs \in Seq(Entry) /\ bytes \in Nat /\ next_seq \in Nat /\ Len(logs) \in Nat
  BY BufferAssumption DEF TypeOK
<1>2. Newest(logs, next_seq)
  BY DEF Newest, NewestSuffix
<1>3. /\ Drop(logs, n) \in Seq(Entry) /\ Len(Drop(logs, n)) = Len(logs) - n
      /\ BytesAfter(logs, bytes, n) \in Nat
      /\ Records(logs, n) \in SUBSET Record /\ Records(logs, n) # {}
      /\ SeqsOf(Records(logs, n)) \in SUBSET Seqs
      /\ Newest(Drop(logs, n), next_seq)
  BY <1>1, <1>2, TakeProperties
<1>4. NewestSuffix'
  BY <1>3 DEF Newest, NewestSuffix
<1>5. Len(logs') < MAX_BUFFER_RECORDS
  BY <1>1, <1>3, BufferAssumption DEF RecordsBounded
<1>6. QED
  BY <1>3, <1>4, <1>5 DEF RecordsBounded

LEMMA DrainsKept ==
  ASSUME DrainsOnlyItsOwn, pc \in [Invs -> PCs], NEW i \in Invs, NEW r,
         r # "draining", pc' = [pc EXCEPT ![i] = r],
         \A j \in Invs \ {i} : batch'[j] = batch[j] /\ boundary'[j] = boundary[j]
  PROVE  DrainsOnlyItsOwn'
<1> SUFFICES ASSUME NEW j \in Invs, pc'[j] = "draining"
             PROVE  \A s \in SeqsOf(batch'[j]) : s < boundary'[j]
  BY DEF DrainsOnlyItsOwn
<1>1. j # i /\ pc[j] = "draining"
  OBVIOUS
<1>2. QED
  BY <1>1 DEF DrainsOnlyItsOwn

LEMMA QuietKept ==
  ASSUME QuietCarriesNothing, pc \in [Invs -> PCs], NEW i \in Invs, NEW r,
         pc' = [pc EXCEPT ![i] = r],
         r \in {"idle", "sleeping"} => batch'[i] = {},
         \A j \in Invs \ {i} : batch'[j] = batch[j]
  PROVE  QuietCarriesNothing'
BY DEF QuietCarriesNothing

-----------------------------------------------------------------------------
LEMMA OfferNothingInv ==
  ASSUME IInv, NEW i \in Invs, OfferNothing(i)
  PROVE  IInv'
<1>0. TypeOK /\ SlotAccounting /\ OneWaiter /\ NewestSuffix /\ RecordsBounded
      /\ DrainsOnlyItsOwn /\ QuietCarriesNothing
  BY DEF IInv
<1>1. pc[i] = "idle" /\ pc' = [pc EXCEPT ![i] = "queued"] /\ pc \in [Invs -> PCs]
      /\ UNCHANGED <<logs, bytes, next_seq, waiter_active, in_flight, batch,
                     left, wake, boundary, settled>>
  BY <1>0 DEF OfferNothing, TypeOK
<1>2. TypeOK'
  <2>1. pc' \in [Invs -> PCs]
    BY <1>1 DEF PCs
  <2>2. QED
    BY <1>0, <1>1, <2>1 DEF TypeOK
<1>3. \A j \in Invs : HoldsSlot(j)' <=> HoldsSlot(j)
  BY <1>1 DEF HoldsSlot, Delivering
<1>4. SlotAccounting'
  BY <1>0, <1>1, <1>3, SlotsKept
<1>5. \A j \in Invs : pc'[j] \in WaiterRole <=> pc[j] \in WaiterRole
  BY <1>1 DEF WaiterRole
<1>6. OneWaiter'
  BY <1>0, <1>1, <1>5, OneWaiterKept
<1>7. NewestSuffix' /\ RecordsBounded'
  BY <1>0, <1>1, LogsKept
<1>8. DrainsOnlyItsOwn'
  BY <1>0, <1>1, DrainsKept
<1>9. QuietCarriesNothing'
  BY <1>0, <1>1, QuietKept
<1>10. QED
  BY <1>2, <1>4, <1>6, <1>7, <1>8, <1>9 DEF IInv

(* Entering tick: the role is claimed only when it is vacant.              *)
LEMMA EnterTickInv ==
  ASSUME IInv, NEW i \in Invs, NEW budget \in 0 .. BUDGET,
         pc[i] \notin WaiterRole, batch[i] = {}, EnterTick(i, budget)
  PROVE  /\ OneWaiter' /\ waiter_active' \in BOOLEAN
         /\ pc' \in [Invs -> PCs]
         /\ left' \in [Invs -> 0 .. BUDGET] /\ wake' \in [Invs -> 0 .. POLL]
         /\ \E r \in {"idle", "sleeping"} : pc' = [pc EXCEPT ![i] = r]
<1>0. TypeOK /\ OneWaiter
  BY DEF IInv
<1>1. /\ pc \in [Invs -> PCs] /\ left \in [Invs -> 0 .. BUDGET]
      /\ wake \in [Invs -> 0 .. POLL] /\ waiter_active \in BOOLEAN
      /\ BUDGET \in Nat /\ POLL \in Nat
  BY <1>0, BufferAssumption DEF TypeOK
<1>2. CASE logs # <<>> /\ ~waiter_active
  <2>1. waiter_active' = TRUE /\ pc' = [pc EXCEPT ![i] = "sleeping"]
        /\ wake' = [wake EXCEPT ![i] = POLL] /\ left' = [left EXCEPT ![i] = budget]
    BY <1>2, Zenon DEF EnterTick
  <2>2. "sleeping" \in WaiterRole
    BY DEF WaiterRole
  <2>3. OneWaiter'
    BY <1>0, <1>1, <1>2, <2>1, <2>2, WaiterClaimed
  <2>4. pc' \in [Invs -> PCs]
    BY <1>1, <2>1 DEF PCs
  <2>5. left' \in [Invs -> 0 .. BUDGET] /\ wake' \in [Invs -> 0 .. POLL]
    BY <1>1, <2>1
  <2>6. QED
    BY <2>1, <2>3, <2>4, <2>5
<1>3. CASE logs = <<>> \/ waiter_active
  <2>1. waiter_active' = waiter_active /\ pc' = [pc EXCEPT ![i] = "idle"]
        /\ wake' = wake /\ left' = [left EXCEPT ![i] = 0]
    BY <1>3, Zenon DEF EnterTick
  <2>2. \A j \in Invs : pc'[j] \in WaiterRole <=> pc[j] \in WaiterRole
    BY <1>1, <2>1 DEF WaiterRole
  <2>3. OneWaiter'
    BY <1>0, <2>1, <2>2, OneWaiterKept
  <2>4. pc' \in [Invs -> PCs]
    BY <1>1, <2>1 DEF PCs
  <2>5. left' \in [Invs -> 0 .. BUDGET] /\ wake' \in [Invs -> 0 .. POLL]
    BY <1>1, <2>1
  <2>6. waiter_active' \in BOOLEAN
    BY <1>1, <2>1
  <2>7. QED
    BY <2>1, <2>3, <2>4, <2>5, <2>6
<1>4. QED
  BY <1>1, <1>2, <1>3, Zenon

LEMMA BeginInv ==
  ASSUME IInv, NEW i \in Invs, Begin(i)
  PROVE  IInv'
<1>0. TypeOK /\ SlotAccounting /\ OneWaiter /\ NewestSuffix /\ RecordsBounded
      /\ DrainsOnlyItsOwn /\ QuietCarriesNothing
  BY DEF IInv
<1>1. pc[i] = "queued" /\ pc \in [Invs -> PCs] /\ BUDGET \in 0 .. BUDGET
      /\ UNCHANGED <<logs, bytes, next_seq, in_flight, batch, boundary, settled>>
  BY <1>0, BufferAssumption DEF Begin, TypeOK
<1>2. \E r \in {"idle", "sleeping", "sending"} :
        /\ pc' = [pc EXCEPT ![i] = r]
        /\ r = "sending" <=> batch[i] # {}
        /\ OneWaiter' /\ waiter_active' \in BOOLEAN /\ pc' \in [Invs -> PCs]
        /\ left' \in [Invs -> 0 .. BUDGET] /\ wake' \in [Invs -> 0 .. POLL]
  <2>1. CASE batch[i] # {}
    <3>1. pc' = [pc EXCEPT ![i] = "sending"] /\ left' = [left EXCEPT ![i] = BUDGET]
          /\ waiter_active' = waiter_active /\ wake' = wake
      BY <2>1 DEF Begin
    <3>2. \A j \in Invs : pc'[j] \in WaiterRole <=> pc[j] \in WaiterRole
      BY <1>1, <3>1 DEF WaiterRole
    <3>3. OneWaiter'
      BY <1>0, <3>1, <3>2, OneWaiterKept
    <3>4. pc' \in [Invs -> PCs]
      BY <1>1, <3>1 DEF PCs, Delivering
    <3>5. left' \in [Invs -> 0 .. BUDGET] /\ wake' \in [Invs -> 0 .. POLL]
      BY <1>0, <1>1, <3>1 DEF TypeOK
    <3>6. waiter_active' \in BOOLEAN
      BY <1>0, <3>1 DEF TypeOK
    <3>7. QED
      BY <2>1, <3>1, <3>3, <3>4, <3>5, <3>6
  <2>2. CASE batch[i] = {}
    <3>1. EnterTick(i, BUDGET)
      BY <2>2 DEF Begin
    <3>2. pc[i] \notin WaiterRole
      BY <1>1 DEF WaiterRole
    <3>3. QED
      BY <1>1, <2>2, <3>1, <3>2, EnterTickInv
  <2>3. QED
    BY <2>1, <2>2
<1>3. PICK r \in {"idle", "sleeping", "sending"} :
        /\ pc' = [pc EXCEPT ![i] = r]
        /\ r = "sending" <=> batch[i] # {}
        /\ OneWaiter' /\ waiter_active' \in BOOLEAN /\ pc' \in [Invs -> PCs]
        /\ left' \in [Invs -> 0 .. BUDGET] /\ wake' \in [Invs -> 0 .. POLL]
  BY <1>2
<1>4. TypeOK'
  BY <1>0, <1>1, <1>3 DEF TypeOK
<1>5. \A j \in Invs : HoldsSlot(j)' <=> HoldsSlot(j)
  BY <1>1, <1>3 DEF HoldsSlot, Delivering
<1>6. SlotAccounting'
  BY <1>0, <1>1, <1>5, SlotsKept
<1>7. NewestSuffix' /\ RecordsBounded'
  BY <1>0, <1>1, LogsKept
<1>8. DrainsOnlyItsOwn'
  BY <1>0, <1>1, <1>3, DrainsKept
<1>9. QuietCarriesNothing'
  BY <1>0, <1>1, <1>3, QuietKept
<1>10. QED
  BY <1>3, <1>4, <1>6, <1>7, <1>8, <1>9 DEF IInv

LEMMA DeliverInv ==
  ASSUME IInv, NEW i \in Invs, Deliver(i)
  PROVE  IInv'
<1>0. TypeOK /\ SlotAccounting /\ OneWaiter /\ NewestSuffix /\ RecordsBounded
      /\ DrainsOnlyItsOwn /\ QuietCarriesNothing
  BY DEF IInv
<1>1. /\ pc[i] \in Delivering /\ pc' = pc /\ batch' = [batch EXCEPT ![i] = {}]
      /\ settled' = settled \cup SeqsOf(batch[i])
      /\ UNCHANGED <<logs, bytes, next_seq, waiter_active, in_flight, left,
                     wake, boundary>>
      /\ batch \in [Invs -> SUBSET Record]
  BY <1>0 DEF Deliver, TypeOK
<1>2. TypeOK'
  <2>1. SeqsOf(batch[i]) \in SUBSET Seqs
    BY <1>1, SeqsOfType
  <2>2. batch' \in [Invs -> SUBSET Record] /\ settled' \in SUBSET Seqs
    BY <1>0, <1>1, <2>1 DEF TypeOK
  <2>3. QED
    BY <1>0, <1>1, <2>2 DEF TypeOK
<1>3. \A j \in Invs : HoldsSlot(j)' <=> HoldsSlot(j)
  BY <1>1 DEF HoldsSlot
<1>4. SlotAccounting'
  BY <1>0, <1>1, <1>3, SlotsKept
<1>5. OneWaiter'
  BY <1>0, <1>1, OneWaiterKept
<1>6. NewestSuffix' /\ RecordsBounded'
  BY <1>0, <1>1, LogsKept
<1>7. DrainsOnlyItsOwn' /\ QuietCarriesNothing'
  <2>1. SeqsOf({}) = {}
    BY DEF SeqsOf
  <2>2. \A j \in Invs : batch'[j] = {} \/ batch'[j] = batch[j]
    BY <1>1
  <2>3. QED
    BY <1>0, <1>1, <2>1, <2>2 DEF DrainsOnlyItsOwn, QuietCarriesNothing
<1>8. QED
  BY <1>2, <1>4, <1>5, <1>6, <1>7 DEF IInv

(* A drain pass stops, or takes a nonempty chunk of records older than the *)
(* boundary below the hard cap.                                            *)
LEMMA DrainPassProperties ==
  ASSUME IInv, NEW i \in Invs, NEW bound \in 0 .. MaxSeq, NEW n \in Nat,
         DrainPass(i, bound, n), next_seq' = next_seq
  PROVE  /\ logs' \in Seq(Entry) /\ bytes' \in Nat
         /\ batch' \in [Invs -> SUBSET Record] /\ pc' \in [Invs -> PCs]
         /\ left' \in [Invs -> 0 .. BUDGET]
         /\ boundary' \in [Invs -> 0 .. MaxSeq]
         /\ NewestSuffix' /\ RecordsBounded'
         /\ \A j \in Invs \ {i} : batch'[j] = batch[j] /\ boundary'[j] = boundary[j]
         /\ \/ /\ pc' = [pc EXCEPT ![i] = "draining"]
               /\ in_flight' = n + 1 /\ n < HARD_IN_FLIGHT
               /\ \A s \in SeqsOf(batch'[i]) : s < boundary'[i]
            \/ /\ pc' = [pc EXCEPT ![i] = "idle"]
               /\ in_flight' = n /\ batch' = batch
<1> DEFINE c == ChunkBefore(logs, bound)
           admitted == /\ left[i] >= MIN_DRAIN
                       /\ logs # <<>>
                       /\ n < MAX_IN_FLIGHT \/ AtCeiling(logs, bytes)
                       /\ n < HARD_IN_FLIGHT
<1>0. TypeOK /\ NewestSuffix /\ RecordsBounded
  BY DEF IInv
<1>1. /\ pc \in [Invs -> PCs] /\ batch \in [Invs -> SUBSET Record]
      /\ left \in [Invs -> 0 .. BUDGET] /\ boundary \in [Invs -> 0 .. MaxSeq]
      /\ logs \in Seq(Entry) /\ bytes \in Nat /\ next_seq \in Nat
      /\ MaxSeq \in Nat /\ BUDGET \in Nat /\ bound \in Nat
  BY <1>0, BufferAssumption DEF TypeOK
<1>2. c \in 0 .. Len(logs) /\ (c > 0 => logs[c].seq < bound)
  BY <1>1, ChunkBeforeProperties
<1>3. CASE admitted /\ c > 0
  <2>1. /\ in_flight' = n + 1
        /\ logs' = Drop(logs, c) /\ bytes' = BytesAfter(logs, bytes, c)
        /\ batch' = [batch EXCEPT ![i] = Records(logs, c)]
        /\ pc' = [pc EXCEPT ![i] = "draining"]
        /\ boundary' = [boundary EXCEPT ![i] = bound]
        /\ left' = left
    BY <1>3 DEF DrainPass
  <2>2. n < HARD_IN_FLIGHT
    BY <1>3
  <2> HIDE DEF c, admitted
  <2>3. c \in 1 .. Len(logs)
    BY <1>2, <1>3
  <2>4. /\ NewestSuffix' /\ RecordsBounded'
        /\ logs' \in Seq(Entry) /\ bytes' \in Nat
        /\ Records(logs, c) \in SUBSET Record
    BY <1>0, <2>1, <2>3, LogsTaken
  <2>5. \A s \in SeqsOf(Records(logs, c)) : s < bound
    <3> SUFFICES ASSUME NEW s \in SeqsOf(Records(logs, c)) PROVE s < bound
      OBVIOUS
    <3>1. PICK k \in 1 .. c : s = logs[k].seq
      BY <1>1, <1>2, RecordsProperties
    <3>2. k \in DOMAIN logs /\ c \in DOMAIN logs
      BY <1>1, <2>3
    <3>3. /\ logs[k].seq = next_seq - Len(logs) + k - 1
          /\ logs[c].seq = next_seq - Len(logs) + c - 1
      BY <1>0, <3>2 DEF NewestSuffix
    <3>4. logs[k].seq <= logs[c].seq /\ logs[k].seq \in Int /\ logs[c].seq \in Int
      BY <1>1, <2>3, <3>3, SMTT(30)
    <3>5. QED
      BY <1>1, <1>2, <2>3, <3>1, <3>4
  <2>6. pc' \in [Invs -> PCs]
    BY <1>1, <2>1 DEF PCs, Delivering
  <2>7. batch' \in [Invs -> SUBSET Record] /\ boundary' \in [Invs -> 0 .. MaxSeq]
        /\ \A s \in SeqsOf(batch'[i]) : s < boundary'[i]
    BY <1>1, <2>1, <2>4, <2>5
  <2>8. \A j \in Invs \ {i} : batch'[j] = batch[j] /\ boundary'[j] = boundary[j]
    BY <1>1, <2>1
  <2>9. QED
    BY <1>1, <2>1, <2>2, <2>4, <2>6, <2>7, <2>8
<1>4. CASE ~(admitted /\ c > 0)
  <2>1. /\ in_flight' = n /\ pc' = [pc EXCEPT ![i] = "idle"]
        /\ left' = [left EXCEPT ![i] = 0]
        /\ boundary' = [boundary EXCEPT ![i] = 0]
        /\ UNCHANGED <<logs, bytes, batch>>
    BY <1>4 DEF DrainPass
  <2>2. NewestSuffix' /\ RecordsBounded'
    BY <1>0, <2>1, LogsKept
  <2>3. pc' \in [Invs -> PCs]
    BY <1>1, <2>1 DEF PCs
  <2>4. left' \in [Invs -> 0 .. BUDGET] /\ boundary' \in [Invs -> 0 .. MaxSeq]
        /\ \A j \in Invs \ {i} : batch'[j] = batch[j] /\ boundary'[j] = boundary[j]
    BY <1>1, <2>1
  <2>5. QED
    BY <1>1, <2>1, <2>2, <2>3, <2>4
<1>5. QED
  BY <1>3, <1>4

LEMMA FinishDeliveryInv ==
  ASSUME IInv, NEW i \in Invs, FinishDelivery(i)
  PROVE  IInv'
<1>0. TypeOK /\ SlotAccounting /\ OneWaiter /\ NewestSuffix /\ RecordsBounded
      /\ DrainsOnlyItsOwn /\ QuietCarriesNothing
  BY DEF IInv
<1>1. /\ pc[i] \in Delivering /\ batch[i] = {} /\ HoldsSlot(i)
      /\ next_seq' = next_seq /\ settled' = settled
      /\ pc \in [Invs -> PCs] /\ batch \in [Invs -> SUBSET Record]
      /\ left \in [Invs -> 0 .. BUDGET] /\ wake \in [Invs -> 0 .. POLL]
      /\ boundary \in [Invs -> 0 .. MaxSeq]
      /\ in_flight \in Nat /\ POLL \in Nat
  BY <1>0, BufferAssumption DEF FinishDelivery, TypeOK, HoldsSlot
<1>2. SatSub(in_flight, 1) \in Nat
  BY <1>1, SatSubType
<1>3. CASE pc[i] = "sending"
  <2>1. /\ in_flight' = SatSub(in_flight, 1) /\ EnterTick(i, left[i])
        /\ UNCHANGED <<logs, bytes, batch, boundary>>
    BY <1>3 DEF FinishDelivery
  <2>2. pc[i] \notin WaiterRole /\ left[i] \in 0 .. BUDGET
    BY <1>1, <1>3 DEF WaiterRole
  <2>3. /\ OneWaiter' /\ waiter_active' \in BOOLEAN /\ pc' \in [Invs -> PCs]
        /\ left' \in [Invs -> 0 .. BUDGET] /\ wake' \in [Invs -> 0 .. POLL]
        /\ \E r \in {"idle", "sleeping"} : pc' = [pc EXCEPT ![i] = r]
    BY <1>1, <2>1, <2>2, EnterTickInv
  <2>4. PICK r \in {"idle", "sleeping"} : pc' = [pc EXCEPT ![i] = r]
    BY <2>3
  <2>5. TypeOK'
    BY <1>0, <1>1, <1>2, <2>1, <2>3 DEF TypeOK
  <2>6. ~HoldsSlot(i)' /\ \A j \in Invs \ {i} : HoldsSlot(j)' <=> HoldsSlot(j)
    BY <1>1, <2>1, <2>4 DEF HoldsSlot, Delivering
  <2>7. SlotAccounting'
    BY <1>0, <1>1, <2>1, <2>6, SlotReleased
  <2>8. NewestSuffix' /\ RecordsBounded'
    BY <1>0, <1>1, <2>1, LogsKept
  <2>9. DrainsOnlyItsOwn'
    BY <1>0, <1>1, <2>1, <2>4, DrainsKept
  <2>10. QuietCarriesNothing'
    BY <1>0, <1>1, <2>1, <2>4, QuietKept
  <2>11. QED
    BY <2>3, <2>5, <2>7, <2>8, <2>9, <2>10 DEF IInv
<1>4. CASE pc[i] = "delivering"
  <2>1. /\ in_flight' = SatSub(in_flight, 1)
        /\ pc' = [pc EXCEPT ![i] = "sleeping"] /\ wake' = [wake EXCEPT ![i] = POLL]
        /\ UNCHANGED <<logs, bytes, batch, waiter_active, left, boundary>>
    BY <1>4 DEF FinishDelivery
  <2>2. TypeOK'
    <3>1. pc' \in [Invs -> PCs]
      BY <1>1, <2>1 DEF PCs
    <3>2. wake' \in [Invs -> 0 .. POLL]
      BY <1>1, <2>1
    <3>3. QED
      BY <1>0, <1>1, <1>2, <2>1, <3>1, <3>2 DEF TypeOK
  <2>3. ~HoldsSlot(i)' /\ \A j \in Invs \ {i} : HoldsSlot(j)' <=> HoldsSlot(j)
    BY <1>1, <2>1 DEF HoldsSlot, Delivering
  <2>4. SlotAccounting'
    BY <1>0, <1>1, <2>1, <2>3, SlotReleased
  <2>5. \A j \in Invs : pc'[j] \in WaiterRole <=> pc[j] \in WaiterRole
    BY <1>1, <1>4, <2>1 DEF WaiterRole
  <2>6. OneWaiter'
    BY <1>0, <2>1, <2>5, OneWaiterKept
  <2>7. NewestSuffix' /\ RecordsBounded'
    BY <1>0, <1>1, <2>1, LogsKept
  <2>8. DrainsOnlyItsOwn'
    BY <1>0, <1>1, <2>1, DrainsKept
  <2>9. QuietCarriesNothing'
    BY <1>0, <1>1, <2>1, QuietKept
  <2>10. QED
    BY <2>2, <2>4, <2>6, <2>7, <2>8, <2>9 DEF IInv
<1>5. CASE pc[i] = "draining"
  <2>1. DrainPass(i, boundary[i], SatSub(in_flight, 1))
        /\ UNCHANGED <<waiter_active, wake>>
    BY <1>5 DEF FinishDelivery
  <2>2. /\ logs' \in Seq(Entry) /\ bytes' \in Nat
        /\ batch' \in [Invs -> SUBSET Record] /\ pc' \in [Invs -> PCs]
        /\ left' \in [Invs -> 0 .. BUDGET]
        /\ boundary' \in [Invs -> 0 .. MaxSeq]
        /\ NewestSuffix' /\ RecordsBounded'
        /\ \A j \in Invs \ {i} : batch'[j] = batch[j] /\ boundary'[j] = boundary[j]
        /\ \/ /\ pc' = [pc EXCEPT ![i] = "draining"]
              /\ in_flight' = SatSub(in_flight, 1) + 1
              /\ SatSub(in_flight, 1) < HARD_IN_FLIGHT
              /\ \A s \in SeqsOf(batch'[i]) : s < boundary'[i]
           \/ /\ pc' = [pc EXCEPT ![i] = "idle"]
              /\ in_flight' = SatSub(in_flight, 1) /\ batch' = batch
    <3>1. boundary[i] \in 0 .. MaxSeq
      BY <1>1
    <3>2. QED
      BY <1>1, <1>2, <2>1, <3>1, DrainPassProperties
  <2>3. TypeOK'
    BY <1>0, <1>1, <1>2, <2>1, <2>2 DEF TypeOK
  <2>4. OneWaiter'
    <3>1. \A j \in Invs : pc'[j] \in WaiterRole <=> pc[j] \in WaiterRole
      BY <1>1, <1>5, <2>2 DEF WaiterRole
    <3>2. QED
      BY <1>0, <2>1, <3>1, OneWaiterKept
  <2>5. CASE pc' = [pc EXCEPT ![i] = "draining"]
    <3>1. pc' = pc
      BY <1>1, <1>5, <2>5
    <3>2. in_flight' = in_flight
      <4>1. pc'[i] # "idle"
        BY <1>1, <2>5
      <4>2. in_flight' = SatSub(in_flight, 1) + 1
        BY <1>1, <2>2, <4>1
      <4>3. QED
        BY <1>0, <1>1, <4>2, SlotHeld
    <3>3. \A j \in Invs : HoldsSlot(j)' <=> HoldsSlot(j)
      BY <1>1, <2>2, <3>1 DEF HoldsSlot
    <3>4. SlotAccounting'
      BY <1>0, <3>2, <3>3, SlotsKept
    <3>5. DrainsOnlyItsOwn'
      <4>1. \A s \in SeqsOf(batch'[i]) : s < boundary'[i]
        BY <1>1, <1>5, <2>2, <3>1
      <4>2. QED
        BY <1>0, <2>2, <3>1, <4>1 DEF DrainsOnlyItsOwn
    <3>6. QuietCarriesNothing'
      BY <1>0, <1>1, <2>2, <2>5, QuietKept
    <3>7. QED
      BY <2>2, <2>3, <2>4, <3>4, <3>5, <3>6 DEF IInv
  <2>6. CASE pc' = [pc EXCEPT ![i] = "idle"]
    <3>1. in_flight' = SatSub(in_flight, 1) /\ batch' = batch
      BY <1>1, <2>2, <2>6
    <3>2. ~HoldsSlot(i)' /\ \A j \in Invs \ {i} : HoldsSlot(j)' <=> HoldsSlot(j)
      BY <1>1, <2>6, <3>1 DEF HoldsSlot, Delivering
    <3>3. SlotAccounting'
      BY <1>0, <1>1, <3>1, <3>2, SlotReleased
    <3>4. DrainsOnlyItsOwn'
      BY <1>0, <1>1, <2>2, <2>6, DrainsKept
    <3>5. QuietCarriesNothing'
      BY <1>0, <1>1, <2>2, <2>6, <3>1, QuietKept
    <3>6. QED
      BY <2>2, <2>3, <2>4, <3>3, <3>4, <3>5 DEF IInv
  <2>7. QED
    BY <2>2, <2>5, <2>6
<1>6. QED
  BY <1>1, <1>3, <1>4, <1>5 DEF Delivering

LEMMA CancelInv ==
  ASSUME IInv, NEW i \in Invs, Cancel(i)
  PROVE  IInv'
<1>0. TypeOK /\ SlotAccounting /\ OneWaiter /\ NewestSuffix /\ RecordsBounded
      /\ DrainsOnlyItsOwn /\ QuietCarriesNothing
  BY DEF IInv
<1>1. /\ pc' = [pc EXCEPT ![i] = "idle"] /\ batch' = [batch EXCEPT ![i] = {}]
      /\ left' = [left EXCEPT ![i] = 0] /\ wake' = [wake EXCEPT ![i] = 0]
      /\ boundary' = [boundary EXCEPT ![i] = 0]
      /\ settled' = settled \cup SeqsOf(batch[i])
      /\ in_flight' = IF HoldsSlot(i) THEN SatSub(in_flight, 1) ELSE in_flight
      /\ UNCHANGED <<logs, bytes, next_seq>>
  BY DEF Cancel
<1>2. waiter_active' = IF pc[i] \in WaiterRole THEN FALSE ELSE waiter_active
  BY DEF Cancel
<1>3. /\ pc \in [Invs -> PCs] /\ batch \in [Invs -> SUBSET Record]
      /\ left \in [Invs -> 0 .. BUDGET] /\ wake \in [Invs -> 0 .. POLL]
      /\ boundary \in [Invs -> 0 .. MaxSeq] /\ settled \in SUBSET Seqs
      /\ in_flight \in Nat /\ POLL \in Nat /\ BUDGET \in Nat /\ MaxSeq \in Nat
  BY <1>0, BufferAssumption DEF TypeOK
<1>4. TypeOK'
  <2>1. pc' \in [Invs -> PCs]
    BY <1>1, <1>3 DEF PCs
  <2>2. batch' \in [Invs -> SUBSET Record] /\ left' \in [Invs -> 0 .. BUDGET]
        /\ wake' \in [Invs -> 0 .. POLL] /\ boundary' \in [Invs -> 0 .. MaxSeq]
    BY <1>1, <1>3
  <2>3. SeqsOf(batch[i]) \in SUBSET Seqs
    BY <1>3, SeqsOfType
  <2>4. settled' \in SUBSET Seqs
    BY <1>1, <1>3, <2>3
  <2>5. in_flight' \in Nat
    BY <1>1, <1>3, SatSubType
  <2>6. waiter_active' \in BOOLEAN
    BY <1>0, <1>2 DEF TypeOK
  <2>7. QED
    BY <1>0, <1>1, <2>1, <2>2, <2>4, <2>5, <2>6 DEF TypeOK
<1>5. ~HoldsSlot(i)' /\ \A j \in Invs \ {i} : HoldsSlot(j)' <=> HoldsSlot(j)
  BY <1>1, <1>3 DEF HoldsSlot, Delivering
<1>6. SlotAccounting'
  <2>1. CASE HoldsSlot(i)
    BY <1>0, <1>1, <1>5, <2>1, SlotReleased
  <2>2. CASE ~HoldsSlot(i)
    <3>1. \A j \in Invs : HoldsSlot(j)' <=> HoldsSlot(j)
      BY <1>5, <2>2
    <3>2. QED
      BY <1>0, <1>1, <2>2, <3>1, SlotsKept
  <2>3. QED
    BY <2>1, <2>2
<1>7. OneWaiter'
  <2>1. CASE pc[i] \in WaiterRole
    <3>1. waiter_active' = FALSE
      BY <1>2, <2>1
    <3>2. "idle" \notin WaiterRole
      BY DEF WaiterRole
    <3>3. QED
      BY <1>0, <1>1, <1>3, <2>1, <3>1, <3>2, WaiterReleased
  <2>2. CASE pc[i] \notin WaiterRole
    <3>1. waiter_active' = waiter_active
      BY <1>2, <2>2
    <3>2. \A j \in Invs : pc'[j] \in WaiterRole <=> pc[j] \in WaiterRole
      BY <1>1, <1>3, <2>2 DEF WaiterRole
    <3>3. QED
      BY <1>0, <3>1, <3>2, OneWaiterKept
  <2>3. QED
    BY <2>1, <2>2
<1>8. NewestSuffix' /\ RecordsBounded'
  BY <1>0, <1>1, LogsKept
<1>9. DrainsOnlyItsOwn'
  BY <1>0, <1>1, <1>3, DrainsKept
<1>10. QuietCarriesNothing'
  BY <1>0, <1>1, <1>3, QuietKept
<1>11. QED
  BY <1>4, <1>6, <1>7, <1>8, <1>9, <1>10 DEF IInv

(* The poll timer: standing down, sleeping on, shedding, delivering.       *)
LEMMA PollInv ==
  ASSUME IInv, NEW i \in Invs, Poll(i)
  PROVE  IInv'
<1>0. TypeOK /\ SlotAccounting /\ OneWaiter /\ NewestSuffix /\ RecordsBounded
      /\ DrainsOnlyItsOwn /\ QuietCarriesNothing
  BY DEF IInv
<1>1. /\ pc[i] = "sleeping" /\ next_seq' = next_seq
      /\ Retire(i) \/ StandDownEmpty(i) \/ SleepAgain(i) \/ ShedDue(i) \/ DeliverDue(i)
  BY DEF Poll
<1>2. /\ pc \in [Invs -> PCs] /\ batch \in [Invs -> SUBSET Record]
      /\ left \in [Invs -> 0 .. BUDGET] /\ wake \in [Invs -> 0 .. POLL]
      /\ boundary \in [Invs -> 0 .. MaxSeq] /\ settled \in SUBSET Seqs
      /\ logs \in Seq(Entry) /\ bytes \in Nat /\ next_seq \in 0 .. MaxSeq
      /\ in_flight \in Nat /\ POLL \in Nat /\ BUDGET \in Nat /\ MaxSeq \in Nat
      /\ Len(logs) \in Nat
  BY <1>0, BufferAssumption DEF TypeOK
<1>3. batch[i] = {} /\ ~HoldsSlot(i) /\ pc[i] \in WaiterRole
  BY <1>0, <1>1 DEF QuietCarriesNothing, HoldsSlot, Delivering, WaiterRole
<1>4. ASSUME pc' = [pc EXCEPT ![i] = "idle"], waiter_active' = FALSE,
             left' = [left EXCEPT ![i] = 0],
             UNCHANGED <<logs, bytes, in_flight, batch, wake, boundary, settled>>
      PROVE  IInv'
  <2>1. TypeOK'
    <3>1. pc' \in [Invs -> PCs]
      BY <1>2, <1>4 DEF PCs
    <3>2. left' \in [Invs -> 0 .. BUDGET]
      BY <1>2, <1>4
    <3>3. QED
      BY <1>0, <1>1, <1>4, <3>1, <3>2 DEF TypeOK
  <2>2. \A j \in Invs : HoldsSlot(j)' <=> HoldsSlot(j)
    BY <1>2, <1>3, <1>4 DEF HoldsSlot, Delivering
  <2>3. SlotAccounting'
    BY <1>0, <1>4, <2>2, SlotsKept
  <2>4. "idle" \notin WaiterRole
    BY DEF WaiterRole
  <2>5. OneWaiter'
    BY <1>0, <1>2, <1>3, <1>4, <2>4, WaiterReleased
  <2>6. NewestSuffix' /\ RecordsBounded'
    BY <1>0, <1>1, <1>4, LogsKept
  <2>7. DrainsOnlyItsOwn'
    BY <1>0, <1>2, <1>4, DrainsKept
  <2>8. QuietCarriesNothing'
    BY <1>0, <1>2, <1>3, <1>4, QuietKept
  <2>9. QED
    BY <2>1, <2>3, <2>5, <2>6, <2>7, <2>8 DEF IInv
<1>5. CASE Retire(i)
  <2>1. waiter_active' = FALSE /\ UNCHANGED <<wake, settled>>
    BY <1>5 DEF Retire
  <2>2. CASE logs = <<>>
    BY <1>4, <1>5, <2>1, <2>2 DEF Retire
  <2>3. CASE logs # <<>>
    <3>1. DrainPass(i, next_seq, in_flight)
      BY <1>5, <2>3 DEF Retire
    <3>2. /\ logs' \in Seq(Entry) /\ bytes' \in Nat
          /\ batch' \in [Invs -> SUBSET Record] /\ pc' \in [Invs -> PCs]
          /\ left' \in [Invs -> 0 .. BUDGET]
          /\ boundary' \in [Invs -> 0 .. MaxSeq]
          /\ NewestSuffix' /\ RecordsBounded'
          /\ \A j \in Invs \ {i} : batch'[j] = batch[j] /\ boundary'[j] = boundary[j]
          /\ \/ /\ pc' = [pc EXCEPT ![i] = "draining"]
                /\ in_flight' = in_flight + 1 /\ in_flight < HARD_IN_FLIGHT
                /\ \A s \in SeqsOf(batch'[i]) : s < boundary'[i]
             \/ /\ pc' = [pc EXCEPT ![i] = "idle"]
                /\ in_flight' = in_flight /\ batch' = batch
      BY <1>1, <1>2, <3>1, DrainPassProperties
    <3>3. TypeOK'
      <4>1. waiter_active' \in BOOLEAN
        BY <2>1
      <4>2. in_flight' \in Nat
        BY <1>2, <3>2
      <4>3. wake' \in [Invs -> 0 .. POLL] /\ settled' \in SUBSET Seqs
            /\ next_seq' \in 0 .. MaxSeq
        BY <1>1, <1>2, <2>1
      <4>4. QED
        BY <3>2, <4>1, <4>2, <4>3 DEF TypeOK
    <3>4. OneWaiter'
      <4>1. "idle" \notin WaiterRole /\ "draining" \notin WaiterRole
        BY DEF WaiterRole
      <4>2. QED
        BY <1>0, <1>2, <1>3, <2>1, <3>2, <4>1, WaiterReleased
    <3>5. CASE pc' = [pc EXCEPT ![i] = "draining"]
      <4>1. pc'[i] = "draining" /\ pc'[i] # "idle"
        BY <1>2, <3>5
      <4>2. in_flight' = in_flight + 1 /\ in_flight < HARD_IN_FLIGHT
            /\ \A s \in SeqsOf(batch'[i]) : s < boundary'[i]
        BY <1>2, <3>2, <4>1
      <4>3. HoldsSlot(i)' /\ \A j \in Invs \ {i} : HoldsSlot(j)' <=> HoldsSlot(j)
        BY <1>2, <3>2, <3>5, <4>1 DEF HoldsSlot, Delivering
      <4>4. SlotAccounting'
        BY <1>0, <1>3, <4>2, <4>3, SlotAcquired
      <4>5. DrainsOnlyItsOwn'
        <5> SUFFICES ASSUME NEW j \in Invs, pc'[j] = "draining"
                     PROVE  \A s \in SeqsOf(batch'[j]) : s < boundary'[j]
          BY DEF DrainsOnlyItsOwn
        <5>1. CASE j = i
          BY <4>2, <5>1
        <5>2. CASE j # i
          <6>1. pc[j] = "draining"
            BY <1>2, <3>5, <5>2
          <6>2. QED
            BY <1>0, <3>2, <5>2, <6>1 DEF DrainsOnlyItsOwn
        <5>3. QED
          BY <5>1, <5>2
      <4>6. QuietCarriesNothing'
        BY <1>0, <1>2, <3>2, <3>5, QuietKept
      <4>7. QED
        BY <3>2, <3>3, <3>4, <4>4, <4>5, <4>6 DEF IInv
    <3>6. CASE pc' = [pc EXCEPT ![i] = "idle"]
      <4>1. in_flight' = in_flight /\ batch' = batch
        BY <1>2, <3>2, <3>6
      <4>2. \A j \in Invs : HoldsSlot(j)' <=> HoldsSlot(j)
        BY <1>2, <1>3, <3>6, <4>1 DEF HoldsSlot, Delivering
      <4>3. SlotAccounting'
        BY <1>0, <4>1, <4>2, SlotsKept
      <4>4. DrainsOnlyItsOwn'
        BY <1>0, <1>2, <3>2, <3>6, DrainsKept
      <4>5. QuietCarriesNothing'
        BY <1>0, <1>2, <1>3, <3>6, <4>1, QuietKept
      <4>6. QED
        BY <3>2, <3>3, <3>4, <4>3, <4>4, <4>5 DEF IInv
    <3>7. QED
      BY <3>2, <3>5, <3>6
  <2>4. QED
    BY <2>2, <2>3
<1>6. CASE StandDownEmpty(i)
  BY <1>4, <1>6 DEF StandDownEmpty
<1>7. ASSUME pc' = pc, batch' = batch, wake' = [wake EXCEPT ![i] = POLL],
             UNCHANGED <<waiter_active, in_flight, left, boundary>>,
             settled' \in SUBSET Seqs, logs' \in Seq(Entry), bytes' \in Nat,
             NewestSuffix', RecordsBounded'
      PROVE  IInv'
  <2>1. TypeOK'
    <3>1. wake' \in [Invs -> 0 .. POLL]
      BY <1>2, <1>7
    <3>2. QED
      BY <1>0, <1>1, <1>7, <3>1 DEF TypeOK
  <2>2. SlotAccounting'
    <3>1. \A j \in Invs : HoldsSlot(j)' <=> HoldsSlot(j)
      BY <1>7 DEF HoldsSlot
    <3>2. QED
      BY <1>0, <1>7, <3>1, SlotsKept
  <2>3. OneWaiter'
    BY <1>0, <1>7, OneWaiterKept
  <2>4. DrainsOnlyItsOwn' /\ QuietCarriesNothing'
    BY <1>0, <1>7 DEF DrainsOnlyItsOwn, QuietCarriesNothing
  <2>5. QED
    BY <1>7, <2>1, <2>2, <2>3, <2>4 DEF IInv
<1>8. CASE SleepAgain(i)
  <2>1. /\ pc' = pc /\ batch' = batch /\ wake' = [wake EXCEPT ![i] = POLL]
        /\ UNCHANGED <<waiter_active, in_flight, left, boundary>>
        /\ UNCHANGED <<logs, bytes, settled>>
    BY <1>8 DEF SleepAgain
  <2>2. NewestSuffix' /\ RecordsBounded'
    BY <1>0, <1>1, <2>1, LogsKept
  <2>3. QED
    BY <1>2, <1>7, <2>1, <2>2
<1>9. CASE ShedDue(i)
  <2>1. /\ pc' = pc /\ batch' = batch /\ wake' = [wake EXCEPT ![i] = POLL]
        /\ UNCHANGED <<waiter_active, in_flight, left, boundary>>
    BY <1>9 DEF ShedDue
  <2>2. PICK m \in 1 .. Len(logs) :
          /\ logs' = Drop(logs, m) /\ bytes' = BytesAfter(logs, bytes, m)
          /\ settled' = settled \cup SeqsOf(Records(logs, m))
    BY <1>9 DEF ShedDue
  <2>3. /\ NewestSuffix' /\ RecordsBounded'
        /\ logs' \in Seq(Entry) /\ bytes' \in Nat
        /\ SeqsOf(Records(logs, m)) \in SUBSET Seqs
    BY <1>0, <1>1, <2>2, LogsTaken
  <2>4. settled' \in SUBSET Seqs
    BY <1>2, <2>2, <2>3
  <2>5. QED
    BY <1>7, <2>1, <2>3, <2>4
<1>10. CASE DeliverDue(i)
  <2> DEFINE n == Chunk(logs)
  <2>1. /\ in_flight' = in_flight + 1
        /\ logs' = Drop(logs, n) /\ bytes' = BytesAfter(logs, bytes, n)
        /\ batch' = [batch EXCEPT ![i] = Records(logs, n)]
        /\ pc' = [pc EXCEPT ![i] = "delivering"]
        /\ UNCHANGED <<waiter_active, left, wake, boundary, settled>>
    BY <1>10 DEF DeliverDue
  <2>2. n \in 1 .. Len(logs)
    <3>1. Len(logs) > 0
      BY <1>10 DEF DeliverDue, TimeDue
    <3>2. QED
      BY <1>2, <3>1, ChunkProperties
  <2>3. in_flight < HARD_IN_FLIGHT
    <3>1. AtCeiling(logs, bytes) \in BOOLEAN
      BY DEF AtCeiling
    <3>2. Decide(AtCeiling(logs, bytes), in_flight) = "Deliver"
      BY <1>10 DEF DeliverDue
    <3>3. QED
      BY <1>2, <3>1, <3>2, DecideProperties
  <2> HIDE DEF n
  <2>4. /\ NewestSuffix' /\ RecordsBounded'
        /\ logs' \in Seq(Entry) /\ bytes' \in Nat
        /\ Records(logs, n) \in SUBSET Record
    BY <1>0, <1>1, <2>1, <2>2, LogsTaken
  <2>5. TypeOK'
    <3>1. pc' \in [Invs -> PCs]
      BY <1>2, <2>1 DEF PCs, Delivering
    <3>2. batch' \in [Invs -> SUBSET Record] /\ in_flight' \in Nat
      BY <1>2, <2>1, <2>4
    <3>3. QED
      BY <1>0, <1>1, <2>1, <2>4, <3>1, <3>2 DEF TypeOK
  <2>6. HoldsSlot(i)' /\ \A j \in Invs \ {i} : HoldsSlot(j)' <=> HoldsSlot(j)
    BY <1>2, <2>1 DEF HoldsSlot, Delivering
  <2>7. SlotAccounting'
    BY <1>0, <1>3, <2>1, <2>3, <2>6, SlotAcquired
  <2>8. OneWaiter'
    <3>1. \A j \in Invs : pc'[j] \in WaiterRole <=> pc[j] \in WaiterRole
      BY <1>1, <1>2, <2>1 DEF WaiterRole
    <3>2. QED
      BY <1>0, <2>1, <3>1, OneWaiterKept
  <2>9. DrainsOnlyItsOwn'
    BY <1>0, <1>2, <2>1, DrainsKept
  <2>10. QuietCarriesNothing'
    BY <1>0, <1>2, <2>1, QuietKept
  <2>11. QED
    BY <2>4, <2>5, <2>7, <2>8, <2>9, <2>10 DEF IInv
<1>11. QED
  BY <1>1, <1>5, <1>6, <1>8, <1>9, <1>10

LEMMA TickInv ==
  ASSUME IInv, Tick
  PROVE  IInv'
<1>0. TypeOK /\ SlotAccounting /\ OneWaiter /\ NewestSuffix /\ RecordsBounded
      /\ DrainsOnlyItsOwn /\ QuietCarriesNothing
  BY DEF IInv
<1>1. /\ left' = [j \in Invs |-> SatSub(left[j], 1)]
      /\ wake' = [j \in Invs |-> SatSub(wake[j], 1)]
      /\ logs' = [k \in DOMAIN logs |->
                   [logs[k] EXCEPT !.age = IF @ < MAX_AGE THEN @ + 1 ELSE @]]
      /\ UNCHANGED <<bytes, next_seq, waiter_active, in_flight, pc, batch,
                     boundary, settled>>
  BY DEF Tick
<1>2. logs \in Seq(Entry) /\ DOMAIN logs = 1 .. Len(logs) /\ Len(logs) \in Nat
  BY <1>0 DEF TypeOK
<1>3. \A k \in DOMAIN logs : logs'[k] \in Entry /\ logs'[k].seq = logs[k].seq
  <2> SUFFICES ASSUME NEW k \in DOMAIN logs
               PROVE  logs'[k] \in Entry /\ logs'[k].seq = logs[k].seq
    OBVIOUS
  <2>1. logs[k] \in Entry
    BY <1>2
  <2>2. logs'[k] = [logs[k] EXCEPT !.age = IF @ < MAX_AGE THEN @ + 1 ELSE @]
    BY <1>1
  <2>3. QED
    BY <2>1, <2>2, BufferAssumption DEF Entry
<1>4. logs' \in Seq(Entry) /\ Len(logs') = Len(logs) /\ DOMAIN logs' = DOMAIN logs
  <2>1. DOMAIN logs' = 1 .. Len(logs)
    BY <1>1, <1>2
  <2>2. logs' \in [1 .. Len(logs) -> Entry]
    <3>1. logs' = [k \in 1 .. Len(logs) |-> logs'[k]]
      BY <1>1, <1>2
    <3>2. QED
      BY <1>2, <1>3, <3>1
  <2>3. QED
    BY <1>2, <2>1, <2>2
<1>5. TypeOK'
  <2>1. left' \in [Invs -> 0 .. BUDGET]
    <3>1. \A j \in Invs : SatSub(left[j], 1) \in 0 .. BUDGET
      BY <1>0, SatSubType, BufferAssumption DEF TypeOK
    <3>2. QED
      BY <1>1, <3>1
  <2>2. wake' \in [Invs -> 0 .. POLL]
    <3>1. \A j \in Invs : SatSub(wake[j], 1) \in 0 .. POLL
      BY <1>0, SatSubType, BufferAssumption DEF TypeOK
    <3>2. QED
      BY <1>1, <3>1
  <2>3. QED
    BY <1>0, <1>1, <1>4, <2>1, <2>2 DEF TypeOK
<1>6. SlotAccounting'
  <2>1. \A j \in Invs : HoldsSlot(j)' <=> HoldsSlot(j)
    BY <1>1 DEF HoldsSlot
  <2>2. QED
    BY <1>0, <1>1, <2>1, SlotsKept
<1>7. OneWaiter'
  BY <1>0, <1>1, OneWaiterKept
<1>8. NewestSuffix' /\ RecordsBounded'
  BY <1>0, <1>1, <1>3, <1>4 DEF NewestSuffix, RecordsBounded
<1>9. DrainsOnlyItsOwn' /\ QuietCarriesNothing'
  BY <1>0, <1>1 DEF DrainsOnlyItsOwn, QuietCarriesNothing
<1>10. QED
  BY <1>5, <1>6, <1>7, <1>8, <1>9 DEF IInv

-----------------------------------------------------------------------------
LEMMA NextInv == IInv /\ [Next]_vars => IInv'
<1> SUFFICES ASSUME IInv, [Next]_vars PROVE IInv'
  OBVIOUS
<1>1. ASSUME NEW i \in Invs, Request(i) \/ Run(i) \/ Cancel(i)
      PROVE  IInv'
  <2>1. CASE Request(i)
    BY <2>1, OfferInv, OfferNothingInv DEF Request
  <2>2. CASE Run(i)
    BY <2>2, BeginInv, DeliverInv, FinishDeliveryInv, PollInv DEF Run
  <2>3. CASE Cancel(i)
    BY <2>3, CancelInv
  <2>4. QED
    BY <1>1, <2>1, <2>2, <2>3
<1>2. CASE Tick
  BY <1>2, TickInv
<1>3. CASE UNCHANGED vars
  <2>1. SlotAccounting'
    <3>1. \A j \in Invs : HoldsSlot(j)' <=> HoldsSlot(j)
      BY <1>3 DEF HoldsSlot, vars
    <3>2. QED
      BY <1>3, <3>1, SlotsKept DEF IInv, vars
  <2>2. OneWaiter'
    BY <1>3, OneWaiterKept DEF IInv, vars
  <2>3. TypeOK' /\ NewestSuffix' /\ RecordsBounded' /\ DrainsOnlyItsOwn'
        /\ QuietCarriesNothing'
    BY <1>3 DEF IInv, vars, TypeOK, NewestSuffix, RecordsBounded,
                DrainsOnlyItsOwn, QuietCarriesNothing
  <2>4. QED
    BY <2>1, <2>2, <2>3 DEF IInv
<1>4. QED
  BY <1>1, <1>2, <1>3 DEF Next

LEMMA Invariance == Spec => []IInv
BY InitInv, NextInv, PTL DEF Spec

(* The sink's variables keep their types in every behaviour.               *)
THEOREM TypeCorrect == Spec => []TypeOK
<1>1. IInv => TypeOK
  BY DEF IInv
<1>2. QED
  BY <1>1, Invariance, PTL

(* Whatever interleaves with whatever, and wherever futures are dropped,   *)
(* IN_FLIGHT counts exactly the live delivery guards and never exceeds     *)
(* HARD_IN_FLIGHT.                                                         *)
THEOREM SlotsCorrect == Spec => []SlotAccounting
<1>1. IInv => SlotAccounting
  BY DEF IInv
<1>2. QED
  BY <1>1, Invariance, PTL

(* There is never a second waiter, and waiter_active never outlives one.   *)
THEOREM WaiterCorrect == Spec => []OneWaiter
<1>1. IInv => OneWaiter
  BY DEF IInv
<1>2. QED
  BY <1>1, Invariance, PTL

(* Both guards, for any number of invocations: no delivery slot and no     *)
(* waiter role is leaked or held twice, wherever futures are dropped.      *)
THEOREM GuardsCorrect == Spec => []GuardsExact
BY SlotsCorrect, WaiterCorrect, PTL DEF GuardsExact

(* The buffer never reaches its record ceiling between requests.           *)
THEOREM CeilingCorrect == Spec => []RecordsBounded
<1>1. IInv => RecordsBounded
  BY DEF IInv
<1>2. QED
  BY <1>1, Invariance, PTL

(* Only the oldest records ever leave the buffer.                          *)
THEOREM OrderCorrect == Spec => []NewestSuffix
<1>1. IInv => NewestSuffix
  BY DEF IInv
<1>2. QED
  BY <1>1, Invariance, PTL

(* A retired waiter delivers only records that were there when it retired. *)
THEOREM DrainCorrect == Spec => []DrainsOnlyItsOwn
<1>1. IInv => DrainsOnlyItsOwn
  BY DEF IInv
<1>2. QED
  BY <1>1, Invariance, PTL

(* The buffer is a bounded queue for every number of invocations and every *)
(* setting of its limits.                                                  *)
THEOREM QueueCorrect == Spec => []OrderAndBounds
BY CeilingCorrect, OrderCorrect, DrainCorrect, PTL DEF OrderAndBounds

-----------------------------------------------------------------------------
(* Who owns the buffer.  A step takes the last owner from a nonempty       *)
(* buffer only by dropping a future or by retiring the waiter.             *)

(* A future that enters tick leaves the buffer owned: it takes a vacant    *)
(* role, or finds the role taken or nothing to look after.                 *)
LEMMA EnterTickOwned ==
  ASSUME NEW i \in Invs, NEW b, EnterTick(i, b), logs' = logs
  PROVE  Owned'
BY DEF EnterTick, Owned

(* A waiter that goes on waiting or delivering keeps its role.             *)
LEMMA WaiterOwns ==
  ASSUME OneWaiter, NEW i \in Invs, pc[i] \in WaiterRole,
         waiter_active' = waiter_active
  PROVE  Owned'
BY DEF OneWaiter, Owned

(* A drain pass touches no other future, and none of those that have yet   *)
(* to enter tick.                                                          *)
LEMMA DrainPassOwned ==
  ASSUME TypeOK, NEW i \in Invs, pc[i] = "draining", NEW bound, NEW n,
         DrainPass(i, bound, n), waiter_active' = waiter_active, Owned
  PROVE  Owned'
<1>1. CASE waiter_active
  BY <1>1 DEF Owned
<1>2. CASE logs = <<>>
  BY <1>2 DEF Owned, DrainPass
<1>3. ASSUME NEW j \in Invs, pc[j] \in {"queued", "sending"}
      PROVE  Owned'
  <2>1. j # i
    BY <1>3
  <2>2. pc' = [pc EXCEPT ![i] = "draining"] \/ pc' = [pc EXCEPT ![i] = "idle"]
    BY DEF DrainPass
  <2>3. pc'[j] = pc[j]
    BY <2>1, <2>2 DEF TypeOK
  <2>4. QED
    BY <1>3, <2>3 DEF Owned
<1>4. QED
  BY <1>1, <1>2, <1>3 DEF Owned

LEMMA OwnershipStep ==
  ASSUME IInv, [Next]_vars, Owned, ~Owned'
  PROVE  \E i \in Invs : \/ Cancel(i)
                         \/ pc[i] = "sleeping" /\ left[i] < RETIRE_AT /\ Poll(i)
<1>0. TypeOK /\ OneWaiter
  BY DEF IInv
<1>1. ASSUME NEW i \in Invs, Request(i)
      PROVE  FALSE
  <2>1. pc' = [pc EXCEPT ![i] = "queued"]
    BY <1>1 DEF Request, Offer, OfferNothing
  <2>2. pc'[i] = "queued"
    BY <2>1, <1>0 DEF TypeOK
  <2>3. QED
    BY <2>2 DEF Owned
<1>2. ASSUME NEW i \in Invs, Begin(i)
      PROVE  FALSE
  <2>1. CASE pc' = [pc EXCEPT ![i] = "sending"]
    <3>1. pc'[i] = "sending"
      BY <2>1, <1>0 DEF TypeOK
    <3>2. QED
      BY <3>1 DEF Owned
  <2>2. CASE EnterTick(i, BUDGET)
    BY <1>2, <2>2, EnterTickOwned DEF Begin
  <2>3. QED
    BY <1>2, <2>1, <2>2 DEF Begin
<1>3. ASSUME NEW i \in Invs, Deliver(i)
      PROVE  FALSE
  BY <1>3 DEF Deliver, Owned
<1>4. ASSUME NEW i \in Invs, FinishDelivery(i)
      PROVE  FALSE
  <2>1. CASE pc[i] = "sending"
    BY <1>4, <2>1, EnterTickOwned DEF FinishDelivery
  <2>2. CASE pc[i] = "delivering"
    BY <1>0, <1>4, <2>2, WaiterOwns DEF FinishDelivery, WaiterRole
  <2>3. CASE pc[i] = "draining"
    <3>1. DrainPass(i, boundary[i], SatSub(in_flight, 1))
          /\ waiter_active' = waiter_active
      BY <1>4, <2>3 DEF FinishDelivery
    <3>2. QED
      BY <3>1, <2>3, <1>0, DrainPassOwned
  <2>4. QED
    BY <1>4, <2>1, <2>2, <2>3 DEF FinishDelivery
<1>5. ASSUME NEW i \in Invs, Poll(i)
      PROVE  pc[i] = "sleeping" /\ left[i] < RETIRE_AT
  <2>1. pc[i] = "sleeping" /\ pc[i] \in WaiterRole
    BY <1>5 DEF Poll, WaiterRole
  <2>2. CASE StandDownEmpty(i)
    BY <2>2 DEF StandDownEmpty, Owned
  <2>3. CASE SleepAgain(i) \/ ShedDue(i) \/ DeliverDue(i)
    BY <1>0, <2>1, <2>3, WaiterOwns DEF SleepAgain, ShedDue, DeliverDue
  <2>4. QED
    BY <1>5, <2>1, <2>2, <2>3 DEF Poll
<1>6. CASE Tick
  <2>1. logs = <<>> => logs' = <<>>
    <3>1. logs' \in [DOMAIN logs -> {logs'[k] : k \in DOMAIN logs}]
          /\ DOMAIN logs' = DOMAIN logs
      BY <1>6 DEF Tick
    <3>2. logs \in Seq(Entry) /\ logs' \in Seq(Entry)
      BY <1>0, <1>6, TickInv DEF TypeOK, IInv
    <3>3. QED
      BY <3>1, <3>2
  <2>2. waiter_active' = waiter_active /\ pc' = pc
    BY <1>6 DEF Tick
  <2>3. QED
    BY <2>1, <2>2 DEF Owned
<1>7. CASE UNCHANGED vars
  BY <1>7 DEF vars, Owned
<1>8. QED
  BY <1>1, <1>2, <1>3, <1>4, <1>5, <1>6, <1>7 DEF Next, Run

(* No interleaving of claims, flushes, deliveries and drains strands a     *)
(* buffered tail: only a cancelled future or a waiter out of budget does.  *)
THEOREM StrandingExplained == Spec => NoSilentStranding
<1>1. IInv /\ [Next]_vars =>
        [ Owned /\ ~Owned' =>
            \E i \in Invs : \/ Cancel(i)
                            \/ pc[i] = "sleeping" /\ left[i] < RETIRE_AT /\ Poll(i) ]_vars
  BY OwnershipStep
<1>2. QED
  BY <1>1, Invariance, PTL DEF Spec, NoSilentStranding

-----------------------------------------------------------------------------
(* Conservation.  The buffer holds the newest records, so what has left it *)
(* is an interval; the deliveries and the history divide it among them.    *)

LeftBuffer == 0 .. next_seq - Len(logs) - 1

Apart(rs) ==
  \A i, j \in Invs : i # j => SeqsOf(rs[i]) \cap SeqsOf(rs[j]) = {}

PlacesExact ==
  /\ \A s \in Seqs : s \in LeftBuffer <=>
       s \in settled \/ \E i \in Invs : s \in SeqsOf(batch[i])
  /\ \A i \in Invs : settled \cap SeqsOf(batch[i]) = {}
  /\ Apart(batch)

RInv == IInv /\ BytesExact /\ PlacesExact

LEMMA EntriesHaveLengths == HasLengths(Entry)
BY BufferAssumption DEF HasLengths, Entry

(* SumLen is the sum of FoldProofs.                                        *)
LEMMA SumLenIsLenSum == \A ls : SumLen(ls) = LenSum(ls)
BY DEF SumLen, LenSum

(* Taking n entries: the byte count stays exact, saturation never occurs,  *)
(* and the records taken are the n oldest.                                 *)
LEMMA TakeExact ==
  ASSUME NEW ls \in Seq(Entry), NEW n \in 0 .. Len(ls), NEW m \in Nat,
         Newest(ls, m), NEW b, b = SumLen(ls)
  PROVE  /\ BytesAfter(ls, b, n) = SumLen(Drop(ls, n))
         /\ SeqsOf(Records(ls, n)) = m - Len(ls) .. m - Len(ls) + n - 1
<1>1. BytesAfter(ls, b, n) = SumLen(Drop(ls, n))
  <2> DEFINE front == SubSeq(ls, 1, n)
             back  == SubSeq(ls, n + 1, Len(ls))
  <2>1. LenSum(ls) = LenSum(front) + LenSum(back)
        /\ LenSum(front) \in 0 .. LenSum(ls)
    BY EntriesHaveLengths, LenSumSplit
  <2>2. LenSum(ls) \in Nat /\ LenSum(back) \in Nat
    <3>1. back \in Seq(Entry)
      BY DropProperties DEF Drop
    <3> QED BY <3>1, EntriesHaveLengths, LenSumType
  <2>3. SumLen(front) = LenSum(front) /\ SumLen(back) = LenSum(back)
        /\ b = LenSum(ls)
    BY SumLenIsLenSum
  <2> HIDE DEF front, back
  <2>4. SatSub(b, SumLen(front)) = SumLen(back)
    BY <2>1, <2>2, <2>3 DEF SatSub
  <2> QED BY <2>4 DEF BytesAfter, Drop, front, back
<1>2. \A s : s \in SeqsOf(Records(ls, n)) <=> \E k \in 1 .. n : s = ls[k].seq
  <2>1. ASSUME NEW s \in SeqsOf(Records(ls, n))
        PROVE  \E k \in 1 .. n : s = ls[k].seq
    BY <2>1, RecordsProperties
  <2>2. ASSUME NEW k \in 1 .. n
        PROVE  ls[k].seq \in SeqsOf(Records(ls, n))
    <3> DEFINE r == [seq |-> ls[k].seq, len |-> ls[k].len]
    <3>1. r \in Records(ls, n)
      BY DEF Records
    <3>2. r.seq = ls[k].seq
      OBVIOUS
    <3> HIDE DEF r
    <3> QED BY <3>1, <3>2 DEF SeqsOf
  <2> QED BY <2>1, <2>2
<1>3. \A k \in 1 .. n : ls[k].seq = m - Len(ls) + k - 1
  <2>1. \A k \in 1 .. n : k \in DOMAIN ls
    OBVIOUS
  <2> QED BY <2>1 DEF Newest
<1>4. Len(ls) \in Nat /\ n \in Nat
  OBVIOUS
<1>5. ASSUME NEW s \in m - Len(ls) .. m - Len(ls) + n - 1
      PROVE  \E k \in 1 .. n : s = ls[k].seq
  <2>1. s - (m - Len(ls)) + 1 \in 1 .. n
    BY <1>4
  <2>2. s = m - Len(ls) + (s - (m - Len(ls)) + 1) - 1
    BY <1>4
  <2> QED BY <1>3, <2>1, <2>2
<1>6. ASSUME NEW k \in 1 .. n
      PROVE  ls[k].seq \in m - Len(ls) .. m - Len(ls) + n - 1
  <2>1. m - Len(ls) + k - 1 \in m - Len(ls) .. m - Len(ls) + n - 1
    BY <1>4
  <2> QED BY <1>3, <2>1
<1>7. SeqsOf(Records(ls, n)) = m - Len(ls) .. m - Len(ls) + n - 1
  BY <1>2, <1>5, <1>6, ZenonT(30)
<1> QED BY <1>1, <1>7

LEMMA NoRecords == SeqsOf({}) = {}
BY DEF SeqsOf

(* The four ways in which a step moves records.                            *)
LEMMA PlacesKept ==
  ASSUME PlacesExact, settled' = settled, batch' = batch,
         LeftBuffer' = LeftBuffer
  PROVE  PlacesExact'
BY DEF PlacesExact, Apart

LEMMA PlacesShed ==
  ASSUME PlacesExact, NEW rs \in SUBSET Seqs, settled' = settled \cup rs,
         batch' = batch, rs \cap LeftBuffer = {},
         \A s \in Seqs : s \in LeftBuffer' <=> s \in LeftBuffer \/ s \in rs
  PROVE  PlacesExact'
<1>1. \A s \in Seqs : s \in LeftBuffer' <=>
        s \in settled' \/ \E i \in Invs : s \in SeqsOf(batch'[i])
  BY DEF PlacesExact
<1>2. \A i \in Invs : settled' \cap SeqsOf(batch'[i]) = {}
  BY DEF PlacesExact
<1>3. Apart(batch')
  BY DEF PlacesExact
<1> QED BY <1>1, <1>2, <1>3 DEF PlacesExact, Apart

LEMMA PlacesTaken ==
  ASSUME PlacesExact, TypeOK, NEW i \in Invs, batch[i] = {}, NEW rs,
         SeqsOf(rs) \in SUBSET Seqs, batch' = [batch EXCEPT ![i] = rs],
         settled' = settled, SeqsOf(rs) \cap LeftBuffer = {},
         \A s \in Seqs : s \in LeftBuffer' <=> s \in LeftBuffer \/ s \in SeqsOf(rs)
  PROVE  PlacesExact'
<1>1. /\ batch'[i] = rs
      /\ \A j \in Invs \ {i} : batch'[j] = batch[j]
      /\ SeqsOf(batch[i]) = {}
  BY NoRecords DEF TypeOK
<1>2. \A s \in Seqs : s \in LeftBuffer' <=>
        s \in settled' \/ \E j \in Invs : s \in SeqsOf(batch'[j])
  BY <1>1 DEF PlacesExact
<1>3. ASSUME NEW s \in SeqsOf(rs)
      PROVE  s \notin settled /\ \A j \in Invs : s \notin SeqsOf(batch[j])
  <2>1. s \in Seqs /\ s \notin LeftBuffer
    OBVIOUS
  <2> QED BY <2>1 DEF PlacesExact
<1>4. \A j \in Invs : settled' \cap SeqsOf(batch'[j]) = {}
  BY <1>1, <1>3 DEF PlacesExact
<1>5. Apart(batch')
  <2> SUFFICES ASSUME NEW j \in Invs, NEW k \in Invs, j # k
               PROVE  SeqsOf(batch'[j]) \cap SeqsOf(batch'[k]) = {}
    BY DEF Apart
  <2>1. CASE j # i /\ k # i
    BY <1>1, <2>1 DEF PlacesExact, Apart
  <2>2. CASE j = i \/ k = i
    BY <1>1, <1>3, <2>2
  <2> QED BY <2>1, <2>2
<1> QED BY <1>2, <1>4, <1>5 DEF PlacesExact, Apart

LEMMA PlacesSettled ==
  ASSUME PlacesExact, TypeOK, NEW i \in Invs, LeftBuffer' = LeftBuffer,
         batch' = [batch EXCEPT ![i] = {}],
         settled' = settled \cup SeqsOf(batch[i])
  PROVE  PlacesExact'
<1>1. /\ batch'[i] = {} /\ SeqsOf(batch'[i]) = {}
      /\ \A j \in Invs \ {i} : batch'[j] = batch[j]
  BY NoRecords DEF TypeOK
<1>2. \A s \in Seqs : s \in LeftBuffer' <=>
        s \in settled' \/ \E j \in Invs : s \in SeqsOf(batch'[j])
  BY <1>1 DEF PlacesExact
<1>3. \A j \in Invs : settled' \cap SeqsOf(batch'[j]) = {}
  BY <1>1 DEF PlacesExact, Apart
<1>4. Apart(batch')
  BY <1>1 DEF PlacesExact, Apart
<1> QED BY <1>2, <1>3, <1>4 DEF PlacesExact, Apart

(* A step that takes the n oldest of ls, whatever becomes of them.         *)
LEMMA TakeMoves ==
  ASSUME NEW ls \in Seq(Entry), NEW n \in 0 .. Len(ls), NEW b, b = SumLen(ls),
         TypeOK, next_seq' \in 0 .. MaxSeq, Newest(ls, next_seq'),
         next_seq' - Len(ls) = next_seq - Len(logs),
         logs' = Drop(ls, n), bytes' = BytesAfter(ls, b, n)
  PROVE  /\ BytesExact'
         /\ SeqsOf(Records(ls, n)) \in SUBSET Seqs
         /\ SeqsOf(Records(ls, n)) \cap LeftBuffer = {}
         /\ \A s \in Seqs : s \in LeftBuffer' <=>
              s \in LeftBuffer \/ s \in SeqsOf(Records(ls, n))
<1>0. MaxSeq \in Nat /\ next_seq' \in Nat /\ next_seq \in Nat
      /\ Len(ls) \in Nat /\ n \in Nat
  BY BufferAssumption DEF TypeOK
<1>1. /\ BytesAfter(ls, b, n) = SumLen(Drop(ls, n))
      /\ SeqsOf(Records(ls, n)) = next_seq' - Len(ls) .. next_seq' - Len(ls) + n - 1
  BY <1>0, TakeExact
<1>2. BytesExact'
  BY <1>1 DEF BytesExact
<1>3. SeqsOf(Records(ls, n)) \in SUBSET Seqs
  BY RecordsProperties
<1>4. Len(logs') = Len(ls) - n
  BY DropProperties
<1>5. Len(logs) \in Nat
  BY DEF TypeOK
<1> DEFINE F == next_seq - Len(logs)
<1>6. /\ F \in Int
      /\ SeqsOf(Records(ls, n)) = F .. F + n - 1
      /\ LeftBuffer = 0 .. F - 1
  BY <1>0, <1>1, <1>5 DEF LeftBuffer
<1>7. LeftBuffer' = 0 .. F + n - 1
  <2>1. next_seq' - (Len(ls) - n) - 1 = (next_seq' - Len(ls)) + n - 1
    BY <1>0
  <2>2. next_seq' - Len(logs') - 1 = F + n - 1
    BY <1>4, <2>1
  <2> QED BY <2>2 DEF LeftBuffer
<1> HIDE DEF F
<1>8. \A s \in Seqs : s \in Int /\ s >= 0
  BY <1>0 DEF Seqs
<1> QED BY <1>0, <1>2, <1>3, <1>6, <1>7, <1>8

(* One lemma per action: no record changes place unseen.                   *)
LEMMA OfferRecords ==
  ASSUME RInv, NEW i \in Invs, NEW l \in Lens, Offer(i, l)
  PROVE  BytesExact' /\ PlacesExact'
<1> DEFINE e  == [seq |-> next_seq, len |-> l, age |-> 0]
           ls == Append(logs, e)
           b  == bytes + l
           n  == Chunk(ls)
<1>0. TypeOK /\ NewestSuffix /\ QuietCarriesNothing /\ BytesExact /\ PlacesExact
  BY DEF RInv, IInv
<1>1. e \in Entry /\ next_seq' \in 0 .. MaxSeq /\ next_seq' = next_seq + 1
      /\ next_seq \in Nat /\ logs \in Seq(Entry) /\ batch \in [Invs -> SUBSET Record]
  BY <1>0, BufferAssumption DEF TypeOK, Entry, Seqs, Offer
<1>2. /\ ls \in Seq(Entry) /\ Len(ls) = Len(logs) + 1 /\ Len(logs) \in Nat
      /\ \A k \in 1 .. Len(logs) : ls[k] = logs[k]
      /\ ls[Len(logs) + 1] = e
  BY <1>1, AppendProperties
<1>3. b = SumLen(ls)
  <2>1. LenSum(ls) = LenSum(logs) + l
    BY <1>1, EntriesHaveLengths, LenSumAppend
  <2>2. bytes = LenSum(logs) /\ SumLen(ls) = LenSum(ls)
    BY <1>0, SumLenIsLenSum DEF BytesExact
  <2> HIDE DEF ls
  <2> QED BY <2>1, <2>2
<1>4. n \in 0 .. Len(ls)
  <2> HIDE DEF ls
  <2> QED BY <1>2, ChunkProperties
<1>5. batch[i] = {}
  BY <1>0 DEF Offer, QuietCarriesNothing
<1>6. \/ /\ logs' = ls /\ bytes' = b
         /\ UNCHANGED <<batch, settled>>
      \/ /\ logs' = Drop(ls, n) /\ bytes' = BytesAfter(ls, b, n)
         /\ settled' = settled \cup SeqsOf(Records(ls, n))
         /\ batch' = batch
      \/ /\ logs' = Drop(ls, n) /\ bytes' = BytesAfter(ls, b, n)
         /\ batch' = [batch EXCEPT ![i] = Records(ls, n)]
         /\ settled' = settled
  BY DEF Offer
<1>7. Newest(ls, next_seq')
  <2> SUFFICES ASSUME NEW k \in DOMAIN ls
               PROVE  ls[k].seq = next_seq' - Len(ls) + k - 1
    BY DEF Newest
  <2>1. CASE k = Len(logs) + 1
    <3>1. ls[k].seq = next_seq
      BY <2>1, <1>2
    <3> QED BY <3>1, <2>1, <1>1, <1>2
  <2>2. CASE k # Len(logs) + 1
    <3>1. k \in 1 .. Len(logs) /\ k \in DOMAIN logs
      BY <2>2, <1>1, <1>2
    <3>2. logs[k].seq = next_seq - Len(logs) + k - 1
      BY <3>1, <1>0 DEF NewestSuffix
    <3>3. ls[k].seq = logs[k].seq
      BY <3>1, <1>2
    <3> QED BY <3>1, <3>2, <3>3, <1>1, <1>2
  <2> QED BY <2>1, <2>2
<1>8. next_seq' - Len(ls) = next_seq - Len(logs)
  BY <1>1, <1>2
<1> HIDE DEF ls, n, b
<1>9. CASE logs' = ls /\ bytes' = b /\ UNCHANGED <<batch, settled>>
  <2>1. LeftBuffer' = LeftBuffer
    BY <1>8, <1>9 DEF LeftBuffer
  <2> QED BY <1>0, <1>3, <1>9, <2>1, PlacesKept DEF BytesExact
<1>10. ASSUME logs' = Drop(ls, n), bytes' = BytesAfter(ls, b, n)
       PROVE  /\ BytesExact'
              /\ SeqsOf(Records(ls, n)) \in SUBSET Seqs
              /\ SeqsOf(Records(ls, n)) \cap LeftBuffer = {}
              /\ \A s \in Seqs : s \in LeftBuffer' <=>
                   s \in LeftBuffer \/ s \in SeqsOf(Records(ls, n))
  BY <1>0, <1>1, <1>2, <1>3, <1>4, <1>7, <1>8, <1>10, TakeMoves
<1>11. CASE logs' = Drop(ls, n) /\ bytes' = BytesAfter(ls, b, n)
            /\ settled' = settled \cup SeqsOf(Records(ls, n)) /\ batch' = batch
  BY <1>0, <1>10, <1>11, PlacesShed
<1>12. CASE logs' = Drop(ls, n) /\ bytes' = BytesAfter(ls, b, n)
            /\ batch' = [batch EXCEPT ![i] = Records(ls, n)] /\ settled' = settled
  BY <1>0, <1>5, <1>10, <1>12, PlacesTaken
<1> QED BY <1>6, <1>9, <1>11, <1>12

(* A step that takes n entries of the buffer as it is.                     *)
LEMMA TakeFromLogs ==
  ASSUME RInv, NEW n \in 0 .. Len(logs), next_seq' = next_seq,
         logs' = Drop(logs, n), bytes' = BytesAfter(logs, bytes, n)
  PROVE  /\ BytesExact'
         /\ SeqsOf(Records(logs, n)) \in SUBSET Seqs
         /\ SeqsOf(Records(logs, n)) \cap LeftBuffer = {}
         /\ \A s \in Seqs : s \in LeftBuffer' <=>
              s \in LeftBuffer \/ s \in SeqsOf(Records(logs, n))
<1>0. TypeOK /\ NewestSuffix /\ bytes = SumLen(logs)
  BY DEF RInv, IInv, BytesExact
<1>1. logs \in Seq(Entry) /\ next_seq' \in 0 .. MaxSeq /\ Newest(logs, next_seq')
      /\ next_seq' - Len(logs) = next_seq - Len(logs)
  BY <1>0 DEF TypeOK, NewestSuffix, Newest
<1> QED BY <1>0, <1>1, TakeMoves

LEMMA RecordsUntouched ==
  ASSUME RInv, UNCHANGED <<logs, bytes, next_seq, batch, settled>>
  PROVE  BytesExact' /\ PlacesExact'
<1>1. LeftBuffer' = LeftBuffer
  BY DEF LeftBuffer
<1> QED BY <1>1, PlacesKept DEF RInv, BytesExact

LEMMA DrainPassRecords ==
  ASSUME RInv, NEW i \in Invs, batch[i] = {}, NEW bound \in Nat, NEW n,
         DrainPass(i, bound, n), UNCHANGED <<next_seq, settled>>
  PROVE  BytesExact' /\ PlacesExact'
<1>0. TypeOK /\ PlacesExact /\ logs \in Seq(Entry)
  BY DEF RInv, IInv, TypeOK
<1> DEFINE c == ChunkBefore(logs, bound)
<1>1. c \in 0 .. Len(logs)
  BY <1>0, ChunkBeforeProperties
<1>2. \/ /\ logs' = Drop(logs, c) /\ bytes' = BytesAfter(logs, bytes, c)
         /\ batch' = [batch EXCEPT ![i] = Records(logs, c)]
      \/ UNCHANGED <<logs, bytes, batch>>
  BY DEF DrainPass
<1> HIDE DEF c
<1>3. CASE logs' = Drop(logs, c) /\ bytes' = BytesAfter(logs, bytes, c)
           /\ batch' = [batch EXCEPT ![i] = Records(logs, c)]
  <2>1. /\ BytesExact'
        /\ SeqsOf(Records(logs, c)) \in SUBSET Seqs
        /\ SeqsOf(Records(logs, c)) \cap LeftBuffer = {}
        /\ \A s \in Seqs : s \in LeftBuffer' <=>
             s \in LeftBuffer \/ s \in SeqsOf(Records(logs, c))
    BY <1>1, <1>3, TakeFromLogs
  <2> QED BY <1>0, <1>3, <2>1, PlacesTaken
<1>4. CASE UNCHANGED <<logs, bytes, batch>>
  BY <1>4, RecordsUntouched
<1> QED BY <1>2, <1>3, <1>4

LEMMA FinishDeliveryRecords ==
  ASSUME RInv, NEW i \in Invs, FinishDelivery(i)
  PROVE  BytesExact' /\ PlacesExact'
<1>1. batch[i] = {} /\ UNCHANGED <<next_seq, settled>>
  BY DEF FinishDelivery
<1>2. CASE UNCHANGED <<logs, bytes, batch>>
  BY <1>1, <1>2, RecordsUntouched
<1>3. CASE DrainPass(i, boundary[i], SatSub(in_flight, 1))
  <2>1. boundary[i] \in Nat
    BY BufferAssumption DEF RInv, IInv, TypeOK
  <2> QED BY <1>1, <1>3, <2>1, DrainPassRecords
<1> QED BY <1>2, <1>3 DEF FinishDelivery

LEMMA PollRecords ==
  ASSUME RInv, NEW i \in Invs, Poll(i)
  PROVE  BytesExact' /\ PlacesExact'
<1>0. TypeOK /\ PlacesExact /\ logs \in Seq(Entry) /\ next_seq \in Nat
      /\ Len(logs) \in Nat
  BY BufferAssumption DEF RInv, IInv, TypeOK
<1>1. batch[i] = {} /\ next_seq' = next_seq
  BY DEF Poll, RInv, IInv, QuietCarriesNothing
<1>2. CASE Retire(i)
  <2>1. CASE UNCHANGED <<logs, bytes, batch>>
    BY <1>1, <1>2, <2>1, RecordsUntouched DEF Retire
  <2>2. CASE DrainPass(i, next_seq, in_flight)
    BY <1>0, <1>1, <1>2, <2>2, DrainPassRecords DEF Retire
  <2> QED BY <1>2, <2>1, <2>2 DEF Retire
<1>3. CASE StandDownEmpty(i) \/ SleepAgain(i)
  BY <1>1, <1>3, RecordsUntouched DEF StandDownEmpty, SleepAgain
<1>4. CASE ShedDue(i)
  <2>1. PICK m \in 1 .. Len(logs) :
          /\ logs' = Drop(logs, m) /\ bytes' = BytesAfter(logs, bytes, m)
          /\ settled' = settled \cup SeqsOf(Records(logs, m))
    BY <1>4 DEF ShedDue
  <2>2. batch' = batch /\ m \in 0 .. Len(logs)
    BY <1>0, <1>4 DEF ShedDue
  <2>3. /\ BytesExact'
        /\ SeqsOf(Records(logs, m)) \in SUBSET Seqs
        /\ SeqsOf(Records(logs, m)) \cap LeftBuffer = {}
        /\ \A s \in Seqs : s \in LeftBuffer' <=>
             s \in LeftBuffer \/ s \in SeqsOf(Records(logs, m))
    BY <1>1, <2>1, <2>2, TakeFromLogs
  <2> QED BY <1>0, <2>1, <2>2, <2>3, PlacesShed
<1>5. CASE DeliverDue(i)
  <2> DEFINE n == Chunk(logs)
  <2>1. /\ logs' = Drop(logs, n) /\ bytes' = BytesAfter(logs, bytes, n)
        /\ batch' = [batch EXCEPT ![i] = Records(logs, n)]
        /\ settled' = settled
    BY <1>5 DEF DeliverDue
  <2>2. n \in 0 .. Len(logs)
    BY <1>0, ChunkProperties
  <2> HIDE DEF n
  <2>3. /\ BytesExact'
        /\ SeqsOf(Records(logs, n)) \in SUBSET Seqs
        /\ SeqsOf(Records(logs, n)) \cap LeftBuffer = {}
        /\ \A s \in Seqs : s \in LeftBuffer' <=>
             s \in LeftBuffer \/ s \in SeqsOf(Records(logs, n))
    BY <1>1, <2>1, <2>2, TakeFromLogs
  <2> QED BY <1>0, <1>1, <2>1, <2>3, PlacesTaken
<1> QED BY <1>2, <1>3, <1>4, <1>5 DEF Poll

LEMMA TickRecords ==
  ASSUME RInv, Tick
  PROVE  BytesExact' /\ PlacesExact'
<1>0. logs \in Seq(Entry) /\ logs' \in Seq(Entry)
  <2>1. TypeOK'
    BY TickInv DEF RInv, IInv
  <2> QED BY <2>1 DEF RInv, IInv, TypeOK
<1>1. /\ logs' = [k \in DOMAIN logs |->
                   [logs[k] EXCEPT !.age = IF @ < MAX_AGE THEN @ + 1 ELSE @]]
      /\ UNCHANGED <<bytes, next_seq, batch, settled>>
  BY DEF Tick
<1>2. DOMAIN logs' = DOMAIN logs /\ Len(logs') = Len(logs)
  <2>1. DOMAIN logs' = DOMAIN logs
    BY <1>1
  <2> QED BY <1>0, <2>1
<1>3. \A k \in 1 .. Len(logs) : logs'[k].len = logs[k].len
  <2> TAKE k \in 1 .. Len(logs)
  <2>1. k \in DOMAIN logs /\ logs[k] \in Entry
    BY <1>0
  <2>2. logs'[k] = [logs[k] EXCEPT !.age = IF @ < MAX_AGE THEN @ + 1 ELSE @]
    BY <1>1, <2>1
  <2> QED BY <2>1, <2>2 DEF Entry
<1>4. LenSum(logs') = LenSum(logs)
  BY <1>0, <1>2, <1>3, EntriesHaveLengths, LenSumSame
<1>5. BytesExact'
  BY <1>1, <1>4, SumLenIsLenSum DEF RInv, BytesExact
<1>6. LeftBuffer' = LeftBuffer
  BY <1>1, <1>2 DEF LeftBuffer
<1> QED BY <1>1, <1>5, <1>6, PlacesKept DEF RInv

LEMMA InitRecords == Init => RInv
<1> SUFFICES ASSUME Init PROVE RInv
  OBVIOUS
<1>1. BytesExact
  BY SumLenIsLenSum, LenSumEmpty DEF Init, BytesExact
<1>2. LeftBuffer = {}
  <2>1. Len(logs) = 0 /\ next_seq = 0
    BY DEF Init
  <2> QED BY <2>1 DEF LeftBuffer
<1>3. PlacesExact
  BY <1>2, NoRecords DEF Init, PlacesExact, Apart
<1> QED BY <1>1, <1>3, InitInv DEF RInv

LEMMA NextRecords == RInv /\ [Next]_vars => RInv'
<1> SUFFICES ASSUME RInv, [Next]_vars PROVE RInv'
  OBVIOUS
<1>1. IInv'
  BY NextInv DEF RInv
<1>2. BytesExact' /\ PlacesExact'
  <2>1. ASSUME NEW i \in Invs, Request(i)
        PROVE  BytesExact' /\ PlacesExact'
    BY <2>1, OfferRecords, RecordsUntouched DEF Request, OfferNothing
  <2>2. ASSUME NEW i \in Invs, Begin(i)
        PROVE  BytesExact' /\ PlacesExact'
    BY <2>2, RecordsUntouched DEF Begin
  <2>3. ASSUME NEW i \in Invs, Deliver(i) \/ Cancel(i)
        PROVE  BytesExact' /\ PlacesExact'
    <3>1. /\ batch' = [batch EXCEPT ![i] = {}]
          /\ settled' = settled \cup SeqsOf(batch[i])
          /\ UNCHANGED <<logs, bytes, next_seq>>
      BY <2>3 DEF Deliver, Cancel
    <3>2. LeftBuffer' = LeftBuffer
      BY <3>1 DEF LeftBuffer
    <3> QED BY <3>1, <3>2, PlacesSettled DEF RInv, IInv, BytesExact
  <2>4. ASSUME NEW i \in Invs, FinishDelivery(i)
        PROVE  BytesExact' /\ PlacesExact'
    BY <2>4, FinishDeliveryRecords
  <2>5. ASSUME NEW i \in Invs, Poll(i)
        PROVE  BytesExact' /\ PlacesExact'
    BY <2>5, PollRecords
  <2>6. CASE Tick
    BY <2>6, TickRecords
  <2>7. CASE UNCHANGED vars
    BY <2>7, RecordsUntouched DEF vars
  <2> QED BY <2>1, <2>2, <2>3, <2>4, <2>5, <2>6, <2>7 DEF Next, Run
<1> QED BY <1>1, <1>2 DEF RInv

LEMMA RecordsInvariance == Spec => []RInv
BY InitRecords, NextRecords, PTL DEF Spec

(* The carriers of a record are counted: none, or one.                     *)
LEMMA OnePlace == RInv => ExactlyOnePlace
<1> SUFFICES ASSUME RInv, NEW s \in Seqs
    PROVE  (IF Buffered(s) THEN 1 ELSE 0) + Cardinality(Carriers(s))
             + (IF s \in settled THEN 1 ELSE 0) = IF s < next_seq THEN 1 ELSE 0
  BY DEF ExactlyOnePlace
<1>0. TypeOK /\ NewestSuffix /\ PlacesExact /\ next_seq \in Nat /\ s \in Nat
      /\ Len(logs) \in Nat /\ logs \in Seq(Entry)
  BY BufferAssumption DEF RInv, IInv, TypeOK, Seqs
<1>1. Buffered(s) <=> s < next_seq /\ s \notin LeftBuffer
  <2>1. ASSUME Buffered(s) PROVE s < next_seq /\ s \notin LeftBuffer
    <3>1. PICK k \in DOMAIN logs : logs[k].seq = s
      BY <2>1 DEF Buffered
    <3>2. s = next_seq - Len(logs) + k - 1 /\ k \in 1 .. Len(logs)
      BY <1>0, <3>1 DEF NewestSuffix
    <3> QED BY <1>0, <3>2 DEF LeftBuffer
  <2>2. ASSUME s < next_seq, s \notin LeftBuffer PROVE Buffered(s)
    <3>1. s >= next_seq - Len(logs)
      BY <1>0, <2>2 DEF LeftBuffer
    <3>2. s - (next_seq - Len(logs)) + 1 \in 1 .. Len(logs)
      BY <1>0, <2>2, <3>1
    <3>3. PICK k \in 1 .. Len(logs) : k = s - (next_seq - Len(logs)) + 1
      BY <3>2
    <3>4. k \in DOMAIN logs /\ logs[k].seq = next_seq - Len(logs) + k - 1
      BY <1>0, <3>3 DEF NewestSuffix
    <3>5. logs[k].seq = s
      BY <1>0, <3>3, <3>4
    <3> QED BY <3>4, <3>5 DEF Buffered
  <2> QED BY <2>1, <2>2
<1>2. s \in LeftBuffer => s < next_seq
  BY <1>0 DEF LeftBuffer
<1>3. CASE s \notin LeftBuffer
  <2>1. s \notin settled /\ Carriers(s) = {}
    BY <1>0, <1>3 DEF PlacesExact, Carriers
  <2>2. Cardinality(Carriers(s)) = 0
    BY <2>1, FS_EmptySet
  <2> QED BY <1>1, <1>3, <2>1, <2>2
<1>4. CASE s \in LeftBuffer /\ s \in settled
  <2>1. Carriers(s) = {}
    BY <1>0, <1>4 DEF PlacesExact, Carriers
  <2>2. Cardinality(Carriers(s)) = 0
    BY <2>1, FS_EmptySet
  <2> QED BY <1>1, <1>2, <1>4, <2>2
<1>5. CASE s \in LeftBuffer /\ s \notin settled
  <2>1. PICK i \in Invs : s \in SeqsOf(batch[i])
    BY <1>0, <1>5 DEF PlacesExact
  <2>2. Carriers(s) = {i}
    BY <1>0, <2>1, ZenonT(30) DEF PlacesExact, Apart, Carriers
  <2>3. Cardinality(Carriers(s)) = 1
    BY <2>2, FS_Singleton
  <2> QED BY <1>1, <1>2, <1>5, <2>3
<1> QED BY <1>3, <1>4, <1>5

(* The buffer loses, repeats and miscounts no record: the cached byte      *)
(* count is the sum of the buffered lengths, saturating_sub never hides a  *)
(* drift, and every record is in the buffer, in one delivery or settled.   *)
THEOREM RecordsCorrect == Spec => []RecordsExact
<1>1. RInv => RecordsExact
  BY OnePlace DEF RInv, RecordsExact
<1> QED BY <1>1, RecordsInvariance, PTL

=============================================================================
