---------------------------- MODULE MemoryProofs ----------------------------
(***************************************************************************)
(* Proofs about what a resolver keeps in memory between requests: the two  *)
(* lock-free structures that resolving threads share, BoundedSet for every *)
(* capacity, set of items and number of threads and Telemetry for any      *)
(* number of recording and flushing threads, counters and flushes; and the *)
(* dedup table of a guest, ApplyDedup, for every TTL, capacity, interval   *)
(* and cadence.                                                            *)
(***************************************************************************)
EXTENDS BoundedSet, Telemetry, ApplyDedup, FiniteSetTheorems, TLAPS

(* The schema sample: insert never frees a pointer twice or under a slot,  *)
(* and between inserts the slots show the whole set.  OneOwner is          *)
(* inductive together with the typing and Hands; the quiescent view needs  *)
(* Filled, which tells for every slot below the counter either its pointer *)
(* or the thread that is about to store one.                               *)

IInv == TypeOK /\ Hands /\ OneOwner /\ Filled

LEMMA InitInv == Init => IInv
BY BoundedSetAssumption
DEF Init, IInv, TypeOK, Hands, OneOwner, Filled, Slots, PCs

LEMMA InsertInv == ASSUME IInv, NEW t \in Threads, NEW x \in Items, Insert(t, x)
                   PROVE  IInv'
<1>1. CASE x \in set /\ UNCHANGED vars
  BY <1>1 DEF IInv, TypeOK, Hands, OneOwner, Filled, vars
<1>2. CASE x \notin set
  <2> USE <1>2, BoundedSetAssumption
  <2>1. /\ set' = set \cup {x} /\ pc[t] = "idle" /\ hand[t] = Null
        /\ pc' = [pc EXCEPT ![t] = "inserted"]
        /\ hand' = [hand EXCEPT ![t] = x]
        /\ UNCHANGED <<slots, counter, idx>> /\ x # Null
    BY DEF Insert, vars, IInv, Hands
  <2>2. TypeOK'
    BY <2>1 DEF IInv, TypeOK, PCs
  <2>3. Hands'
    BY <2>1 DEF IInv, TypeOK, Hands, PCs
  <2>4. OneOwner'
    BY <2>1 DEF IInv, TypeOK, OneOwner
  <2>5. Filled'
    BY <2>1 DEF IInv, TypeOK, Filled
  <2> QED BY <2>2, <2>3, <2>4, <2>5 DEF IInv
<1> QED BY <1>1, <1>2 DEF Insert

LEMMA PickSlotInv == ASSUME IInv, NEW t \in Threads, PickSlot(t) PROVE IInv'
<1> USE BoundedSetAssumption
<1>1. /\ pc[t] = "inserted" /\ counter' = counter + 1 /\ counter \in Nat
      /\ UNCHANGED <<set, slots, hand>>
  BY DEF PickSlot, IInv, TypeOK
<1>2. OneOwner'
  BY <1>1 DEF IInv, OneOwner
<1>3. CASE counter < N /\ idx' = [idx EXCEPT ![t] = counter]
                       /\ pc' = [pc EXCEPT ![t] = "filling"]
  <2>1. TypeOK'
    BY <1>1, <1>3 DEF IInv, TypeOK, PCs
  <2>2. Hands'
    BY <1>1, <1>3 DEF IInv, TypeOK, Hands, PCs
  <2>3. ASSUME NEW k \in Slots, k < counter', slots[k] = Null
        PROVE  \E u \in Threads : pc'[u] = "filling" /\ idx'[u] = k
    <3>1. CASE k < counter
      <4>1. PICK u \in Threads : pc[u] = "filling" /\ idx[u] = k
        BY <2>3, <3>1 DEF IInv, Filled
      <4> QED BY <1>1, <1>3, <4>1 DEF IInv, TypeOK
    <3>2. CASE k = counter
      BY <1>1, <1>3, <3>2 DEF IInv, TypeOK
    <3> QED BY <1>1, <2>3, <3>1, <3>2 DEF Slots
  <2>4. Filled'
    BY <1>1, <2>3 DEF IInv, Filled, Slots
  <2> QED BY <1>2, <2>1, <2>2, <2>4 DEF IInv
<1>4. CASE counter >= N /\ (\E k \in 0 .. N : idx' = [idx EXCEPT ![t] = k])
                        /\ pc' = [pc EXCEPT ![t] = "sampling"]
  <2>1. TypeOK'
    BY <1>1, <1>4 DEF IInv, TypeOK, PCs
  <2>2. Hands'
    BY <1>1, <1>4 DEF IInv, TypeOK, Hands, PCs
  <2>3. ASSUME NEW k \in Slots, slots[k] = Null
        PROVE  \E u \in Threads : pc'[u] = "filling" /\ idx'[u] = k
    <3>1. PICK u \in Threads : pc[u] = "filling" /\ idx[u] = k
      BY <1>1, <1>4, <2>3 DEF IInv, Filled, Slots
    <3> QED BY <1>1, <1>4, <3>1 DEF IInv, TypeOK
  <2>4. Filled'
    BY <1>1, <2>3 DEF IInv, Filled, Slots
  <2> QED BY <1>2, <2>1, <2>2, <2>4 DEF IInv
<1> QED BY <1>3, <1>4 DEF PickSlot

LEMMA PlaceInv == ASSUME IInv, NEW t \in Threads, Place(t) PROVE IInv'
<1> USE BoundedSetAssumption
<1> DEFINE k == idx[t]
<1>1. /\ pc[t] \in {"filling", "sampling"} /\ k \in Slots /\ hand[t] # Null
      /\ slots' = [slots EXCEPT ![k] = hand[t]]
      /\ hand' = [hand EXCEPT ![t] = slots[k]]
      /\ pc' = [pc EXCEPT ![t] = IF slots[k] = Null THEN "idle" ELSE "evicting"]
      /\ idx' = [idx EXCEPT ![t] = 0] /\ UNCHANGED <<set, counter>>
  BY DEF Place, IInv, TypeOK, Hands, Slots
<1>2. TypeOK'
  BY <1>1 DEF IInv, TypeOK, PCs
<1>3. Hands'
  BY <1>1 DEF IInv, TypeOK, Hands, PCs
<1>4. OneOwner'
  <2>1. ASSUME NEW i \in Slots, NEW j \in Slots, slots'[i] = slots'[j], slots'[i] # Null
        PROVE  i = j
    BY <1>1, <2>1 DEF IInv, TypeOK, OneOwner
  <2>2. ASSUME NEW u \in Threads, NEW v \in Threads, hand'[u] = hand'[v], hand'[u] # Null
        PROVE  u = v
    BY <1>1, <2>2 DEF IInv, TypeOK, OneOwner
  <2>3. ASSUME NEW u \in Threads, NEW j \in Slots, hand'[u] = slots'[j]
        PROVE  hand'[u] = Null
    BY <1>1, <2>3 DEF IInv, TypeOK, OneOwner
  <2>4. {slots'[j] : j \in Slots} \cup {hand'[u] : u \in Threads}
          = {slots[j] : j \in Slots} \cup {hand[u] : u \in Threads}
    BY <1>1 DEF IInv, TypeOK
  <2> QED BY <1>1, <2>1, <2>2, <2>3, <2>4 DEF IInv, OneOwner
<1>5. Filled'
  <2>1. ASSUME NEW j \in Slots, j < counter, slots'[j] = Null
        PROVE  \E u \in Threads : pc'[u] = "filling" /\ idx'[u] = j
    <3>1. j # k /\ slots[j] = Null
      BY <1>1, <2>1 DEF IInv, TypeOK
    <3>2. PICK u \in Threads : pc[u] = "filling" /\ idx[u] = j
      BY <2>1, <3>1 DEF IInv, Filled
    <3> QED BY <1>1, <3>1, <3>2 DEF IInv, TypeOK
  <2>2. k < counter
    BY <1>1 DEF IInv, TypeOK, Hands, Slots
  <2> QED BY <1>1, <2>1, <2>2 DEF IInv, TypeOK, Filled
<1> QED BY <1>2, <1>3, <1>4, <1>5 DEF IInv

\* Discard and Evict both free the pointer in the thread's hand.
LEMMA FreeInv == ASSUME IInv, NEW t \in Threads,
                        pc[t] \in {"sampling", "evicting"},
                        set' = set \ {hand[t]},
                        hand' = [hand EXCEPT ![t] = Null],
                        pc' = [pc EXCEPT ![t] = "idle"],
                        idx' \in {idx, [idx EXCEPT ![t] = 0]},
                        UNCHANGED <<slots, counter>>
                 PROVE  IInv'
<1> USE BoundedSetAssumption
<1>1. TypeOK'
  BY DEF IInv, TypeOK, PCs
<1>2. Hands'
  BY DEF IInv, TypeOK, Hands, PCs
<1>3. OneOwner'
  <2>1. hand[t] # Null /\ \A j \in Slots : slots[j] # hand[t]
    BY DEF IInv, Hands, OneOwner
  <2>2. \A u \in Threads : hand[u] = hand[t] => u = t
    BY <2>1 DEF IInv, OneOwner
  <2>3. \A u \in Threads : hand'[u] = IF u = t THEN Null ELSE hand[u]
    BY DEF IInv, TypeOK
  <2>4. set' = ({slots'[j] : j \in Slots} \cup {hand'[u] : u \in Threads}) \ {Null}
    BY <2>1, <2>2, <2>3 DEF IInv, OneOwner
  <2> QED BY <2>3, <2>4 DEF IInv, OneOwner
<1>4. Filled'
  <2>1. ASSUME NEW j \in Slots, j < counter, slots[j] = Null
        PROVE  \E u \in Threads : pc'[u] = "filling" /\ idx'[u] = j
    <3>1. PICK u \in Threads : pc[u] = "filling" /\ idx[u] = j
      BY <2>1 DEF IInv, Filled
    <3> QED BY <3>1 DEF IInv, TypeOK
  <2> QED BY <2>1 DEF IInv, Filled
<1> QED BY <1>1, <1>2, <1>3, <1>4 DEF IInv

LEMMA StepInv == IInv /\ [Next]_vars => IInv'
<1> SUFFICES ASSUME IInv, [Next]_vars PROVE IInv'
  OBVIOUS
<1>1. CASE UNCHANGED vars
  BY <1>1 DEF IInv, TypeOK, Hands, OneOwner, Filled, vars
<1>2. ASSUME NEW t \in Threads, NEW x \in Items, Insert(t, x) PROVE IInv'
  BY <1>2, InsertInv
<1>3. ASSUME NEW t \in Threads, PickSlot(t) PROVE IInv'
  BY <1>3, PickSlotInv
<1>4. ASSUME NEW t \in Threads, Place(t) PROVE IInv'
  BY <1>4, PlaceInv
<1>5. ASSUME NEW t \in Threads, Discard(t) PROVE IInv'
  BY <1>5, FreeInv DEF Discard
<1>6. ASSUME NEW t \in Threads, Evict(t) PROVE IInv'
  BY <1>6, FreeInv DEF Evict
<1> QED BY <1>1, <1>2, <1>3, <1>4, <1>5, <1>6 DEF Next

(* In every reachable state each member of the set is owned by exactly one *)
(* slot or one thread inside insert, for any capacity and thread count.    *)
THEOREM OwnershipCorrect == Spec => []OneOwner
<1>1. IInv => OneOwner
  BY DEF IInv
<1> QED BY InitInv, StepInv, <1>1, PTL DEF Spec

(* The slots stay within the capacity and every pointer has one owner, for *)
(* any capacity and thread count.                                          *)
THEOREM OwnersCorrect == Spec => []OwnersExact
<1>1. IInv => OwnersExact
  BY DEF IInv, OwnersExact
<1> QED BY InitInv, StepInv, <1>1, PTL DEF Spec

(* Whenever no insert is running, iteration and Drop, which stop at the    *)
(* first null slot, reach the whole set, and len() is its size.            *)
THEOREM QuiescentCorrect == Spec => []QuiescentExact
<1>1. IInv => QuiescentExact
  <2> SUFFICES ASSUME IInv, Quiescent
               PROVE  {slots[k] : k \in Seen} = set /\ Seen = 0 .. Length - 1
    BY DEF QuiescentExact
  <2> USE BoundedSetAssumption
  <2>1. \A k \in Slots : slots[k] # Null <=> k < counter
    BY DEF IInv, Filled, Quiescent
  <2>2. Seen = {k \in Slots : k < counter}
    BY <2>1 DEF Seen, Slots, IInv, TypeOK
  <2>3. Seen = 0 .. Length - 1
    BY <2>2 DEF Length, Slots, IInv, TypeOK
  <2>4. set = {slots[k] : k \in Slots} \ {Null}
    BY DEF IInv, OneOwner, Hands, Quiescent
  <2> QED BY <2>1, <2>2, <2>3, <2>4
<1> QED BY InitInv, StepInv, <1>1, PTL DEF Spec

-----------------------------------------------------------------------------
(* The telemetry.  Counters only grow, so every value read from one stays  *)
(* below it (Below); and as long as nobody else swaps during a snapshot,   *)
(* what it has loaded is no older than the baseline it will be compared    *)
(* with (Ahead).                                                           *)

Values == 0 .. U32 - 1

\* What was read of a counter is not above it.
Below ==
  /\ \A c \in Cells : last[c] <= cell[c]
  /\ \A f \in Flushers, c \in Cells : snap[f][c] <= cell[c]

\* A snapshot that nobody overtook is not behind the baseline.
Ahead ==
  \A f \in Flushers :
    /\ f \in overtaken => loaded[f] # {}
    /\ f \notin overtaken => \A c \in loaded[f] : last[c] <= snap[f][c]

TelInv == TelTypeOK /\ Below /\ Ahead /\ ReportedExact /\ PlausibleDelta

-----------------------------------------------------------------------------
LEMMA CellsOf == CountCell \in Cells /\ RateCells \subseteq Cells
BY DEF Cells

\* wrapping_sub: in range, and the plain difference if nothing wraps.
LEMMA WrappingSubOf ==
  ASSUME NEW a \in Values, NEW b \in Values
  PROVE  /\ WrappingSub(a, b) \in Values
         /\ b <= a => WrappingSub(a, b) = a - b
BY TelemetryAssumption DEF WrappingSub, Values

\* The delta of two snapshots, and what it is for the counters that are
\* reported whatever the others did.
LEMMA DeltaOfType ==
  ASSUME NEW now \in [Cells -> Values], NEW before \in [Cells -> Values]
  PROVE  DeltaOf(now, before) \in [Cells -> Values]
<1> DEFINE d == [c \in Cells |-> WrappingSub(now[c], before[c])]
<1>1. \A c \in Cells : d[c] \in Values
  BY WrappingSubOf
<1>2. 0 \in Values
  BY TelemetryAssumption DEF Values
<1> QED BY <1>1, <1>2 DEF DeltaOf

LEMMA DeltaOfExact ==
  ASSUME NEW now \in [Cells -> Values], NEW before \in [Cells -> Values],
         \A c \in Cells : before[c] <= now[c]
  PROVE  /\ \A c \in Cells : DeltaOf(now, before)[c] \in {0, now[c] - before[c]}
         /\ \A c \in RateCells \cup {CountCell} : DeltaOf(now, before)[c] = now[c] - before[c]
<1> DEFINE d == [c \in Cells |-> WrappingSub(now[c], before[c])]
<1>1. \A c \in Cells : d[c] = now[c] - before[c]
  BY WrappingSubOf
<1>2. \A c \in Cells : DeltaOf(now, before)[c] = IF c \in RateCells \/ d[CountCell] > 0 THEN d[c] ELSE 0
  BY DEF DeltaOf
<1>3. d[CountCell] \in Nat
  BY <1>1, CellsOf, TelemetryAssumption DEF Values
<1> HIDE DEF d
<1>4. DeltaOf(now, before)[CountCell] = now[CountCell] - before[CountCell]
  BY <1>1, <1>2, <1>3, CellsOf
<1>5. \A c \in RateCells : DeltaOf(now, before)[c] = now[c] - before[c]
  BY <1>1, <1>2, CellsOf
<1> QED BY <1>1, <1>2, <1>4, <1>5

-----------------------------------------------------------------------------
LEMMA TelInvInit == TelInit => TelInv
<1> SUFFICES ASSUME TelInit PROVE TelInv
  OBVIOUS
<1>1. Nothing \in [Cells -> 0 .. U32 - 1] /\ Nothing \in [Cells -> Nat]
  BY TelemetryAssumption DEF Nothing
<1>2. TelTypeOK
  BY <1>1 DEF TelInit, TelTypeOK
<1>3. Below /\ Ahead
  BY DEF TelInit, Below, Ahead, Nothing
<1>4. ReportedExact /\ PlausibleDelta
  BY CellsOf DEF TelInit, ReportedExact, PlausibleDelta, Nothing
<1> QED BY <1>2, <1>3, <1>4 DEF TelInv

LEMMA RegisterKeeps ==
  ASSUME TelInv, NEW r \in Recorders, NEW v \in Latencies, NEW q \in Reasons, Register(r, v, q)
  PROVE  TelInv'
<1>1. Observation(v, q) \in [Cells -> Nat]
  BY DEF Observation
<1>2. TelTypeOK'
  BY <1>1 DEF TelInv, TelTypeOK, Register
<1> QED BY <1>2 DEF TelInv, Register, Below, Ahead, ReportedExact, PlausibleDelta

LEMMA AddKeeps ==
  ASSUME TelInv, NEW r \in Recorders, NEW k \in Cells, Add(r, k)
  PROVE  TelInv'
<1> USE TelemetryAssumption DEF TelInv
<1>1. /\ cell \in [Cells -> 0 .. U32 - 1] /\ todo \in [Recorders -> [Cells -> Nat]]
      /\ cell' = [cell EXCEPT ![k] = @ + todo[r][k]]
      /\ todo' = [todo EXCEPT ![r][k] = 0]
      /\ cell[k] + todo[r][k] < U32
      /\ UNCHANGED <<loaded, snap, last, delta, reported, overtaken, raced>>
  BY DEF TelTypeOK, Add
<1>2. cell' \in [Cells -> 0 .. U32 - 1] /\ todo' \in [Recorders -> [Cells -> Nat]]
  BY <1>1
<1>3. \A c \in Cells : cell[c] <= cell'[c]
  BY <1>1
<1>4. TelTypeOK'
  BY <1>1, <1>2 DEF TelTypeOK
<1>5. Below'
  BY <1>1, <1>2, <1>3 DEF TelTypeOK, Below
<1>6. PlausibleDelta'
  BY <1>1, <1>2, <1>3 DEF TelTypeOK, PlausibleDelta
<1>7. Ahead' /\ ReportedExact'
  BY <1>1 DEF Ahead, ReportedExact
<1> QED BY <1>4, <1>5, <1>6, <1>7

LEMMA LoadKeeps ==
  ASSUME TelInv, NEW f \in Flushers, NEW k \in Cells, Load(f, k)
  PROVE  TelInv'
<1> USE DEF TelInv
<1>1. /\ loaded \in [Flushers -> SUBSET Cells] /\ snap \in [Flushers -> [Cells -> 0 .. U32 - 1]]
      /\ cell \in [Cells -> 0 .. U32 - 1]
      /\ loaded' = [loaded EXCEPT ![f] = @ \cup {k}]
      /\ snap' = [snap EXCEPT ![f][k] = cell[k]]
      /\ UNCHANGED <<cell, todo, last, delta, reported, overtaken, raced>>
  BY DEF TelTypeOK, Load
<1>2. TelTypeOK'
  BY <1>1 DEF TelTypeOK
<1>3. Below'
  BY <1>1, TelemetryAssumption DEF Below
<1>4. Ahead'
  <2> SUFFICES ASSUME NEW g \in Flushers
               PROVE  /\ g \in overtaken => loaded'[g] # {}
                      /\ g \notin overtaken => \A c \in loaded'[g] : last[c] <= snap'[g][c]
    BY <1>1 DEF Ahead
  <2>1. CASE g = f
    <3>1. loaded'[g] = loaded[g] \cup {k}
      BY <1>1, <2>1
    <3>2. \A c \in loaded'[g] : snap'[g][c] = IF c = k THEN cell[c] ELSE snap[g][c]
      BY <1>1, <2>1, <3>1
    <3> QED BY <3>1, <3>2 DEF Ahead, Below
  <2>2. CASE g # f
    BY <1>1, <2>2 DEF Ahead
  <2> QED BY <2>1, <2>2
<1>5. ReportedExact' /\ PlausibleDelta'
  BY <1>1 DEF ReportedExact, PlausibleDelta
<1> QED BY <1>2, <1>3, <1>4, <1>5

LEMMA SwapKeeps ==
  ASSUME TelInv, NEW f \in Flushers, Swap(f)
  PROVE  TelInv'
<1> USE DEF TelInv
<1> DEFINE D == DeltaOf(snap[f], last)
<1>1. /\ loaded[f] = Cells
      /\ delta' = D /\ last' = snap[f]
      /\ reported' = [c \in Cells |-> reported[c] + D[c]]
      /\ loaded' = [loaded EXCEPT ![f] = {}]
      /\ overtaken' = (overtaken \ {f}) \cup {g \in Flushers \ {f} : loaded[g] # {}}
      /\ raced' = (raced \/ f \in overtaken)
      /\ snap' = [snap EXCEPT ![f] = Nothing]
      /\ UNCHANGED <<cell, todo>>
  BY DEF Swap
<1>2. snap[f] \in [Cells -> Values] /\ last \in [Cells -> Values] /\ cell \in [Cells -> Values]
  BY DEF TelTypeOK, Values
<1>3. D \in [Cells -> Values]
  BY <1>2, DeltaOfType
<1>4. Nothing \in [Cells -> Values]
  BY TelemetryAssumption DEF Nothing, Values
<1> HIDE DEF D
<1>5. TelTypeOK'
  <2>1. delta' \in [Cells -> 0 .. U32 - 1] /\ last' \in [Cells -> 0 .. U32 - 1]
    BY <1>1, <1>2, <1>3 DEF Values
  <2>2. reported' \in [Cells -> Nat]
    BY <1>1, <1>3 DEF TelTypeOK, Values
  <2>3. snap' \in [Flushers -> [Cells -> 0 .. U32 - 1]]
    BY <1>1, <1>4 DEF TelTypeOK, Values
  <2>4. loaded' \in [Flushers -> SUBSET Cells] /\ overtaken' \subseteq Flushers
    BY <1>1 DEF TelTypeOK
  <2>5. raced' \in BOOLEAN
    BY <1>1 DEF TelTypeOK
  <2> QED BY <1>1, <2>1, <2>2, <2>3, <2>4, <2>5 DEF TelTypeOK
<1>6. Below'
  <2>1. \A c \in Cells : last'[c] <= cell'[c]
    BY <1>1 DEF Below
  <2>2. \A g \in Flushers, c \in Cells : snap'[g][c] <= cell'[c]
    BY <1>1, <1>2 DEF Below, Nothing, Values, TelTypeOK
  <2> QED BY <2>1, <2>2 DEF Below
<1>7. Ahead'
  <2> SUFFICES ASSUME NEW g \in Flushers
               PROVE  /\ g \in overtaken' => loaded'[g] # {}
                      /\ g \notin overtaken' => loaded'[g] = {}
    BY DEF Ahead
  <2>1. CASE g = f
    BY <1>1, <2>1 DEF TelTypeOK
  <2>2. CASE g # f
    BY <1>1, <2>2 DEF Ahead, TelTypeOK
  <2> QED BY <2>1, <2>2
<1>8. ReportedExact' /\ PlausibleDelta'
  <2> SUFFICES ASSUME ~raced'
               PROVE  /\ \A c \in RateCells \cup {CountCell} : reported'[c] = last'[c]
                      /\ \A c \in Cells : delta'[c] <= cell'[c]
    BY DEF ReportedExact, PlausibleDelta
  <2>1. ~raced /\ f \notin overtaken
    BY <1>1
  <2>2. \A c \in Cells : last[c] <= snap[f][c]
    BY <1>1, <2>1 DEF Ahead
  <2>3. /\ \A c \in Cells : D[c] \in {0, snap[f][c] - last[c]}
        /\ \A c \in RateCells \cup {CountCell} : D[c] = snap[f][c] - last[c]
    BY <1>2, <2>2, DeltaOfExact DEF D
  <2>4. \A c \in RateCells \cup {CountCell} : reported'[c] = last'[c]
    <3> SUFFICES ASSUME NEW c \in RateCells \cup {CountCell} PROVE reported'[c] = last'[c]
      OBVIOUS
    <3>1. c \in Cells /\ reported[c] = last[c]
      BY <2>1, CellsOf DEF ReportedExact
    <3> QED BY <1>1, <1>2, <2>3, <3>1 DEF Values
  <2>5. \A c \in Cells : delta'[c] <= cell'[c]
    BY <1>1, <1>2, <2>3, TelemetryAssumption DEF Below, Values
  <2> QED BY <2>4, <2>5
<1> QED BY <1>5, <1>6, <1>7, <1>8

LEMMA TelInvStep == TelInv /\ [TelNext]_telVars => TelInv'
<1> SUFFICES ASSUME TelInv, [TelNext]_telVars PROVE TelInv'
  OBVIOUS
<1>1. CASE UNCHANGED telVars
  BY <1>1 DEF telVars, TelInv, TelTypeOK, Below, Ahead, ReportedExact, PlausibleDelta
<1> QED BY <1>1, RegisterKeeps, AddKeeps, LoadKeeps, SwapKeeps DEF TelNext

LEMMA TelInvAlways == TelSpec => []TelInv
BY TelInvInit, TelInvStep, PTL DEF TelSpec

(* Every variable keeps its type: a delta fits into the 32 bits it is sent *)
(* in, whatever two overlapping flushes subtract.                          *)
THEOREM TelTypeCorrect == TelSpec => []TelTypeOK
BY TelInvAlways, PTL DEF TelInv

(* delta_snapshot: as long as no two snapshots overlapped, the deltas add  *)
(* up to what the last flush saw.                                          *)
THEOREM ReportedExactly == TelSpec => []ReportedExact
BY TelInvAlways, PTL DEF TelInv

(* delta_snapshot: as long as no two snapshots overlapped, no delta is     *)
(* larger than what was counted: the subtraction never wraps.              *)
THEOREM DeltasPlausible == TelSpec => []PlausibleDelta
BY TelInvAlways, PTL DEF TelInv

(* What the deltas report is what was counted, for any number of threads,  *)
(* flushes and counters.                                                   *)
THEOREM DeltasCorrect == TelSpec => []DeltasExact
BY TelTypeCorrect, ReportedExactly, DeltasPlausible, PTL DEF DeltasExact

-----------------------------------------------------------------------------
(* The dedup table.  Its dates are held together by two facts: the last    *)
(* sweep is never far behind the clock (Swept), and what survives a sweep  *)
(* is younger than the TTL by its stamp (Entries), which the clamp ties to *)
(* the date the identity was logged.  Rows is about the counters alone.    *)

\* What the proofs need of the types.
Dates ==
  /\ seen \in [Hashes -> Int]
  /\ logged \in [Hashes -> Int]
  /\ last_sweep \in Nat /\ clock \in Nat /\ flushed \in Nat
  /\ START <= flushed /\ flushed <= clock /\ clock <= flushed + CADENCE

\* Before the first flush nothing was swept; after it no flush is further
\* than the interval from a sweep.
Swept ==
  \/ last_sweep = 0 /\ flushed = START
  \/ START <= last_sweep /\ last_sweep <= flushed /\ flushed - last_sweep < INTERVAL

\* What an entry in the map says of its identity.
Entry(h) ==
  /\ logged[h] # Absent
  /\ START <= logged[h] /\ logged[h] <= clock
  /\ seen[h] <= logged[h] + AHEAD
  /\ last_sweep # 0 => last_sweep - seen[h] < TTL
  /\ logged[h] > START + CADENCE => seen[h] > logged[h] - INTERVAL - CADENCE

Entries == \A h \in Hashes : seen[h] # Absent => Entry(h)

DatesInv == Dates /\ Swept /\ Entries

LEMMA DatesInit == DedupInit => DatesInv
BY DedupAssumption DEF DedupInit, DatesInv, Dates, Swept, Entries, Entry, Absent

\* A sweep, taken or throttled, at the moment of a flush.
LEMMA SweepKeepsDates ==
  ASSUME DatesInv, Sweep, flushed' = clock, clock' = clock, logged' = logged
  PROVE  DatesInv'
<1> USE DedupAssumption DEF DatesInv
<1>1. CASE clock - last_sweep < INTERVAL
  <2>1. UNCHANGED <<seen, last_sweep>>
    BY <1>1 DEF Sweep, Dates
  <2>2. Dates' /\ Swept'
    BY <2>1, <1>1 DEF Dates, Swept
  <2>3. Entries'
    BY <2>1 DEF Entries, Entry, Dates
  <2> QED BY <2>2, <2>3
<1>2. CASE clock - last_sweep >= INTERVAL
  <2>1. /\ last_sweep' = clock
        /\ seen' = [h \in Hashes |->
                     IF seen[h] # Absent /\ Expired(seen[h]) THEN Absent ELSE seen[h]]
    BY <1>2 DEF Sweep, Dates
  <2>2. Dates' /\ Swept'
    BY <2>1 DEF Dates, Swept, Absent
  <2>3. ASSUME NEW h \in Hashes, seen'[h] # Absent
        PROVE  Entry(h)'
    <3>1. seen'[h] = seen[h] /\ seen[h] # Absent /\ ~Expired(seen[h])
      BY <2>1, <2>3 DEF Absent
    <3>2. Entry(h)
      BY <3>1 DEF Entries
    <3> QED BY <2>1, <3>1, <3>2 DEF Entry, Expired, Dates
  <2> QED BY <2>2, <2>3 DEF Entries
<1> QED BY <1>1, <1>2 DEF Dates

LEMMA DatesStep == DatesInv /\ [DedupNext]_dedupVars => DatesInv'
<1> SUFFICES ASSUME DatesInv, [DedupNext]_dedupVars PROVE DatesInv'
  OBVIOUS
<1> USE DedupAssumption DEF DatesInv
<1>1. CASE \E on \in BOOLEAN : SetResolverState(on)
  BY <1>1 DEF SetResolverState, Dates, Swept, Entries, Entry
<1>2. ASSUME NEW h \in Hashes, NEW applied \in clock - BEHIND .. clock + AHEAD,
             Apply(h, applied)
      PROVE  DatesInv'
  <2>0. UNCHANGED <<last_sweep, clock, flushed>>
    BY <1>2 DEF Apply
  <2>1. CASE seen' = seen /\ logged' = logged
    BY <2>0, <2>1 DEF Dates, Swept, Entries, Entry
  <2>2. CASE /\ seen[h] = Absent
             /\ seen' = [seen EXCEPT ![h] = Stamp(applied)]
             /\ logged' = [logged EXCEPT ![h] = clock]
    <3>1. /\ Stamp(applied) \in Int
          /\ Stamp(applied) <= clock + AHEAD
          /\ last_sweep <= Stamp(applied)
      BY DEF Stamp, Later, Dates, Swept
    <3>2. Dates' /\ Swept'
      BY <2>0, <2>2, <3>1 DEF Dates, Swept
    <3>3. Entry(h)'
      BY <2>0, <2>2, <3>1 DEF Entry, Dates, Swept, Absent
    <3>4. ASSUME NEW k \in Hashes \ {h}, seen'[k] # Absent PROVE Entry(k)'
      BY <2>0, <2>2, <3>4 DEF Entries, Entry, Dates
    <3> QED BY <3>2, <3>3, <3>4 DEF Entries
  <2>3. CASE /\ seen[h] = Absent
             /\ seen' = seen
             /\ logged' = [logged EXCEPT ![h] = clock]
    BY <2>0, <2>3 DEF Dates, Swept, Entries, Entry
  <2> QED BY <1>2, <2>1, <2>2, <2>3 DEF Apply
<1>3. CASE FlushAssign
  BY <1>3, SweepKeepsDates DEF FlushAssign
<1>4. CASE FlushLogs
  BY <1>4, SweepKeepsDates DEF FlushLogs
<1>5. CASE Tick
  BY <1>5 DEF Tick, Dates, Swept, Entries, Entry
<1>6. CASE UNCHANGED dedupVars
  BY <1>6 DEF dedupVars, Dates, Swept, Entries, Entry
<1> QED BY <1>1, <1>2, <1>3, <1>4, <1>5, <1>6 DEF DedupNext

LEMMA DatesAlways == DedupSpec => []DatesInv
BY DatesInit, DatesStep, PTL DEF DedupSpec

(* What check_hash and filter_duplicates suppress was logged, and is       *)
(* suppressed no longer than the TTL, a sweep gap and the clock skew.      *)
THEOREM SuppressionCorrect == DedupSpec => []SuppressionBounded
<1>1. DatesInv => SuppressionBounded
  BY DedupAssumption
  DEF DatesInv, Dates, Swept, Entries, Entry, SuppressionBounded, Absent
<1> QED BY <1>1, DatesAlways, PTL

(* sweep never forgets an identity sooner than the TTL less a sweep gap.   *)
THEOREM RememberingCorrect == DedupSpec => RememberedLongEnough
<1> DEFINE Kept == \A h \in Hashes :
        seen[h] # Absent /\ seen'[h] = Absent /\ logged[h] > START + CADENCE
          => clock - logged[h] > TTL - INTERVAL - CADENCE
<1>1. DatesInv /\ [DedupNext]_dedupVars => [Kept]_dedupVars
  <2> SUFFICES ASSUME DatesInv, DedupNext, NEW h \in Hashes,
                      seen[h] # Absent, seen'[h] = Absent, logged[h] > START + CADENCE
               PROVE  clock - logged[h] > TTL - INTERVAL - CADENCE
    OBVIOUS
  <2>1. Sweep
    <3>1. CASE \E k \in Hashes, applied \in clock - BEHIND .. clock + AHEAD : Apply(k, applied)
      BY <3>1 DEF Apply, DatesInv, Dates
    <3> QED BY <3>1 DEF DedupNext, SetResolverState, FlushAssign, FlushLogs, Tick
  <2>2. Expired(seen[h])
    BY <2>1 DEF Sweep
  <2> QED BY <2>2, DedupAssumption DEF Expired, DatesInv, Dates, Entries, Entry
<1> QED BY <1>1, DatesAlways, PTL DEF DedupSpec, RememberedLongEnough

-----------------------------------------------------------------------------
\* The counters only grow, and the baseline is an earlier value of them.
Rows ==
  /\ count \in [Counters -> Nat]
  /\ baseline.counters \in [Counters -> Nat]
  /\ summed \in [Counters -> Nat]
  /\ \A c \in Counters : baseline.counters[c] <= count[c]

RowsInv == Rows /\ ReportedInFull

LEMMA SweepCounts ==
  ASSUME Rows, Sweep
  PROVE  count' \in [Counters -> Nat] /\ \A c \in Counters : count[c] <= count'[c]
BY DEF Rows, Sweep, Counters

LEMMA RowsStep == RowsInv /\ [DedupNext]_dedupVars => RowsInv'
<1> SUFFICES ASSUME RowsInv, [DedupNext]_dedupVars PROVE RowsInv'
  OBVIOUS
<1> USE DedupAssumption DEF RowsInv
<1>1. CASE \E on \in BOOLEAN : SetResolverState(on)
  BY <1>1 DEF SetResolverState, Rows, ReportedInFull
<1>2. CASE \E h \in Hashes, applied \in clock - BEHIND .. clock + AHEAD : Apply(h, applied)
  BY <1>2 DEF Apply, Rows, ReportedInFull, Counters
<1>3. CASE FlushAssign
  BY <1>3, SweepCounts DEF FlushAssign, Rows, ReportedInFull
<1>4. CASE FlushLogs
  <2>1. /\ count' \in [Counters -> Nat]
        /\ \A c \in Counters : count[c] <= count'[c]
    BY <1>4, SweepCounts DEF FlushLogs
  <2>2. CASE UNCHANGED <<baseline, summed>>
    BY <2>1, <2>2 DEF Rows, ReportedInFull
  <2>3. CASE /\ baseline' = [counters |-> count', size |-> Size(seen')]
             /\ summed' = [c \in Counters |-> summed[c] + Delta[c]]
    <3>1. ASSUME NEW c \in Counters
          PROVE  /\ summed'[c] \in Nat
                 /\ \/ summed'[c] = count'[c]
                    \/ summed'[c] < count'[c] /\ summed'[c] >= U32_MAX
      <4>1. baseline.counters[c] \in Nat /\ baseline.counters[c] <= count'[c] /\ count'[c] \in Nat
        BY <2>1 DEF Rows
      <4>2. summed'[c] = summed[c] + Narrow(count'[c] - baseline.counters[c])
        BY <2>3 DEF Delta
      <4>3. summed[c] \in Nat
        BY DEF Rows
      <4> QED BY <4>1, <4>2, <4>3 DEF Narrow, ReportedInFull
    <3>2. summed' \in [Counters -> Nat]
      BY <3>1, <2>3
    <3>3. baseline'.counters \in [Counters -> Nat]
      BY <2>1, <2>3
    <3> QED BY <2>1, <2>3, <3>1, <3>2, <3>3 DEF Rows, ReportedInFull
  <2> QED BY <1>4, <2>2, <2>3 DEF FlushLogs, Report
<1>5. CASE Tick
  BY <1>5 DEF Tick, Rows, ReportedInFull
<1>6. CASE UNCHANGED dedupVars
  BY <1>6 DEF dedupVars, Rows, ReportedInFull
<1> QED BY <1>1, <1>2, <1>3, <1>4, <1>5, <1>6 DEF DedupNext

(* The deltas bounded_flush_logs attaches add up to the counters, or show  *)
(* a saturated field.                                                      *)
THEOREM ReportsComplete == DedupSpec => []ReportedInFull
<1>1. DedupInit => RowsInv
  BY DEF DedupInit, RowsInv, Rows, ReportedInFull, Zero
<1>2. RowsInv => ReportedInFull
  BY DEF RowsInv
<1> QED BY <1>1, <1>2, RowsStep, PTL DEF DedupSpec

-----------------------------------------------------------------------------
\* The room that is left, which the dates and the counters do not depend on.
Room ==
  /\ enabled \in BOOLEAN
  /\ baseline.size \in Nat /\ baseline = [counters |-> baseline.counters, size |-> baseline.size]
  /\ logged \in [Hashes -> Nat \cup {Absent}]
  /\ Size(seen) <= MAX_ENTRIES

LEMMA SizeNat == ASSUME NEW map PROVE IsFiniteSet({h \in Hashes : map[h] # Absent}) /\ Size(map) \in Nat
<1>1. IsFiniteSet({h \in Hashes : map[h] # Absent})
  BY DedupAssumption, FS_Subset
<1> QED BY <1>1, FS_CardinalityType DEF Size

\* A map that keeps no more identities than another is no larger.
LEMMA SizeShrinks ==
  ASSUME NEW map, NEW other, \A h \in Hashes : map[h] # Absent => other[h] # Absent
  PROVE  Size(map) <= Size(other)
<1>1. {h \in Hashes : map[h] # Absent} \subseteq {h \in Hashes : other[h] # Absent}
  OBVIOUS
<1> QED BY <1>1, SizeNat, FS_Subset DEF Size

\* One identity more needs one entry more.
LEMMA SizeGrows ==
  ASSUME NEW map, NEW other, NEW g \in Hashes,
         \A h \in Hashes \ {g} : map[h] = other[h]
  PROVE  Size(map) <= Size(other) + 1
<1> DEFINE Old == {h \in Hashes : other[h] # Absent}
           New == {h \in Hashes : map[h] # Absent}
<1>1. IsFiniteSet(Old) /\ Cardinality(Old) \in Nat
  BY SizeNat DEF Size
<1>2. New \subseteq Old \cup {g}
  OBVIOUS
<1>3. /\ IsFiniteSet(Old \cup {g})
      /\ Cardinality(Old \cup {g}) <= Cardinality(Old) + 1
  BY <1>1, FS_AddElement, SMTT(30)
<1>4. Cardinality(New) <= Cardinality(Old \cup {g})
  BY <1>2, <1>3, FS_Subset
<1>5. Cardinality(New) \in Nat /\ Cardinality(Old \cup {g}) \in Nat
  BY <1>3, SizeNat, FS_CardinalityType DEF Size
<1> QED BY <1>1, <1>3, <1>4, <1>5 DEF Size

MapInv == DatesInv /\ RowsInv /\ Room

LEMMA RoomStep == MapInv /\ [DedupNext]_dedupVars => Room'
<1> SUFFICES ASSUME MapInv, [DedupNext]_dedupVars PROVE Room'
  OBVIOUS
<1> USE DedupAssumption
<1>1. Room /\ Size(seen) \in Nat /\ Size(seen') \in Nat
  BY SizeNat DEF MapInv
<1>2. ASSUME Sweep PROVE Size(seen') <= MAX_ENTRIES
  <2>1. \A h \in Hashes : seen'[h] # Absent => seen[h] # Absent
    BY <1>2 DEF Sweep
  <2>2. Size(seen') <= Size(seen)
    BY <2>1, SizeShrinks
  <2> QED BY <1>1, <2>2 DEF Room
<1>3. CASE \E on \in BOOLEAN : SetResolverState(on)
  BY <1>1, <1>3 DEF SetResolverState, Room, Size
<1>4. ASSUME NEW h \in Hashes, NEW applied \in clock - BEHIND .. clock + AHEAD,
             Apply(h, applied)
      PROVE  Room'
  <2>1. UNCHANGED <<enabled, baseline>>
    BY <1>4 DEF Apply
  <2>2. CASE seen' = seen
    BY <1>1, <1>4, <2>1, <2>2 DEF Apply, Room, Size, MapInv, DatesInv, Dates
  <2>3. CASE Size(seen) < MAX_ENTRIES /\ seen' = [seen EXCEPT ![h] = Stamp(applied)]
    <3>1. \A k \in Hashes \ {h} : seen'[k] = seen[k]
      BY <2>3 DEF MapInv, DatesInv, Dates
    <3>2. Size(seen') <= Size(seen) + 1
      BY <3>1, SizeGrows
    <3>3. logged' \in [Hashes -> Nat \cup {Absent}]
      BY <1>1, <1>4 DEF Apply, Room, MapInv, DatesInv, Dates
    <3> QED BY <1>1, <2>1, <2>3, <3>2, <3>3 DEF Room
  <2> QED BY <1>4, <2>2, <2>3 DEF Apply
<1>5. CASE FlushAssign
  BY <1>1, <1>2, <1>5 DEF FlushAssign, Room
<1>6. CASE FlushLogs
  BY <1>1, <1>2, <1>6 DEF FlushLogs, Report, Room
<1>7. CASE Tick
  BY <1>1, <1>7 DEF Tick, Room, Size
<1>8. CASE UNCHANGED dedupVars
  BY <1>1, <1>8 DEF dedupVars, Room, Size
<1> QED BY <1>3, <1>4, <1>5, <1>6, <1>7, <1>8 DEF DedupNext

(* filter_duplicates keeps the map within its capacity, and what it        *)
(* suppresses was logged lately, for every number of identities.           *)
THEOREM MapCorrect == DedupSpec => []MapSound
<1>1. DedupInit => MapInv
  <2>1. ASSUME DedupInit PROVE Room
    <3>1. {h \in Hashes : seen[h] # Absent} = {}
      BY <2>1 DEF DedupInit
    <3>2. Size(seen) = 0
      BY <3>1, FS_EmptySet DEF Size
    <3>3. logged \in [Hashes -> Nat \cup {Absent}]
      BY <2>1 DEF DedupInit
    <3>4. baseline = [counters |-> Zero, size |-> 0]
      BY <2>1 DEF DedupInit
    <3>5. enabled \in BOOLEAN
      BY <2>1 DEF DedupInit
    <3> QED BY <3>2, <3>3, <3>4, <3>5, DedupAssumption DEF Room
  <2>2. DedupInit => RowsInv
    BY DEF DedupInit, RowsInv, Rows, ReportedInFull, Zero
  <2> QED BY <2>1, <2>2, DatesInit DEF MapInv
<1>2. MapInv /\ [DedupNext]_dedupVars => MapInv'
  BY DatesStep, RowsStep, RoomStep DEF MapInv
<1>3. MapInv => DedupTypeOK
  <2> SUFFICES ASSUME MapInv PROVE DedupTypeOK
    OBVIOUS
  <2>1. logged \in [Hashes -> Nat \cup {Absent}]
    BY DEF MapInv, Room
  <2>2. baseline \in [counters : [Counters -> Nat], size : Nat]
    BY DEF MapInv, Room, RowsInv, Rows
  <2> QED BY <2>1, <2>2 DEF DedupTypeOK, MapInv, DatesInv, Dates, RowsInv, Rows, Room
<1> QED BY <1>1, <1>2, <1>3, SuppressionCorrect, PTL DEF DedupSpec, MapSound

=============================================================================
