----------------------------- MODULE BoundedSet -----------------------------
(***************************************************************************)
(* The concurrent sample of schemas that resolve logging keeps per client  *)
(* credential (confidence-resolver/src/bounded_set.rs): a hash set for     *)
(* membership, N slots of leaked Arc pointers for random eviction, and a   *)
(* counter.  `insert` takes no lock: each of its accesses to the set, the  *)
(* counter and a slot is one atomic step, and threads interleave between   *)
(* them.                                                                   *)
(*                                                                         *)
(* A pointer is modelled by the value it points to: the thread or the slot *)
(* that holds it owns one reference of the Arc, the set owns the other.    *)
(***************************************************************************)
EXTENDS Integers, FiniteSets

CONSTANTS
  N,            \* the capacity
  Items,        \* the values inserted
  Threads,      \* threads inside insert
  MaxCount,     \* bound: inserts of new values in one behaviour
  Null          \* a null slot, or no pointer in a thread's hand

ASSUME BoundedSetAssumption ==
  /\ N \in Nat \ {0}
  /\ MaxCount \in Nat
  /\ IsFiniteSet(Threads)
  /\ Null \notin Items

VARIABLES
  set,          \* BoundedSet.set
  slots,        \* BoundedSet.slots
  counter,      \* BoundedSet.counter
  pc,           \* where each thread is in insert
  hand,         \* the pointer a thread owns and has to place or to free
  idx           \* slot_idx

vars == <<set, slots, counter, pc, hand, idx>>

Slots == 0 .. N - 1

(***************************************************************************)
(* "inserted"  the value is in the set, the counter not yet incremented    *)
(* "filling"   slot_idx is the count the thread drew, below N              *)
(* "sampling"  slot_idx was drawn at random                                *)
(* "evicting"  swapped out an older pointer that is still in the set       *)
(***************************************************************************)
PCs == {"idle", "inserted", "filling", "sampling", "evicting"}

Init ==
  /\ set = {}
  /\ slots = [k \in Slots |-> Null]
  /\ counter = 0
  /\ pc = [t \in Threads |-> "idle"]
  /\ hand = [t \in Threads |-> Null]
  /\ idx = [t \in Threads |-> 0]

\* Mutant: membership is not checked, so a duplicate gets a slot of its own.
Insert_NoDedup(t, x) ==
  /\ pc[t] = "idle" /\ counter < MaxCount
  /\ set' = set \cup {x}
  /\ pc' = [pc EXCEPT ![t] = "inserted"]
  /\ hand' = [hand EXCEPT ![t] = x]
  /\ UNCHANGED <<slots, counter, idx>>

\* guard.insert: a duplicate is freed at once, a new value goes on.
Insert(t, x) ==
  /\ pc[t] = "idle" /\ counter < MaxCount
  /\ \/ x \in set /\ UNCHANGED vars
     \/ /\ x \notin set
        /\ set' = set \cup {x}
        /\ pc' = [pc EXCEPT ![t] = "inserted"]
        /\ hand' = [hand EXCEPT ![t] = x]
        /\ UNCHANGED <<slots, counter, idx>>

\* Mutant: the slots are sampled at random from the start.
PickSlot_NoFilling(t) ==
  /\ pc[t] = "inserted"
  /\ counter' = counter + 1
  /\ \E k \in 0 .. N : idx' = [idx EXCEPT ![t] = k]
  /\ pc' = [pc EXCEPT ![t] = "sampling"]
  /\ UNCHANGED <<set, slots, hand>>

\* Mutant: the random range is one too long.
PickSlot_LongRange(t) ==
  /\ pc[t] = "inserted"
  /\ counter' = counter + 1
  /\ \/ /\ counter < N
        /\ idx' = [idx EXCEPT ![t] = counter]
        /\ pc' = [pc EXCEPT ![t] = "filling"]
     \/ /\ counter >= N
        /\ \E k \in 0 .. N + 1 : idx' = [idx EXCEPT ![t] = k]
        /\ pc' = [pc EXCEPT ![t] = "sampling"]
  /\ UNCHANGED <<set, slots, hand>>

\* counter.fetch_add: the next slot while filling, then a random one, where
\* the index N stands for the new item itself.
PickSlot(t) ==
  /\ pc[t] = "inserted"
  /\ counter' = counter + 1
  /\ \/ /\ counter < N
        /\ idx' = [idx EXCEPT ![t] = counter]
        /\ pc' = [pc EXCEPT ![t] = "filling"]
     \/ /\ counter >= N
        /\ \E k \in 0 .. N : idx' = [idx EXCEPT ![t] = k]
        /\ pc' = [pc EXCEPT ![t] = "sampling"]
  /\ UNCHANGED <<set, slots, hand>>

\* slot.swap: the thread now owns what the slot held.
Place(t) ==
  /\ pc[t] \in {"filling", "sampling"} /\ idx[t] < N
  /\ slots' = [slots EXCEPT ![idx[t]] = hand[t]]
  /\ hand' = [hand EXCEPT ![t] = slots[idx[t]]]
  /\ pc' = [pc EXCEPT ![t] = IF slots[idx[t]] = Null THEN "idle" ELSE "evicting"]
  /\ idx' = [idx EXCEPT ![t] = 0]
  /\ UNCHANGED <<set, counter>>

\* Mutant: the rejected item is freed but stays in the set.
Discard_KeepsMember(t) ==
  /\ pc[t] = "sampling" /\ idx[t] = N
  /\ hand' = [hand EXCEPT ![t] = Null]
  /\ pc' = [pc EXCEPT ![t] = "idle"]
  /\ idx' = [idx EXCEPT ![t] = 0]
  /\ UNCHANGED <<set, slots, counter>>

\* The sample rejects the new item: it leaves the set and is freed.
Discard(t) ==
  /\ pc[t] = "sampling" /\ idx[t] = N
  /\ set' = set \ {hand[t]}
  /\ hand' = [hand EXCEPT ![t] = Null]
  /\ pc' = [pc EXCEPT ![t] = "idle"]
  /\ idx' = [idx EXCEPT ![t] = 0]
  /\ UNCHANGED <<slots, counter>>

\* The item swapped out leaves the set and is freed.
Evict(t) ==
  /\ pc[t] = "evicting"
  /\ set' = set \ {hand[t]}
  /\ hand' = [hand EXCEPT ![t] = Null]
  /\ pc' = [pc EXCEPT ![t] = "idle"]
  /\ UNCHANGED <<slots, counter, idx>>

Next == \E t \in Threads :
          \/ \E x \in Items : Insert(t, x)
          \/ PickSlot(t) \/ Place(t) \/ Discard(t) \/ Evict(t)

Spec == Init /\ [][Next]_vars

-----------------------------------------------------------------------------
\* len: the counter, capped.
Length == IF counter < N THEN counter ELSE N

\* What iter yields, and what Drop frees: the slots before the first null.
Seen == {k \in Slots : \A j \in 0 .. k : slots[j] # Null}

Quiescent == \A t \in Threads : pc[t] = "idle"

(* Every variable keeps its type.                                          *)
TypeOK ==
  /\ set \subseteq Items
  /\ slots \in [Slots -> Items \cup {Null}]
  /\ counter \in Nat
  /\ pc \in [Threads -> PCs]
  /\ hand \in [Threads -> Items \cup {Null}]
  /\ idx \in [Threads -> 0 .. N]

(* Each member of the set has exactly one owner of its raw pointer: a slot *)
(* or a thread in the middle of insert.  So no pointer is freed twice,     *)
(* none is freed while a slot holds it, and remove() never takes out a     *)
(* member that another thread has just put in.                             *)
OneOwner ==
  /\ set = ({slots[k] : k \in Slots} \cup {hand[t] : t \in Threads}) \ {Null}
  /\ \A j, k \in Slots : slots[j] = slots[k] /\ slots[j] # Null => j = k
  /\ \A t, u \in Threads : hand[t] = hand[u] /\ hand[t] # Null => t = u
  /\ \A t \in Threads, k \in Slots : hand[t] = slots[k] => hand[t] = Null

(* The slots stay within the capacity and every pointer has one owner.     *)
OwnersExact == TypeOK /\ OneOwner

(* Between inserts nothing is hidden: iterating up to the first null slot  *)
(* yields the whole set, len() counts it, and so Drop frees everything.    *)
QuiescentExact ==
  Quiescent => /\ {slots[k] : k \in Seen} = set
               /\ Seen = 0 .. Length - 1

(* Who holds what: a thread owns a pointer exactly while it is inside      *)
(* insert, a thread that fills has a slot index, and only after the slots  *)
(* are handed out are they sampled.                                        *)
Hands ==
  \A t \in Threads :
    /\ pc[t] = "idle" <=> hand[t] = Null
    /\ pc[t] = "filling" => idx[t] < N /\ idx[t] < counter
    /\ pc[t] = "sampling" => N <= counter

(* A slot below the counter holds a pointer or is about to be filled by    *)
(* the thread that drew it, and no slot above the counter is in use.       *)
Filled ==
  \A k \in Slots :
    /\ k < counter => \/ slots[k] # Null
                      \/ \E t \in Threads : pc[t] = "filling" /\ idx[t] = k
    /\ slots[k] # Null => k < counter

=============================================================================
