------------------------------ MODULE LogSplit ------------------------------
(***************************************************************************)
(* How a batch of log records is cut into requests the backend takes       *)
(* (confidence-cloudflare-resolver/src/flag_log/mod.rs), what is reported  *)
(* of it, and how a record finds a queue shard (shards.rs).                *)
(*                                                                         *)
(* A record is [size, carry, assigned]: its encoded size; the parts that   *)
(* are not assignments, [id, size]; the assignments, each a sequence of    *)
(* applied flags [id, size].  A request is [carry, assigned] where carry   *)
(* is a sequence.  The delivery so far is threaded through as `at`: the    *)
(* number of requests posted, of which number i fails if i is in `fails`;  *)
(* the ids accepted, and whether one was accepted twice; and whether a     *)
(* body was posted that the backend refuses.                               *)
(***************************************************************************)
EXTENDS Integers, Sequences, SequencesExt

CONSTANTS
  PROTO_CHUNK_BYTES,      \* encoded size a chunk of records is cut to
  MEASURED_BACKEND_LIMIT, \* a body of this size is refused
  ENVELOPE                \* what an assignment adds to its flags in JSON

Id       == Nat \X Nat \X Nat
Part     == [id : Id, size : Nat]
Flags    == Seq(Part)
Request  == [carry : Seq(Part), assigned : Seq(Flags)]
Record   == [size : Nat, carry : Part, assigned : Seq(Flags)]
Progress == [posts : Nat, fails : SUBSET Nat, landed : SUBSET Id, twice : BOOLEAN, refused : BOOLEAN]

Delivered(ok, lost) == [ok |-> ok, lost |-> lost]
MergeDelivered(a, b) == Delivered(a.ok + b.ok, a.lost + b.lost)

SizeOf(s) == FoldLeft(LAMBDA n, x : n + x.size, 0, s)
Json(request) ==
  SizeOf(request.carry)
    + FoldLeft(LAMBDA n, flags : n + ENVELOPE + SizeOf(flags), 0, request.assigned)
Fits(request) == Json(request) < MEASURED_BACKEND_LIMIT

IdsOf(parts) == {parts[i].id : i \in DOMAIN parts}
Ids(request) == IdsOf(request.carry) \cup UNION {IdsOf(request.assigned[i]) : i \in DOMAIN request.assigned}

\* aggregate_batch, for what counts here.
Aggregate(records) ==
  LET merged[i \in 0 .. Len(records)] ==
        IF i = 0 THEN [carry |-> << >>, assigned |-> << >>]
        ELSE [carry    |-> IF records[i].carry.size > 0 THEN Append(merged[i - 1].carry, records[i].carry)
                                                        ELSE merged[i - 1].carry,
              assigned |-> merged[i - 1].assigned \o records[i].assigned]
  IN  merged[Len(records)]

\* The walk over the destinations (module Delivery).
Posted(at) == at.posts + 1 \notin at.fails

Post(request, at) ==
  [posts   |-> at.posts + 1,
   fails   |-> at.fails,
   landed  |-> IF Posted(at) THEN at.landed \cup Ids(request) ELSE at.landed,
   twice   |-> at.twice \/ (Posted(at) /\ at.landed \cap Ids(request) # {}),
   refused |-> at.refused \/ ~Fits(request)]

\* Mutant: a half that landed makes the split a success.
split_outcome_AnyOk(any_ok, any_lost, count) == IF any_ok THEN Delivered(count, 0) ELSE Delivered(0, count)

split_outcome(any_ok, any_lost, count) ==
  IF any_ok THEN Delivered(count, IF any_lost THEN count ELSE 0) ELSE Delivered(0, count)

combine_halves(a, b, count) == split_outcome(a.ok > 0 \/ b.ok > 0, a.lost > 0 \/ b.lost > 0, count)

Half(s) == Len(s) \div 2

\* Pieces of one assignment, the first half of each first; the other parts
\* ride on the first that is posted.
SplitFlags ==
  LET split[p \in [flags : Flags, carry : Seq(Part), any_ok : BOOLEAN, any_lost : BOOLEAN, at : Progress]] ==
        LET piece == [carry |-> p.carry, assigned |-> <<p.flags>>]
            k     == Half(p.flags)
            first == split[[p EXCEPT !.flags = SubSeq(p.flags, 1, k)]]
        IN  IF Fits(piece)
            THEN [flags |-> p.flags, carry |-> << >>, any_ok |-> p.any_ok \/ Posted(p.at),
                  any_lost |-> p.any_lost \/ ~Posted(p.at), at |-> Post(piece, p.at)]
            ELSE IF Len(p.flags) <= 1 THEN [p EXCEPT !.any_lost = TRUE]
            ELSE split[[first EXCEPT !.flags = SubSeq(p.flags, k + 1, Len(p.flags))]]
  IN  split

deliver_by_splitting_flags(request, count, at) ==
  LET d == SplitFlags[[flags |-> request.assigned[1], carry |-> request.carry,
                       any_ok |-> FALSE, any_lost |-> FALSE, at |-> at]]
  IN  [out |-> split_outcome(d.any_ok, d.any_lost, count), at |-> d.at]

\* Records of the head when a request of count records is halved.
HeadCount(count) == (count + 1) \div 2

deliver_aggregate ==
  LET cut[t \in [request : Request, count : Nat, at : Progress]] ==
        LET request == t.request
            k    == Half(request.assigned)
            head == [request EXCEPT !.assigned = SubSeq(@, 1, k)]
            tail == [carry |-> << >>, assigned |-> SubSeq(request.assigned, k + 1, Len(request.assigned))]
            one  == t.count < 2
            a == cut[[request |-> head, count |-> IF one THEN t.count ELSE HeadCount(t.count), at |-> t.at]]
            b == cut[[request |-> tail, count |-> IF one THEN t.count ELSE t.count - HeadCount(t.count), at |-> a.at]]
        IN  IF Fits(request)
            THEN [out |-> IF Posted(t.at) THEN Delivered(t.count, 0) ELSE Delivered(0, t.count), at |-> Post(request, t.at)]
            ELSE IF Len(request.assigned) > 1
            THEN [out |-> IF one THEN combine_halves(a.out, b.out, t.count) ELSE MergeDelivered(a.out, b.out), at |-> b.at]
            ELSE IF Len(request.assigned) = 1 /\ Len(request.assigned[1]) > 1
            THEN deliver_by_splitting_flags(request, t.count, t.at)
            ELSE [out |-> Delivered(0, t.count), at |-> t.at]
  IN  cut

deliver_all_within_limit ==
  LET deliver[t \in [records : Seq(Record), at : Progress]] ==
        LET records == t.records
            k == Half(records)
            a == deliver[[records |-> SubSeq(records, 1, k), at |-> t.at]]
            b == deliver[[records |-> SubSeq(records, k + 1, Len(records)), at |-> a.at]]
        IN  IF records = << >> THEN [out |-> Delivered(0, 0), at |-> t.at]
            ELSE IF SizeOf(records) > PROTO_CHUNK_BYTES /\ Len(records) > 1
            THEN [out |-> MergeDelivered(a.out, b.out), at |-> b.at]
            ELSE deliver_aggregate[[request |-> Aggregate(records), count |-> Len(records), at |-> t.at]]
  IN  deliver

-----------------------------------------------------------------------------
\* The bindings: the first one, and numbered ones up to the first gap.
discover(bound) == IF 1 \notin bound THEN 0
                   ELSE CHOOSE n \in bound : 1 .. n \subseteq bound /\ n + 1 \notin bound

\* A sample is k / Denominator.
select_index(len, k, denominator) == IF len = 0 THEN 0 ELSE ((k * len) \div denominator) % len

\* Mutant: the walk does not wrap around.
Walk_NoWrap(len, start) == [o \in 1 .. len - start |-> start + o]

\* The shards (from 1) in the order they are tried.
Walk(len, start) == [o \in 1 .. len |-> ((start + o - 1) % len) + 1]

\* The shard that takes the record, 0 if none does; up is the set that accept.
send_to_any(len, up, k, denominator) ==
  LET tried == Walk(len, select_index(len, k, denominator))
      good  == {i \in DOMAIN tried : tried[i] \in up}
  IN  IF good = {} THEN 0 ELSE tried[CHOOSE i \in good : \A j \in good : i <= j]

=============================================================================
