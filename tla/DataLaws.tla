------------------------------ MODULE DataLaws ------------------------------
(***************************************************************************)
(* What the pure functions on values, states, batches and identities have  *)
(* to satisfy: attribute criteria (Criteria), loaded states and bloom      *)
(* filters (StateLoading), cut batches and queue shards (LogSplit), dedup  *)
(* keys and masks (DedupKey).  A state is one input: Init has none, and    *)
(* each action picks one for one of the laws.  Laws adds the functions on  *)
(* nested contexts.                                                        *)
(***************************************************************************)
EXTENDS Criteria, StateLoading, LogSplit, DedupKey

CONSTANTS
  Attributes, Bounds, PlainRules,  \* criteria
  Shapes, MaxRecords, MaxPosts,    \* records of a batch, and bounds on it
  MaxShards, SAMPLES,              \* shards, and how many values a random sample has
  BloomKeys, MaxMembers,           \* hashes of keys, and how many a filter holds
  MaxHashes, MaxLongs,             \* hashes of a filter, and its length in longs
  States,                          \* published states
  Identities, MaxFlags             \* assigned flags, and how many are deduplicated at once

\* A set rule has a list of values; lists as attributes may hold anything.
ASSUME AttributesAssumption ==
  /\ \A v \in Attributes \cup Bounds : v.k # "list" => v.n \in Int /\ v.s \in Ordered
  /\ \A v \in Attributes : v.k = "number" => IsNumber(v) /\ (v # NaN => NumText(v.n) \in Ordered)
  /\ \A b \in Bounds : b.k \in {"number", "string", "timestamp", "version", "bool"}
  /\ \A r \in PlainRules : r.op = "set" => r.values \in Seq({r.values[i] : i \in DOMAIN r.values})

\* Sizes of what a record holds besides assignments (0 for nothing), and of
\* the flags of its assignments.
ASSUME ShapesAssumption ==
  /\ MaxRecords \in Nat /\ MaxPosts \in Nat
  /\ \A s \in Shapes : s \in [size : Nat, carry : Nat, assigned : Seq(Seq(Nat))]

ASSUME CountsAssumption == MaxShards \in Nat /\ SAMPLES \in Nat \ {0} /\ MaxFlags \in Nat

\* A name of the control plane; the state it publishes has a credential under
\* the name of its client, no secret twice and one bitset for a segment.
Name == Seq(STRING)

Published(pb) ==
  /\ pb.clients \in Seq([name : Name, managed : {pb.clients[i].managed : i \in DOMAIN pb.clients}])
  /\ \A c \in pb.credentials : c.name \in Name /\ c.owner \in Name /\ StartsWith(c.name, c.owner)
  /\ \A c, d \in pb.credentials : c.secret = d.secret => c = d
  /\ \A a, b \in pb.bitsets : a.segment = b.segment => a = b

ASSUME StatesAssumption ==
  /\ \A k \in BloomKeys : k.h1 \in Int /\ k.h2 \in Int
  /\ MaxHashes \in Nat /\ MaxLongs \in Nat
  /\ \A pb \in States : Published(pb)

\* An assignment as the worker makes it: strings of bytes, and any number of
\* rules it fell through.
ByteString == Seq(0 .. BYTE_BASE - 1)
FellType == [rule : ByteString, assignment_id : ByteString, targeting_key : ByteString, targeting_key_selector : ByteString]
AssignmentType ==
  [flag : ByteString, targeting_key : ByteString, targeting_key_selector : ByteString,
   assignment_id : ByteString, variant : ByteString, segment : ByteString, rule : ByteString,
   reason : Nat, fell : Seq(FellType)]

ASSUME IdentitiesAssumption == \A a \in Identities : a \in AssignmentType

VARIABLE input

NoCase == [law |-> "none"]

LawsInit == input = NoCase

Pick(law, inputs) == input = NoCase /\ \E c \in inputs : input' = [law |-> law, of |-> c]

Scalars == {v \in Attributes : v.k # "list"}

Batches   == UNION {[1 .. n -> Shapes] : n \in 1 .. MaxRecords}
ShardSets == SUBSET (1 .. MaxShards)
Members   == {ks \in SUBSET BloomKeys : Cardinality(ks) <= MaxMembers}
Masks     == {m \in (0 .. MaxFlags) \X (SUBSET (1 .. MaxFlags)) : m[2] \subseteq 1 .. m[1]}

PickRange      == Pick("range", Scalars \X Bounds \X Bounds)
PickCollection == Pick("collection", Attributes \X PlainRules)
PickSplit      == Pick("split", Batches \X (SUBSET (1 .. MaxPosts)))
PickShards     == Pick("shards", ShardSets \X ShardSets \X (0 .. SAMPLES - 1))
PickBloom      == Pick("bloom", Members \X BloomKeys \X (1 .. MaxHashes) \X {n * LONG * BYTE : n \in 1 .. MaxLongs})
PickState      == Pick("state", States)
PickKey        == Pick("key", Identities)
PickMask       == Pick("mask", Masks)

DataNext ==
  \/ PickRange \/ PickCollection \/ PickSplit \/ PickShards
  \/ PickBloom \/ PickState \/ PickKey \/ PickMask

DataSpec == LawsInit /\ [][DataNext]_input

-----------------------------------------------------------------------------
Range2(start, end) == [op |-> "range", start |-> start, end |-> end]

(* Bounds cut the values in two: what a bound excludes from above is what  *)
(* it includes from below, for every kind that has an order and values of  *)
(* every other kind converted to it, and a range with two bounds holds     *)
(* where both of its halves hold.  A value that does not convert is in no  *)
(* range, and neither is NaN, which the string "NaN" reads as: it falls    *)
(* through every cut (evaluate_range_rule, convert_to_targeting_value).    *)
RangesPartition ==
  input.law = "range" =>
    LET v == input.of[1]
        b == input.of[2]
        e == input.of[3]
        is(start, end) == Matches(v, Range2(start, end))
        c == convert_to_targeting_value(v, b.k)
    IN  /\ IF c = Unparsable THEN is(<<"in", b>>, << >>) = Failed /\ is(<< >>, <<"ex", b>>) = Failed
           ELSE IF c.k = b.k /\ b.k # "bool" /\ NaN \notin {b, c}
           THEN /\ is(<<"in", b>>, << >>) # is(<< >>, <<"ex", b>>)
                /\ is(<<"ex", b>>, << >>) # is(<< >>, <<"in", b>>)
           ELSE \A x \in {"in", "ex"} : is(<<x, b>>, << >>) = "false" /\ is(<< >>, <<x, b>>) = "false"
        /\ e.k = b.k /\ c # Unparsable =>
             (is(<<"in", b>>, <<"ex", e>>) = "true"
                <=> is(<<"in", b>>, << >>) = "true" /\ is(<< >>, <<"ex", e>>) = "true")

AnyOf(r) == [op |-> "any", inner |-> r]
AllOf(r) == [op |-> "all", inner |-> r]
Either(results) == IF Failed \in results THEN Failed ELSE Truth("true" \in results)

(* A rule on a list is the rule on its elements: some of them, or all of   *)
(* them under all.  On a single value any, all and the bare rule agree,    *)
(* and a set holds of a value that equals one of its members               *)
(* (evaluate_criterion, evaluate_inner_rule).                              *)
CollectionsAgree ==
  input.law = "collection" =>
    LET v == input.of[1]
        r == input.of[2]
        on(rule, i) == Matches(List(<<v.items[i]>>), rule)
    IN  Known(r) /\ ~NullEquality(r) =>
          /\ v.k # "null" => Matches(v, AnyOf(r)) = Matches(v, r)
          /\ v.k \notin {"null", "list"} => Matches(v, AllOf(r)) = Matches(v, AnyOf(r))
          /\ v.k = "list" =>
               /\ Matches(v, AnyOf(r)) = Either({on(AnyOf(r), i) : i \in DOMAIN v.items})
               /\ Matches(v, AllOf(r)) = "true" <=> \A i \in DOMAIN v.items : on(AllOf(r), i) = "true"
          /\ r.op = "set" /\ expected_value_type(r) # "none" /\ (\A i \in DOMAIN r.values : r.values[i].k = r.values[1].k) =>
               Matches(v, r) = Either({Matches(v, [op |-> "eq", value |-> r.values[i]]) : i \in DOMAIN r.values})

(* Ranges and collections divide the attributes as a rule says, for every  *)
(* kind of value.                                                          *)
CriteriaSound == RangesPartition /\ CollectionsAgree

-----------------------------------------------------------------------------
(* The filter says yes exactly where the Guava filter that was packed      *)
(* would: all of its members, whatever sign their hashes have.             *)
BloomAsGuava ==
  input.law = "bloom" =>
    LET ks == input.of[1]
        k  == input.of[2]
        n  == input.of[3]
        bits == input.of[4]
        on == {BitIndex(x, i, bits) : x \in ks, i \in 0 .. n - 1}
    IN  might_contain(BloomFilter_from_proto(GuavaPacked(ks, n, bits)), k)
          <=> \A i \in 0 .. n - 1 : BitIndex(k, i, bits) \in on

(* A state that loads is whole: a secret leads to the client its           *)
(* credential belongs to (where no client's name begins another's), with   *)
(* that credential's environments, every packed bitset is there with its   *)
(* content, and a member that does not match its checksum or its length is *)
(* never loaded (ResolverState::from_proto, decompress_gz).                *)
StateWhole ==
  input.law = "state" /\ from_proto(input.of) # << >> =>
    LET pb == input.of
        s  == from_proto(pb)[1]
        names == {pb.clients[i].name : i \in DOMAIN pb.clients} \cup {c.owner : c \in pb.credentials}
        apart == \A x, y \in names : x # y => ~StartsWith(x, y)
    IN  /\ apart =>
             \A c \in pb.credentials :
               LET found == get_resolver(s, c.secret)
               IN  IF c.kind = "secret" /\ \E i \in DOMAIN pb.clients : pb.clients[i].name = c.owner
                   THEN found # << >> /\ found[1].client = c.owner /\ found[1].environments = c.environments
                   ELSE found = << >>
        /\ \A b \in pb.bitsets : b.kind = "gz" =>
             b.segment \in DOMAIN s.bitsets /\ s.bitsets[b.segment] = b.member.crc /\ Len(s.bitsets[b.segment]) = b.member.isize

(* A loaded state is whole, and its bloom filters answer as their writer   *)
(* meant.                                                                  *)
StateSound == StateWhole /\ BloomAsGuava

-----------------------------------------------------------------------------
Tagged(records) ==
  [i \in DOMAIN records |->
     [size     |-> records[i].size,
      carry    |-> [id |-> <<i, 0, 0>>, size |-> records[i].carry],
      assigned |-> [j \in DOMAIN records[i].assigned |->
                      [k \in DOMAIN records[i].assigned[j] |-> [id |-> <<i, j, k>>, size |-> records[i].assigned[j][k]]]]]]

Unsent(fails) == [posts |-> 0, fails |-> fails, landed |-> {}, twice |-> FALSE, refused |-> FALSE]

\* Deduplication can leave a record with nothing in it (an assignment it
\* empties, it removes); a resolve in which no flag applied is logged as an
\* assignment without flags.
Filled(shape) ==
  /\ shape.carry > 0 \/ shape.assigned # << >>
  /\ \A j \in DOMAIN shape.assigned : shape.assigned[j] # << >>

(* However a batch is cut and whichever posts fail: it is reported lost in *)
(* part if something of it did not land, delivered in part if something    *)
(* did, and only then if none of its records is empty; nothing lands       *)
(* twice, and no body reaches the size the backend refuses                 *)
(* (flag_log/mod.rs).                                                      *)
SplitAccounts ==
  input.law = "split" =>
    LET records == Tagged(input.of[1])
        ids     == Ids(Aggregate(records))
        d       == deliver_all_within_limit[[records |-> records, at |-> Unsent(input.of[2])]]
    IN  /\ d.at.landed # ids => d.out.lost > 0
        /\ d.at.landed # {} => d.out.ok > 0
        /\ (\A i \in DOMAIN input.of[1] : Filled(input.of[1][i])) =>
             (d.at.landed = ids => d.out.lost = 0) /\ (d.at.landed = {} => d.out.ok = 0)
        /\ ~d.at.twice /\ ~d.at.refused

(* A record finds a queue whenever one of the shards takes it, wherever    *)
(* the walk begins; shards after a gap in the numbering are not used.      *)
ShardFound ==
  input.law = "shards" =>
    LET len  == discover(input.of[1])
        sent == send_to_any(len, input.of[2], input.of[3], SAMPLES)
    IN  /\ len > 0 => {1} \subseteq input.of[1]
        /\ sent # 0 <=> (1 .. len) \cap input.of[2] # {}
        /\ sent # 0 => sent \in input.of[1] \cap input.of[2]

EventKey(a) == compute_applied_flag_dedup_hash(EventView(AppliedFlag(a)))
Keyed == {<<a, compute_applied_flag_dedup_hash(a), EventKey(a)>> : a \in Identities}

(* Two assignments have one key only if they are the same in every field,  *)
(* and two events only if they report the same: no string, empty, long or  *)
(* ending in zeros, can pass for the end of one field and the start of the *)
(* next, so that an exposure is dropped for another one's sake             *)
(* (compute_applied_flag_dedup_hash, DedupHasher::write).                  *)
IdentityKept ==
  input.law = "key" =>
    LET key == compute_applied_flag_dedup_hash(input.of)
        event == EventKey(input.of)
    IN  \A b \in Keyed :
          /\ b[2] = key => b[1] = input.of
          /\ b[3] = event => AppliedFlag(b[1]) = AppliedFlag(input.of)

\* The mask when the flags in kept were found to be new, of flags 1 .. n.
Marked(n, kept) ==
  LET marked[i \in 0 .. n] ==
        IF i = 0 THEN DedupResult(n)
        ELSE IF i \in kept THEN mark(marked[i - 1], i - 1) ELSE marked[i - 1]
  IN  marked[n]

(* The flags that are logged are exactly those that were found to be new,  *)
(* in their order, however many a request has (DedupResult).               *)
MaskExact ==
  input.law = "mask" =>
    LET n == input.of[1]
        kept == input.of[2]
        out == collect(Marked(n, kept), [i \in 1 .. n |-> i])
    IN  /\ {out[i] : i \in DOMAIN out} = kept
        /\ \A i, j \in DOMAIN out : i < j => out[i] < out[j]

(* No assignment is dropped for being one of many or like another: in      *)
(* splitting and sharding a request, in the identity it is deduplicated    *)
(* by, in the mask of what is new.                                         *)
NothingDropped == SplitAccounts /\ ShardFound /\ IdentityKept /\ MaskExact

=============================================================================
