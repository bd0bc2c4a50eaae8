----------------------------- MODULE DataProofs -----------------------------
(***************************************************************************)
(* Proofs about the laws of the pure functions (DataLaws).                 *)
(***************************************************************************)
EXTENDS DataLaws, FoldProofs

(* Division, as far as the provers need to be told.                        *)
LEMMA DivMod ==
  ASSUME NEW a \in Nat, NEW d \in Nat \ {0}
  PROVE  /\ a \div d \in Nat /\ a % d \in Nat
         /\ a % d < d
         /\ a = d * (a \div d) + (a % d)
OBVIOUS

LEMMA MulGrows ==
  ASSUME NEW d \in Nat, NEW x \in Nat, NEW y \in Nat, y < x
  PROVE  d * y + d <= d * x
<1>1. PICK z \in Nat : x = y + 1 + z
  <2>1. x - y - 1 \in Nat /\ x = y + 1 + (x - y - 1)
    OBVIOUS
  <2> QED BY <2>1
<1>2. d * x = d * y + d + d * z
  BY <1>1
<1>3. d * z \in Nat /\ d * y \in Nat
  OBVIOUS
<1> QED BY <1>2, <1>3

LEMMA DivUnique ==
  ASSUME NEW d \in Nat \ {0}, NEW q \in Nat, NEW r \in Nat, r < d
  PROVE  (d * q + r) \div d = q /\ ((d * q + r) % d) = r
<1> DEFINE a == d * q + r
           p == a \div d
           s == a % d
<1>1. a \in Nat /\ d * q \in Nat
  OBVIOUS
<1>2. p \in Nat /\ s \in Nat /\ s < d /\ a = d * p + s
  BY <1>1, DivMod
<1>3. d * p \in Nat
  BY <1>2
<1>4. ~(p < q)
  <2> HIDE DEF p, s
  <2> SUFFICES ASSUME p < q PROVE FALSE
    OBVIOUS
  <2>1. d * p + d <= d * q
    BY <1>2, MulGrows
  <2> QED BY <2>1, <1>1, <1>2, <1>3
<1>5. ~(q < p)
  <2> HIDE DEF p, s
  <2> SUFFICES ASSUME q < p PROVE FALSE
    OBVIOUS
  <2>1. d * q + d <= d * p
    BY <1>2, MulGrows
  <2> QED BY <2>1, <1>1, <1>2, <1>3
<1>6. p = q
  BY <1>2, <1>4, <1>5
<1>7. s = r
  <2> HIDE DEF p, s
  <2> QED BY <1>1, <1>2, <1>3, <1>6
<1> QED BY <1>6, <1>7

LEMMA DivLess ==
  ASSUME NEW d \in Nat \ {0}, NEW n \in Nat, NEW a \in Nat, a < d * n
  PROVE  a \div d < n
<1> DEFINE q == a \div d
<1>1. q \in Nat /\ a = d * q + (a % d) /\ a % d \in Nat
  BY DivMod
<1>2. d * q \in Nat /\ d * n \in Nat
  BY <1>1
<1> HIDE DEF q
<1> SUFFICES ASSUME ~(q < n) PROVE FALSE
  BY <1>1 DEF q
<1>3. q = n \/ n < q
  BY <1>1
<1>4. CASE n < q
  <2>1. d * n + d <= d * q
    BY <1>1, <1>4, MulGrows
  <2> QED BY <2>1, <1>1, <1>2
<1>5. CASE q = n
  BY <1>1, <1>2, <1>5
<1> QED BY <1>3, <1>4, <1>5

-----------------------------------------------------------------------------
(* Bloom filters.  A long is written with its most significant byte first; *)
(* reading reverses its bytes, so that bit b of the filter is bit b % BYTE *)
(* of byte b \div BYTE.                                                    *)

LEMMA BitInFilter ==
  ASSUME NEW k \in BloomKeys, NEW i \in Nat, NEW bits \in Nat \ {0}
  PROVE  BitIndex(k, i, bits) \in Nat /\ BitIndex(k, i, bits) < bits
<1>1. \A a \in Int, d \in Nat \ {0} : a % d \in Nat /\ a % d < d
  OBVIOUS
<1>2. i * k.h2 \in Int /\ k.h1 \in Int
  BY StatesAssumption
<1>3. HASH \in Nat \ {0} /\ HASH \div 2 \in Nat \ {0}
  BY StateLoadingAssumption
<1>4. (k.h1 + i * k.h2) % HASH \in Int
  BY <1>1, <1>2, <1>3
<1>5. ((k.h1 + i * k.h2) % HASH) % (HASH \div 2) \in Int
  BY <1>1, <1>3, <1>4
<1> QED BY <1>1, <1>5 DEF BitIndex

WholeLongs == {longs * LONG * BYTE : longs \in Nat \ {0}}
BitsOn(ks, n, bits) == {BitIndex(x, i, bits) : x \in ks, i \in 0 .. n - 1}

LEMMA BytesInOrder ==
  ASSUME NEW ks, NEW n, NEW bits \in WholeLongs, NEW b \in Nat, b < bits
  PROVE  Set(BloomFilter_from_proto(GuavaPacked(ks, n, bits)).data, b) <=> b \in BitsOn(ks, n, bits)
<1> USE StateLoadingAssumption
<1> PICK longs \in Nat \ {0} : bits = longs * LONG * BYTE
  BY DEF WholeLongs
<1> PICK on : on = BitsOn(ks, n, bits)
  OBVIOUS
<1> DEFINE bytes == LONG * longs
           at(c) == {i \in 0 .. BYTE - 1 :
                       (((c - 1) \div LONG) * LONG + (LONG - 1 - ((c - 1) % LONG))) * BYTE + i \in on}
           data == [c \in 1 .. bytes |-> at(c)]
           source(c) == ((c - 1) \div LONG) * LONG + LONG - ((c - 1) % LONG)
           read == [c \in 1 .. bytes |-> data[source(c)]]
           p    == b \div BYTE
           q    == p \div LONG
           r    == p % LONG
           from == q * LONG + LONG - r
<1>1. bytes \in Nat /\ bits = BYTE * bytes /\ bits \in Nat
  OBVIOUS
<1>2. bits \div BYTE = bytes
  <2>1. (BYTE * bytes + 0) \div BYTE = bytes
    BY <1>1, DivUnique
  <2> QED BY <1>1, <2>1
<1>3. bytes % LONG = 0
  <2>1. (LONG * longs + 0) % LONG = 0
    BY DivUnique
  <2> QED BY <2>1, <1>1
<1>4. GuavaPacked(ks, n, bits) = [data |-> data, hashes |-> n, bits |-> bits]
  <2>1. GuavaPacked(ks, n, bits) = [data |-> [c \in 1 .. bits \div BYTE |-> at(c)], hashes |-> n, bits |-> bits]
    <3>1. GuavaPacked(ks, n, bits) =
            [data |-> [c \in 1 .. bits \div BYTE |->
                         {i \in 0 .. BYTE - 1 :
                            (((c - 1) \div LONG) * LONG + (LONG - 1 - ((c - 1) % LONG))) * BYTE + i
                              \in {BitIndex(x, j, bits) : x \in ks, j \in 0 .. n - 1}}],
             hashes |-> n, bits |-> bits]
      BY DEF GuavaPacked
    <3> QED BY <3>1 DEF BitsOn
  <2> HIDE DEF at, bytes
  <2> QED BY <2>1, <1>2
<1>5. Len(data) = bytes /\ DOMAIN data = 1 .. bytes
  BY <1>1
<1>6. BloomFilter_from_proto(GuavaPacked(ks, n, bits)).data = read
  <2> DEFINE packed == [data |-> data, hashes |-> n, bits |-> bits]
  <2>1. Len(packed.data) - (Len(packed.data) % LONG) = bytes
    BY <1>1, <1>3, <1>5
  <2>2. BloomFilter_from_proto(packed).data =
          [c \in 1 .. bytes |->
             IF c > bytes THEN packed.data[c]
             ELSE packed.data[((c - 1) \div LONG) * LONG + LONG - ((c - 1) % LONG)]]
    <3> HIDE DEF data, bytes
    <3> QED BY <2>1, <1>5 DEF BloomFilter_from_proto
  <2>3. \A c \in 1 .. bytes : ~(c > bytes)
    BY <1>1
  <2> HIDE DEF data, bytes
  <2> QED BY <1>4, <2>2, <2>3
<1>7. p \in Nat /\ p < bytes /\ b = BYTE * p + (b % BYTE) /\ b % BYTE \in 0 .. BYTE - 1
  <2>1. b < BYTE * bytes
    BY <1>1
  <2>2. b \div BYTE < bytes
    <3> HIDE DEF bytes
    <3> QED BY <2>1, <1>1, DivLess
  <2>3. b \div BYTE \in Nat /\ b % BYTE \in Nat /\ b % BYTE < BYTE /\ b = BYTE * (b \div BYTE) + (b % BYTE)
    BY DivMod
  <2> QED BY <2>2, <2>3
<1>8. q \in Nat /\ r \in Nat /\ r < LONG /\ p = LONG * q + r /\ q < longs
  BY <1>7, DivMod, DivLess
<1>9. from \in 1 .. bytes
  <2>1. LONG * q + LONG <= LONG * longs
    BY <1>8, MulGrows
  <2>2. LONG * q \in Nat /\ q * LONG = LONG * q
    BY <1>8
  <2> HIDE DEF q, r
  <2> QED BY <2>1, <2>2, <1>8
<1>10. (from - 1) \div LONG = q /\ (from - 1) % LONG = LONG - 1 - r
  <2>1. LONG - 1 - r \in Nat /\ LONG - 1 - r < LONG
    BY <1>8
  <2>2. from - 1 = LONG * q + (LONG - 1 - r)
    BY <1>8
  <2>3. \A z \in Nat : z < LONG => (LONG * q + z) \div LONG = q /\ (LONG * q + z) % LONG = z
    <3> HIDE DEF q
    <3> QED BY <1>8, DivUnique
  <2> HIDE DEF q, r, from
  <2> QED BY <2>1, <2>2, <2>3
<1>11. read[p + 1] = data[from]
  <2>1. p + 1 \in 1 .. bytes /\ p + 1 - 1 = p
    BY <1>1, <1>7
  <2>2. read[p + 1] = data[source(p + 1)]
    <3> HIDE DEF p, bytes, data, source
    <3> QED BY <2>1
  <2> QED BY <2>1, <2>2
<1>12. data[from] = {i \in 0 .. BYTE - 1 : p * BYTE + i \in on}
  <2>1. q * LONG + (LONG - 1 - (LONG - 1 - r)) = p
    <3> HIDE DEF q, r, p
    <3> QED BY <1>8
  <2>2. data[from] = at(from)
    BY <1>9
  <2> HIDE DEF q, r, p, from, data
  <2> QED BY <2>1, <2>2, <1>10
<1>13. Len(read) = bytes
  BY <1>1
<1>14. Set(read, b) <=> b \in on
  <2>1. p * BYTE + (b % BYTE) = b
    BY <1>7
  <2> HIDE DEF read, p, data, from, bytes
  <2>2. Set(read, b) <=> p < bytes /\ b % BYTE \in read[p + 1]
    BY <1>13 DEF Set, p
  <2> QED BY <2>1, <2>2, <1>7, <1>11, <1>12
<1> HIDE DEF read
<1> QED BY <1>6, <1>14

LEMMA BloomAnswers ==
  ASSUME NEW ks, NEW k \in BloomKeys, NEW n \in Nat, NEW bits \in WholeLongs
  PROVE  might_contain(BloomFilter_from_proto(GuavaPacked(ks, n, bits)), k)
           <=> \A i \in 0 .. n - 1 : BitIndex(k, i, bits) \in BitsOn(ks, n, bits)
<1> DEFINE on == BitsOn(ks, n, bits)
           filter == BloomFilter_from_proto(GuavaPacked(ks, n, bits))
<1>1. filter.hashes = n /\ filter.bits = bits
  BY DEF BloomFilter_from_proto, GuavaPacked
<1>2. bits \in Nat \ {0}
  BY StateLoadingAssumption DEF WholeLongs
<1>3. ASSUME NEW i \in 0 .. n - 1
      PROVE  Set(filter.data, BitIndex(k, i, bits)) <=> BitIndex(k, i, bits) \in on
  <2>1. BitIndex(k, i, bits) \in Nat /\ BitIndex(k, i, bits) < bits
    BY <1>2, BitInFilter
  <2>2. \A b \in Nat : b < bits => (Set(filter.data, b) <=> b \in on)
    BY BytesInOrder
  <2> HIDE DEF filter
  <2> QED BY <2>1, <2>2
<1> HIDE DEF filter
<1>4. might_contain(filter, k) <=> \A i \in 0 .. n - 1 : BitIndex(k, i, bits) \in on
  BY <1>1, <1>3 DEF might_contain
<1> QED BY <1>4 DEF filter

-----------------------------------------------------------------------------
(* The secrets of a state.  Of two beginnings of one name one begins the   *)
(* other, so where no client's name begins another's the clients that a    *)
(* credential's name leads to are its owner.                               *)

LEMMA BeginningsCompare ==
  ASSUME NEW x \in Name, NEW y \in Name, NEW z \in Name,
         StartsWith(z, x), StartsWith(z, y), Len(x) <= Len(y)
  PROVE  StartsWith(y, x)
<1> USE DEF Name
<1>1. Len(x) \in Nat /\ Len(y) \in Nat /\ Len(z) \in Nat /\ Len(y) <= Len(z)
  BY DEF StartsWith
<1>2. x = SubSeq(z, 1, Len(x)) /\ y = SubSeq(z, 1, Len(y))
  BY DEF StartsWith
<1>3. CASE Len(x) = 0
  <2>1. SubSeq(y, 1, 0) = << >> /\ SubSeq(z, 1, 0) = << >>
    BY SubSeqEmpty
  <2> QED BY <1>2, <1>3, <2>1 DEF StartsWith
<1>4. CASE Len(x) # 0
  <2>1. 1 \in 1 .. Len(z) /\ Len(y) \in 1 .. Len(z) /\ 1 \in 1 .. Len(y) - 1 + 1 /\ Len(x) \in 1 .. Len(y) - 1 + 1
    BY <1>1, <1>4
  <2>2. SubSeq(SubSeq(z, 1, Len(y)), 1, Len(x)) = SubSeq(z, 1 + 1 - 1, 1 + Len(x) - 1)
    BY <2>1, SubSeqOfSubSeq
  <2>3. SubSeq(y, 1, Len(x)) = x
    BY <1>1, <1>2, <2>2
  <2> QED BY <2>3 DEF StartsWith
<1> QED BY <1>3, <1>4

Owners(pb, c) == {i \in DOMAIN pb.clients : Owns(pb.clients[i], c)}
LastOwner(pb, c) == CHOOSE i \in Owners(pb, c) : \A j \in Owners(pb, c) : j <= i
Owned(pb) == {c \in pb.credentials : Owners(pb, c) # {}}
OfSecret(pb, s) == CHOOSE c \in Owned(pb) : c.secret = s

LEMMA LastOwnerIs ==
  ASSUME NEW pb \in States, NEW c \in Owned(pb)
  PROVE  LastOwner(pb, c) \in Owners(pb, c)
<1> DEFINE S == Owners(pb, c)
<1>1. S \in SUBSET (0 .. Len(pb.clients)) /\ S # {} /\ Len(pb.clients) \in Nat
  BY StatesAssumption DEF Published, Owners, Owned
<1>2. Max(S) \in S /\ \A y \in S : Max(S) >= y
  <2> HIDE DEF S
  <2> QED BY <1>1, BoundedMax
<1>3. \A y \in S : y \in Nat
  BY <1>1
<1>4. \E i \in S : \A j \in S : j <= i
  <2> HIDE DEF S
  <2> QED BY <1>2, <1>3
<1> QED BY <1>4 DEF LastOwner

LEMMA SecretsAre ==
  ASSUME NEW pb \in States, NEW c \in pb.credentials
  PROVE  LET secrets == Secrets(pb.clients, pb.credentials)
         IN  /\ c.secret \in DOMAIN secrets <=> c \in Owned(pb)
             /\ c \in Owned(pb) => /\ secrets[c.secret].client = pb.clients[LastOwner(pb, c)].name
                                   /\ secrets[c.secret].environments = c.environments
<1> DEFINE secrets == Secrets(pb.clients, pb.credentials)
           known == {x.secret : x \in Owned(pb)}
<1>1. secrets = [s \in known |->
                   [client |-> pb.clients[LastOwner(pb, OfSecret(pb, s))].name, credential |-> OfSecret(pb, s).name,
                    environments |-> OfSecret(pb, s).environments,
                    managed |-> pb.clients[LastOwner(pb, OfSecret(pb, s))].managed]]
  BY DEF Secrets, Owners, LastOwner, Owned, OfSecret
<1>2. \A x \in Owned(pb) : x \in pb.credentials
  BY DEF Owned
<1>3. \A x, y \in pb.credentials : x.secret = y.secret => x = y
  BY StatesAssumption DEF Published
<1>4. c.secret \in known <=> c \in Owned(pb)
  BY <1>2, <1>3
<1>5. c \in Owned(pb) => OfSecret(pb, c.secret) = c
  BY <1>2, <1>3 DEF OfSecret
<1> HIDE DEF secrets, known
<1>6. c.secret \in DOMAIN secrets <=> c \in Owned(pb)
  BY <1>1, <1>4
<1>7. c \in Owned(pb) => /\ secrets[c.secret].client = pb.clients[LastOwner(pb, c)].name
                         /\ secrets[c.secret].environments = c.environments
  BY <1>1, <1>4, <1>5
<1> QED BY <1>6, <1>7 DEF secrets

LEMMA SecretsLead ==
  ASSUME NEW pb \in States,
         \A x, y \in {pb.clients[i].name : i \in DOMAIN pb.clients} \cup {c.owner : c \in pb.credentials} :
           x # y => ~StartsWith(x, y),
         NEW c \in pb.credentials
  PROVE  /\ c \in Owned(pb) <=> c.kind = "secret" /\ \E i \in DOMAIN pb.clients : pb.clients[i].name = c.owner
         /\ c \in Owned(pb) => pb.clients[LastOwner(pb, c)].name = c.owner
<1>1. /\ c.name \in Name /\ c.owner \in Name /\ StartsWith(c.name, c.owner)
      /\ \A i \in DOMAIN pb.clients : pb.clients[i].name \in Name
  <2>1. Published(pb)
    BY StatesAssumption
  <2>2. c.name \in Name /\ c.owner \in Name /\ StartsWith(c.name, c.owner)
    BY <2>1 DEF Published
  <2>3. PICK M : pb.clients \in Seq([name : Name, managed : M])
    BY <2>1 DEF Published
  <2>4. ASSUME NEW i \in DOMAIN pb.clients PROVE pb.clients[i].name \in Name
    <3>1. i \in 1 .. Len(pb.clients)
      BY <2>3, LenProperties
    <3>2. pb.clients[i] \in [name : Name, managed : M]
      BY <2>3, <3>1, ElementOfSeq
    <3> QED BY <3>2
  <2> QED BY <2>2, <2>4
<1>2. ASSUME NEW i \in DOMAIN pb.clients, StartsWith(c.name, pb.clients[i].name)
      PROVE  pb.clients[i].name = c.owner
  <2> DEFINE x == pb.clients[i].name
  <2>1. Len(x) \in Nat /\ Len(c.owner) \in Nat /\ x \in Name
    BY <1>1 DEF Name
  <2>2. StartsWith(x, c.owner) \/ StartsWith(c.owner, x)
    <3>1. Len(x) <= Len(c.owner) \/ Len(c.owner) <= Len(x)
      BY <2>1
    <3> HIDE DEF x
    <3>2. StartsWith(c.name, x)
      BY <1>2 DEF x
    <3> QED BY <3>1, <3>2, <2>1, <1>1, BeginningsCompare
  <2> QED BY <2>2
<1>3. ASSUME NEW i \in DOMAIN pb.clients
      PROVE  i \in Owners(pb, c) <=> c.kind = "secret" /\ pb.clients[i].name = c.owner
  BY <1>1, <1>2 DEF Owners, Owns
<1>4. c \in Owned(pb) <=> \E i \in DOMAIN pb.clients : i \in Owners(pb, c)
  BY DEF Owned, Owners
<1>5. c \in Owned(pb) => LastOwner(pb, c) \in DOMAIN pb.clients /\ LastOwner(pb, c) \in Owners(pb, c)
  BY LastOwnerIs DEF Owners
<1> QED BY <1>3, <1>4, <1>5

-----------------------------------------------------------------------------
(* The inputs a state may have.                                            *)
Picked ==
  /\ input.law = "range" => input.of \in Scalars \X Bounds \X Bounds
  /\ input.law = "collection" => input.of \in Attributes \X PlainRules
  /\ input.law = "split" => input.of \in Batches \X (SUBSET (1 .. MaxPosts))
  /\ input.law = "shards" => input.of \in ShardSets \X ShardSets \X (0 .. SAMPLES - 1)
  /\ input.law = "bloom" =>
       input.of \in Members \X BloomKeys \X (1 .. MaxHashes) \X {n * LONG * BYTE : n \in 1 .. MaxLongs}
  /\ input.law = "state" => input.of \in States
  /\ input.law = "key" => input.of \in Identities
  /\ input.law = "mask" => input.of \in Masks

LEMMA PickedStep == Picked /\ [DataNext]_input => Picked'
<1> SUFFICES ASSUME Picked, [DataNext]_input PROVE Picked'
  OBVIOUS
<1>1. CASE UNCHANGED input
  BY <1>1 DEF Picked
<1>2. ASSUME NEW law, NEW inputs, Pick(law, inputs)
      PROVE  input'.law = law /\ input'.of \in inputs
  BY <1>2 DEF Pick
<1>3. CASE PickRange
  BY <1>3, <1>2 DEF PickRange, Picked
<1>4. CASE PickCollection
  BY <1>4, <1>2 DEF PickCollection, Picked
<1>5. CASE PickSplit
  BY <1>5, <1>2 DEF PickSplit, Picked
<1>6. CASE PickShards
  BY <1>6, <1>2 DEF PickShards, Picked
<1>7. CASE PickBloom
  BY <1>7, <1>2 DEF PickBloom, Picked
<1>8. CASE PickState
  BY <1>8, <1>2 DEF PickState, Picked
<1>9. CASE PickKey
  BY <1>9, <1>2 DEF PickKey, Picked
<1>10. CASE PickMask
  BY <1>10, <1>2 DEF PickMask, Picked
<1> QED BY <1>1, <1>3, <1>4, <1>5, <1>6, <1>7, <1>8, <1>9, <1>10 DEF DataNext

LEMMA PickedAlways == DataSpec => []Picked
<1>1. LawsInit => Picked
  BY DEF LawsInit, NoCase, Picked
<1> QED BY <1>1, PickedStep, PTL DEF DataSpec

LEMMA BloomLaw == Picked => BloomAsGuava
<1> SUFFICES ASSUME Picked, input.law = "bloom"
             PROVE  might_contain(BloomFilter_from_proto(GuavaPacked(input.of[1], input.of[3], input.of[4])), input.of[2])
                      <=> \A i \in 0 .. input.of[3] - 1 :
                            BitIndex(input.of[2], i, input.of[4]) \in BitsOn(input.of[1], input.of[3], input.of[4])
  BY DEF BloomAsGuava, BitsOn
<1>1. input.of[2] \in BloomKeys /\ input.of[3] \in 1 .. MaxHashes /\ input.of[4] \in {n * LONG * BYTE : n \in 1 .. MaxLongs}
  BY DEF Picked
<1>2. input.of[3] \in Nat /\ input.of[4] \in WholeLongs
  BY <1>1, StatesAssumption DEF WholeLongs
<1> QED BY <1>1, <1>2, BloomAnswers

LEMMA StateLaw == Picked => StateWhole
<1> SUFFICES ASSUME Picked, input.law = "state", from_proto(input.of) # << >> PROVE StateWhole
  BY DEF StateWhole
<1> DEFINE pb == input.of
           s == from_proto(pb)[1]
           secrets == Secrets(pb.clients, pb.credentials)
           names == {pb.clients[i].name : i \in DOMAIN pb.clients} \cup {c.owner : c \in pb.credentials}
<1>1. pb \in States
  BY DEF Picked
<1>2. Bitsets(pb.bitsets) # << >> /\ s.secrets = secrets /\ s.bitsets = Bitsets(pb.bitsets)[1]
  BY DEF from_proto
<1>3. ASSUME \A x, y \in names : x # y => ~StartsWith(x, y), NEW c \in pb.credentials
      PROVE  LET found == get_resolver(s, c.secret)
             IN  IF c.kind = "secret" /\ \E i \in DOMAIN pb.clients : pb.clients[i].name = c.owner
                 THEN found # << >> /\ found[1].client = c.owner /\ found[1].environments = c.environments
                 ELSE found = << >>
  <2>1. /\ c \in Owned(pb) <=> c.kind = "secret" /\ \E i \in DOMAIN pb.clients : pb.clients[i].name = c.owner
        /\ c \in Owned(pb) => pb.clients[LastOwner(pb, c)].name = c.owner
    BY <1>1, <1>3, SecretsLead
  <2>2. /\ c.secret \in DOMAIN secrets <=> c \in Owned(pb)
        /\ c \in Owned(pb) => /\ secrets[c.secret].client = pb.clients[LastOwner(pb, c)].name
                              /\ secrets[c.secret].environments = c.environments
    BY <1>1, SecretsAre
  <2> HIDE DEF pb, s, secrets
  <2>3. get_resolver(s, c.secret) = IF c \in Owned(pb) THEN <<secrets[c.secret]>> ELSE << >>
    BY <1>2, <2>2 DEF get_resolver
  <2>4. CASE c \in Owned(pb)
    BY <2>1, <2>2, <2>3, <2>4
  <2>5. CASE c \notin Owned(pb)
    BY <2>1, <2>3, <2>5
  <2> QED BY <2>4, <2>5
<1>4. ASSUME NEW b \in pb.bitsets, b.kind = "gz"
      PROVE  /\ b.segment \in DOMAIN s.bitsets
             /\ s.bitsets[b.segment] = b.member.crc
             /\ Len(s.bitsets[b.segment]) = b.member.isize
  <2> DEFINE gz == {a \in pb.bitsets : a.kind = "gz"}
             segments == {a.segment : a \in gz}
             unpacked(x) == decompress_gz((CHOOSE a \in gz : a.segment = x).member)[1]
  <2>1. \A x, y \in pb.bitsets : x.segment = y.segment => x = y
    BY <1>1, StatesAssumption DEF Published
  <2>2. b \in gz /\ (CHOOSE a \in gz : a.segment = b.segment) = b
    BY <1>4, <2>1
  <2>3. /\ ~ \E a \in pb.bitsets : a.kind = "empty" \/ (a.kind = "gz" /\ decompress_gz(a.member) = << >>)
        /\ s.bitsets = [x \in segments |-> unpacked(x)]
    BY <1>2 DEF Bitsets
  <2>4. b.segment \in DOMAIN s.bitsets /\ s.bitsets[b.segment] = decompress_gz(b.member)[1]
    <3> HIDE DEF pb, s, gz
    <3>1. b.segment \in segments
      BY <2>2
    <3>2. unpacked(b.segment) = decompress_gz(b.member)[1]
      BY <2>2
    <3> HIDE DEF segments, unpacked
    <3>3. s.bitsets[b.segment] = unpacked(b.segment) /\ b.segment \in DOMAIN s.bitsets
      BY <2>3, <3>1
    <3> QED BY <3>2, <3>3
  <2>5. decompress_gz(b.member) # << >>
    BY <1>4, <2>3
  <2>6. decompress_gz(b.member)[1] = b.member.crc /\ Len(decompress_gz(b.member)[1]) = b.member.isize
    BY <2>5 DEF decompress_gz
  <2> QED BY <2>4, <2>6
<1> HIDE DEF s
<1> QED BY <1>3, <1>4 DEF StateWhole, s

(* A state that loads is whole, and a bloom filter answers as its writer   *)
(* meant: the hashes may have any sign and number, the filter any length   *)
(* in longs, the state any clients and credentials.                        *)
THEOREM StateCorrect == DataSpec => []StateSound
<1>1. Picked => StateSound
  BY BloomLaw, StateLaw DEF StateSound
<1> QED BY <1>1, PickedAlways, PTL

-----------------------------------------------------------------------------
(* Attribute criteria.                                                     *)

\* What becomes of a value that is no list.
LEMMA ConvertedOne ==
  ASSUME NEW v, NEW kind
  PROVE  LET c == ConvertOne(v, kind)
             facts == StringFacts[v.s]
         IN  \/ c = Sentinel
             \/ v.k \in {"number", "string", "bool"} /\ kind = v.k /\ c = v
             \/ v.k = "number" /\ kind = "string" /\ v = NaN /\ c = Text(v.s)
             \/ v.k = "number" /\ kind = "string" /\ v # NaN /\ c = Text(NumText(v.n))
             \/ v.k = "number" /\ kind = "timestamp" /\ c = number_to_timestamp(v)
             \/ v.k = "string" /\ kind = "bool" /\ c = Bool(v.s \in {"true", "TRUE"})
             \/ v.k = "string" /\ kind = "number" /\ facts.num = << >> /\ c = Unparsable
             \/ v.k = "string" /\ kind = "number" /\ facts.num # << >> /\ c = facts.num[1]
             \/ v.k = "string" /\ kind = "timestamp" /\ facts.time # << >> /\ c = Time(facts.time[1])
             \/ v.k = "string" /\ kind = "version" /\ c = Version(v.s)
<1>1. CASE v.k = "number"
  <2>1. ConvertOne(v, kind) = FromNumber(v, kind)
    BY <1>1 DEF ConvertOne
  <2> QED BY <1>1, <2>1 DEF FromNumber
<1>2. CASE v.k = "string"
  <2>1. ConvertOne(v, kind) = FromString(v, kind)
    BY <1>2 DEF ConvertOne
  <2> QED BY <1>2, <2>1 DEF FromString, from_str
<1>3. CASE v.k \notin {"number", "string"}
  BY <1>3 DEF ConvertOne
<1> QED BY <1>1, <1>2, <1>3

LEMMA KindsNamed ==
  /\ Sentinel.k = "string" /\ Sentinel.s = "null"
  /\ \A s : Text(s).k = "string" /\ Text(s).s = s
  /\ \A n : Number(n).k = "number" /\ Number(n).n = n
  /\ \A n : Time(n).k = "timestamp" /\ Time(n).n = n
  /\ \A b : Bool(b).k = "bool"
  /\ \A s : Version(s).k = "version"
  /\ Unparsable.k = "unparsable"
  /\ NaN.k = "number" /\ NaN.n = 0
<1>1. \A s : Text(s).k = "string" /\ Text(s).s = s
  BY DEF TypedValue, Text
<1>2. Sentinel.k = "string" /\ Sentinel.s = "null"
  BY <1>1 DEF Sentinel
<1>3. \A n : Number(n).k = "number" /\ Number(n).n = n
  BY DEF TypedValue, Number
<1>4. \A n : Time(n).k = "timestamp" /\ Time(n).n = n
  BY DEF TypedValue, Time
<1>5. \A b : Bool(b).k = "bool"
  BY DEF TypedValue, Bool
<1>6. \A s : Version(s).k = "version"
  BY DEF TypedValue, Version
<1>7. Unparsable.k = "unparsable"
  BY DEF TypedValue, Unparsable
<1>8. NaN.k = "number" /\ NaN.n = 0
  BY DEF TypedValue, NaN
<1> QED BY <1>1, <1>2, <1>3, <1>4, <1>5, <1>6, <1>7, <1>8

LEMMA NumbersTyped ==
  ASSUME NEW v, IsNumber(v)
  PROVE  v.k = "number" /\ v.n \in Int
<1>1. CASE v = NaN
  BY <1>1, KindsNamed
<1>2. CASE v.n \in -INFINITY .. INFINITY /\ v = Number(v.n)
  BY <1>2, KindsNamed, CriteriaAssumption
<1> QED BY <1>1, <1>2 DEF IsNumber

\* A number is an instant, of its seconds or of its milliseconds, or the
\* sentinel.
LEMMA Instant ==
  ASSUME NEW v
  PROVE  \/ number_to_timestamp(v) = Sentinel
         \/ number_to_timestamp(v).k = "timestamp" /\ number_to_timestamp(v).n \in Int
<1>1. \/ number_to_timestamp(v) = Sentinel
      \/ \E t \in EARLIEST .. LATEST : number_to_timestamp(v) = Time(t)
  BY DEF number_to_timestamp
<1>2. \A t \in EARLIEST .. LATEST : t \in Int
  BY CriteriaAssumption
<1> QED BY <1>1, <1>2, KindsNamed

\* What an attribute is converted to is no list unless the attribute is one.
LEMMA ConvertedApart ==
  ASSUME NEW v \in Scalars, NEW kind
  PROVE  /\ convert_to_targeting_value(v, kind) = ConvertOne(v, kind)
         /\ ConvertOne(v, kind).k # "list"
<1>1. convert_to_targeting_value(v, kind) = ConvertOne(v, kind)
  BY DEF convert_to_targeting_value, Scalars
<1>2. number_to_timestamp(v).k \in {"timestamp", "string"}
  BY Instant, KindsNamed
<1>3. StringFacts[v.s].num # << >> => StringFacts[v.s].num[1].k = "number"
  BY AttributesAssumption, CriteriaAssumption, NumbersTyped DEF Scalars
<1>4. v.k # "list"
  BY DEF Scalars
<1>5. ConvertOne(v, kind).k # "list"
  BY <1>2, <1>3, <1>4, ConvertedOne, KindsNamed
<1> QED BY <1>1, <1>5

\* The converted value has the number or the string its kind is ordered by.
LEMMA ConvertedTyped ==
  ASSUME NEW v \in Scalars, NEW kind, ConvertOne(v, kind).k = kind
  PROVE  /\ kind \in {"number", "timestamp"} => ConvertOne(v, kind).n \in Int
         /\ kind = "string" => ConvertOne(v, kind).s \in Ordered
<1> DEFINE c == ConvertOne(v, kind)
<1>1. /\ v.n \in Int /\ v.s \in Ordered
      /\ v.k = "number" => (v # NaN => NumText(v.n) \in Ordered)
  BY AttributesAssumption DEF Scalars
<1>2. "null" \in Ordered
  BY CriteriaAssumption, KindsNamed
<1>3. /\ StringFacts[v.s].num # << >> => /\ StringFacts[v.s].num[1].k = "number"
                                         /\ StringFacts[v.s].num[1].n \in Int
      /\ StringFacts[v.s].time # << >> => StringFacts[v.s].time[1] \in Int
  <2>1. /\ StringFacts[v.s].num # << >> => IsNumber(StringFacts[v.s].num[1])
        /\ StringFacts[v.s].time \in Seq(Int)
    BY <1>1, CriteriaAssumption
  <2>2. StringFacts[v.s].time # << >> => StringFacts[v.s].time[1] \in Int
    BY <2>1
  <2>3. StringFacts[v.s].num # << >> => /\ StringFacts[v.s].num[1].k = "number"
                                         /\ StringFacts[v.s].num[1].n \in Int
    BY <2>1, NumbersTyped
  <2> QED BY <2>2, <2>3
<1>4. \/ number_to_timestamp(v) = Sentinel
      \/ number_to_timestamp(v).k = "timestamp" /\ number_to_timestamp(v).n \in Int
  BY Instant
<1>5. c.k = kind
  OBVIOUS
<1> HIDE DEF c
<1>6. CASE kind \in {"number", "timestamp"}
  BY <1>1, <1>3, <1>4, <1>5, <1>6, ConvertedOne, KindsNamed DEF c
<1>7. CASE kind = "string"
  BY <1>1, <1>2, <1>5, <1>7, ConvertedOne, KindsNamed DEF c
<1> QED BY <1>6, <1>7 DEF c

\* Of two values of a kind with an order, one is less or the other at most.
LEMMA OneWay ==
  ASSUME NEW a, NEW b, a.k = b.k,
         a.k \in {"number", "timestamp", "string", "version"}, NaN \notin {a, b},
         a.k \in {"number", "timestamp"} => a.n \in Int /\ b.n \in Int,
         a.k = "string" => a.s \in Ordered /\ b.s \in Ordered
  PROVE  lte(a, b) <=> ~lt(b, a)
<1>1. CASE a.k \in {"number", "timestamp"}
  BY <1>1 DEF lte, lt
<1>2. CASE a.k = "string"
  <2>1. ASSUME NEW s \in Ordered PROVE Rank(s) \in Nat
    <3>1. \E i \in DOMAIN StringOrder : StringOrder[i] = s
      BY DEF Ordered
    <3>2. Rank(s) \in DOMAIN StringOrder
      BY <3>1 DEF Rank
    <3> QED BY <3>2, CriteriaAssumption
  <2>2. Rank(a.s) \in Nat /\ Rank(b.s) \in Nat
    BY <1>2, <2>1
  <2>3. (lte(a, b) <=> Rank(a.s) <= Rank(b.s)) /\ (lt(b, a) <=> Rank(b.s) < Rank(a.s))
    BY <1>2 DEF lte, lt
  <2> QED BY <2>2, <2>3
<1>3. CASE a.k = "version"
  BY <1>3 DEF lte, lt
<1> QED BY <1>1, <1>2, <1>3

\* A range on a value that is no list, for bounds of one kind.
LEMMA RangeOn ==
  ASSUME NEW v \in Scalars, NEW start, NEW end, NEW kind,
         start # << >> \/ end # << >>,
         kind \notin {"empty", "absent"},
         start # << >> => start[2].k = kind, end # << >> => end[2].k = kind
  PROVE  LET c == convert_to_targeting_value(v, kind)
         IN  Matches(v, Range2(start, end)) =
               IF c = Unparsable THEN Failed ELSE Truth(evaluate_range_rule(Range2(start, end), c))
<1> DEFINE rule == Range2(start, end)
           c == convert_to_targeting_value(v, kind)
<1>1. rule.op = "range" /\ rule.start = start /\ rule.end = end
  BY DEF Range2
<1>2. v.k # "list" /\ c.k # "list"
  BY ConvertedApart DEF Scalars
<1>3. expected_value_type(rule) = kind
  BY <1>1 DEF expected_value_type, Collection, ExpectedPlain, Content, StringOps
<1> HIDE DEF rule, c
<1>4. ~uses_strict_string_operator(rule) /\ ~NullEquality(rule) /\ ~Collection(rule) /\ Known(rule)
  BY <1>1 DEF uses_strict_string_operator, NullEquality, Collection, Known, StringOps
<1>5. convert_to_targeting_value_for_criterion(v, rule) = c
  BY <1>3, <1>4 DEF convert_to_targeting_value_for_criterion, c
<1>6. FailsIn(c) <=> c = Unparsable
  BY <1>2 DEF FailsIn
<1>7. evaluate_criterion(rule, list_wrapper(c)) = Truth(evaluate_range_rule(rule, c))
  <2>1. list_wrapper(c) = <<c>>
    BY <1>2 DEF list_wrapper
  <2>2. evaluate_inner_rule(rule, c) = evaluate_range_rule(rule, c)
    BY <1>1 DEF evaluate_inner_rule
  <2>3. (\E i \in DOMAIN <<c>> : evaluate_inner_rule(rule, <<c>>[i])) <=> evaluate_range_rule(rule, c)
    BY <2>2
  <2> QED BY <1>1, <1>4, <2>1, <2>3 DEF evaluate_criterion, Truth
<1>8. Matches(v, rule) = IF c = Unparsable THEN Failed ELSE Truth(evaluate_range_rule(rule, c))
  BY <1>4, <1>5, <1>6, <1>7 DEF Matches
<1> QED BY <1>8 DEF rule, c

LEMMA RangesLaw == Picked => RangesPartition
<1> SUFFICES ASSUME Picked, input.law = "range" PROVE RangesPartition
  BY DEF RangesPartition
<1> DEFINE v == input.of[1]
           b == input.of[2]
           e == input.of[3]
           c == convert_to_targeting_value(v, b.k)
           is(start, end) == Matches(v, Range2(start, end))
           holds(start, end) == evaluate_range_rule(Range2(start, end), c)
<1>1. v \in Scalars /\ b \in Bounds /\ e \in Bounds
  BY DEF Picked
<1>2. b.k \in {"number", "string", "timestamp", "version", "bool"} /\ b.n \in Int /\ b.s \in Ordered
  BY <1>1, AttributesAssumption
<1>3. c = ConvertOne(v, b.k)
  BY <1>1, ConvertedApart DEF Scalars
<1>4. ASSUME c.k = b.k
      PROVE  /\ b.k \in {"number", "timestamp"} => c.n \in Int
             /\ b.k = "string" => c.s \in Ordered
  BY <1>1, <1>3, <1>4, ConvertedTyped
<1>5. ASSUME NEW x \in {"in", "ex"}
      PROVE  /\ is(<<x, b>>, << >>) = IF c = Unparsable THEN Failed ELSE Truth(holds(<<x, b>>, << >>))
             /\ is(<< >>, <<x, b>>) = IF c = Unparsable THEN Failed ELSE Truth(holds(<< >>, <<x, b>>))
  BY <1>1, <1>2, RangeOn
<1>6. ASSUME e.k = b.k
      PROVE  /\ is(<< >>, <<"ex", e>>) = IF c = Unparsable THEN Failed ELSE Truth(holds(<< >>, <<"ex", e>>))
             /\ is(<<"in", b>>, <<"ex", e>>) = IF c = Unparsable THEN Failed ELSE Truth(holds(<<"in", b>>, <<"ex", e>>))
  BY <1>1, <1>2, <1>6, RangeOn
<1> HIDE DEF v, b, e, c, is
<1>7. /\ holds(<<"in", b>>, << >>) <=> lte(b, c)
      /\ holds(<<"ex", b>>, << >>) <=> lt(b, c)
      /\ holds(<< >>, <<"in", b>>) <=> lte(c, b)
      /\ holds(<< >>, <<"ex", b>>) <=> lt(c, b)
      /\ holds(<< >>, <<"ex", e>>) <=> lt(c, e)
      /\ holds(<<"in", b>>, <<"ex", e>>) <=> lte(b, c) /\ lt(c, e)
  BY DEF evaluate_range_rule, Range2
<1> HIDE DEF holds
<1>8. c.k # b.k \/ b.k = "bool" \/ NaN \in {b, c} => ~lte(b, c) /\ ~lt(b, c) /\ ~lte(c, b) /\ ~lt(c, b)
  BY DEF lte, lt
<1>9. c.k = b.k /\ b.k # "bool" /\ NaN \notin {b, c} => (lte(b, c) <=> ~lt(c, b)) /\ (lte(c, b) <=> ~lt(b, c))
  BY <1>2, <1>4, OneWay
<1>10. Truth(TRUE) = "true" /\ Truth(FALSE) = "false"
  BY DEF Truth
<1>11. IF c = Unparsable THEN is(<<"in", b>>, << >>) = Failed /\ is(<< >>, <<"ex", b>>) = Failed
       ELSE IF c.k = b.k /\ b.k # "bool" /\ NaN \notin {b, c}
       THEN /\ is(<<"in", b>>, << >>) # is(<< >>, <<"ex", b>>)
            /\ is(<<"ex", b>>, << >>) # is(<< >>, <<"in", b>>)
       ELSE \A x \in {"in", "ex"} : is(<<x, b>>, << >>) = "false" /\ is(<< >>, <<x, b>>) = "false"
  <2>1. CASE c = Unparsable
    BY <1>5, <2>1
  <2>2. CASE c # Unparsable /\ c.k = b.k /\ b.k # "bool" /\ NaN \notin {b, c}
    BY <1>5, <1>7, <1>9, <2>2 DEF Truth
  <2>3. CASE c # Unparsable /\ ~(c.k = b.k /\ b.k # "bool" /\ NaN \notin {b, c})
    BY <1>5, <1>7, <1>8, <2>3 DEF Truth
  <2> QED BY <2>1, <2>2, <2>3
<1>12. e.k = b.k /\ c # Unparsable =>
         (is(<<"in", b>>, <<"ex", e>>) = "true"
            <=> is(<<"in", b>>, << >>) = "true" /\ is(<< >>, <<"ex", e>>) = "true")
  BY <1>5, <1>6, <1>7 DEF Truth
<1> QED BY <1>11, <1>12 DEF RangesPartition, v, b, e, c, is

\* One element of an attribute under a plain rule.
Item(r, w) == IF r.op \in StringOps THEN StrictItem(w) ELSE ConvertItem(w, expected_value_type(r))
Bad(w)     == w = Unparsable \/ (w.k = "list" /\ Unparsable \in Items(w))

\* Rules on a plain rule are converted for like the rule itself.
LEMMA PlainOf ==
  ASSUME NEW r, Known(r), NEW op \in {"any", "all"}
  PROVE  LET rule == [op |-> op, inner |-> r]
         IN  /\ Collection(rule) /\ ~Collection(r) /\ ~NullEquality(rule) /\ rule.op = op /\ rule.inner = r
             /\ uses_strict_string_operator(rule) <=> r.op \in StringOps
             /\ uses_strict_string_operator(r) <=> r.op \in StringOps
             /\ expected_value_type(rule) = expected_value_type(r)
<1>1. r.op \notin {"none", "any", "all"}
  BY DEF Known
<1> QED BY <1>1 DEF Collection, NullEquality, uses_strict_string_operator, expected_value_type

\* What a list is converted to, and when that fails.
LEMMA ConvertedList ==
  ASSUME NEW v, v.k = "list", NEW r, Known(r), NEW op \in {"any", "all"}
  PROVE  LET c == convert_to_targeting_value_for_criterion(v, [op |-> op, inner |-> r])
         IN  /\ c.k = "list" /\ c.items = [i \in DOMAIN v.items |-> Item(r, v.items[i])]
             /\ FailsIn(c) <=> \E i \in DOMAIN v.items : Bad(Item(r, v.items[i]))
<1> DEFINE rule == [op |-> op, inner |-> r]
           c == convert_to_targeting_value_for_criterion(v, rule)
           items == [i \in DOMAIN v.items |-> Item(r, v.items[i])]
<1>1. c = List(items)
  <2>1. uses_strict_string_operator(rule) <=> r.op \in StringOps
    BY PlainOf
  <2>2. expected_value_type(rule) = expected_value_type(r)
    BY PlainOf
  <2> HIDE DEF rule
  <2>3. CASE r.op \in StringOps
    <3>1. c = convert_to_strict_string_operator_value(v)
      BY <2>1, <2>3 DEF convert_to_targeting_value_for_criterion
    <3>2. c = List([i \in DOMAIN v.items |-> StrictItem(v.items[i])])
      BY <3>1 DEF convert_to_strict_string_operator_value
    <3>3. items = [i \in DOMAIN v.items |-> StrictItem(v.items[i])]
      BY <2>3 DEF Item
    <3> QED BY <3>2, <3>3
  <2>4. CASE r.op \notin StringOps
    <3>1. c = convert_to_targeting_value(v, expected_value_type(r))
      BY <2>1, <2>2, <2>4 DEF convert_to_targeting_value_for_criterion
    <3>2. c = List([i \in DOMAIN v.items |-> ConvertItem(v.items[i], expected_value_type(r))])
      BY <3>1 DEF convert_to_targeting_value
    <3>3. items = [i \in DOMAIN v.items |-> ConvertItem(v.items[i], expected_value_type(r))]
      BY <2>4 DEF Item
    <3> QED BY <3>2, <3>3
  <2> QED BY <2>3, <2>4
<1>2. c.k = "list" /\ c.items = items
  BY <1>1 DEF List
<1>3. FailsIn(c) <=> \E w \in Items(c) : Bad(w)
  <2>1. c # Unparsable
    BY <1>2, KindsNamed
  <2> QED BY <1>2, <2>1 DEF FailsIn, Bad
<1>4. Items(c) = {Item(r, v.items[i]) : i \in DOMAIN v.items}
  BY <1>2 DEF Items
<1> HIDE DEF c
<1>5. FailsIn(c) <=> \E i \in DOMAIN v.items : Bad(Item(r, v.items[i]))
  BY <1>3, <1>4
<1> QED BY <1>2, <1>5 DEF c

\* A rule on a list.
LEMMA ListMatches ==
  ASSUME NEW v, v.k = "list", NEW r, Known(r), NEW op \in {"any", "all"}
  PROVE  LET on(w) == evaluate_inner_rule(r, Item(r, w))
         IN  Matches(v, [op |-> op, inner |-> r]) =
               IF \E i \in DOMAIN v.items : Bad(Item(r, v.items[i])) THEN Failed
               ELSE Truth(IF op = "all" THEN \A i \in DOMAIN v.items : on(v.items[i])
                                        ELSE \E i \in DOMAIN v.items : on(v.items[i]))
<1> DEFINE rule == [op |-> op, inner |-> r]
           c == convert_to_targeting_value_for_criterion(v, rule)
<1>1. /\ Collection(rule) /\ ~NullEquality(rule) /\ rule.op = op /\ rule.inner = r
  BY PlainOf
<1>2. /\ c.k = "list" /\ c.items = [i \in DOMAIN v.items |-> Item(r, v.items[i])]
      /\ FailsIn(c) <=> \E i \in DOMAIN v.items : Bad(Item(r, v.items[i]))
  BY ConvertedList
<1> HIDE DEF rule
<1>3. Matches(v, rule) = IF FailsIn(c) THEN Failed ELSE evaluate_criterion(rule, list_wrapper(c))
  BY <1>1 DEF Matches
<1> HIDE DEF c
<1>4. list_wrapper(c) = [i \in DOMAIN v.items |-> Item(r, v.items[i])]
  BY <1>2 DEF list_wrapper
<1> DEFINE ws == list_wrapper(c)
<1>5. DOMAIN ws = DOMAIN v.items /\ \A i \in DOMAIN v.items : ws[i] = Item(r, v.items[i])
  BY <1>4
<1> HIDE DEF ws
<1>6. evaluate_criterion(rule, ws) =
        Truth(IF op = "all" THEN \A i \in DOMAIN ws : evaluate_inner_rule(r, ws[i])
                            ELSE \E i \in DOMAIN ws : evaluate_inner_rule(r, ws[i]))
  BY <1>1 DEF evaluate_criterion
<1>7. evaluate_criterion(rule, ws) =
        Truth(IF op = "all" THEN \A i \in DOMAIN v.items : evaluate_inner_rule(r, Item(r, v.items[i]))
                            ELSE \E i \in DOMAIN v.items : evaluate_inner_rule(r, Item(r, v.items[i])))
  BY <1>5, <1>6 DEF Truth
<1> QED BY <1>2, <1>3, <1>7 DEF rule, ws

\* A rule on a list of one element.
LEMMA SingleMatches ==
  ASSUME NEW w, NEW r, Known(r), NEW op \in {"any", "all"}
  PROVE  Matches(List(<<w>>), [op |-> op, inner |-> r]) =
           IF Bad(Item(r, w)) THEN Failed ELSE Truth(evaluate_inner_rule(r, Item(r, w)))
<1> DEFINE v == List(<<w>>)
<1>1. v.k = "list" /\ v.items = <<w>>
  BY DEF List
<1>2. DOMAIN v.items = {1} /\ v.items[1] = w
  BY <1>1
<1> HIDE DEF v
<1>3. Matches(v, [op |-> op, inner |-> r]) =
        IF \E i \in DOMAIN v.items : Bad(Item(r, v.items[i])) THEN Failed
        ELSE Truth(IF op = "all" THEN \A i \in DOMAIN v.items : evaluate_inner_rule(r, Item(r, v.items[i]))
                                 ELSE \E i \in DOMAIN v.items : evaluate_inner_rule(r, Item(r, v.items[i])))
  BY <1>1, ListMatches
<1>4. /\ (\E i \in DOMAIN v.items : Bad(Item(r, v.items[i]))) <=> Bad(Item(r, w))
      /\ (\A i \in DOMAIN v.items : evaluate_inner_rule(r, Item(r, v.items[i]))) <=> evaluate_inner_rule(r, Item(r, w))
      /\ (\E i \in DOMAIN v.items : evaluate_inner_rule(r, Item(r, v.items[i]))) <=> evaluate_inner_rule(r, Item(r, w))
  BY <1>2
<1>5. Matches(v, [op |-> op, inner |-> r]) = IF Bad(Item(r, w)) THEN Failed ELSE Truth(evaluate_inner_rule(r, Item(r, w)))
  BY <1>3, <1>4 DEF Truth
<1> QED BY <1>5 DEF v

LEMMA TruthIs == Truth(TRUE) = "true" /\ Truth(FALSE) = "false" /\ Failed \notin {Truth(TRUE), Truth(FALSE)}
BY DEF Truth, Failed

\* Some of a list, of anything but null, is what the bare rule asks for.
LEMMA AnyIsBare ==
  ASSUME NEW v, v.k # "null", NEW r, Known(r), ~NullEquality(r)
  PROVE  Matches(v, AnyOf(r)) = Matches(v, r)
<1> DEFINE rule == AnyOf(r)
           c == convert_to_targeting_value_for_criterion(v, r)
           ws == list_wrapper(c)
<1>1. /\ Collection(rule) /\ ~Collection(r) /\ ~NullEquality(rule) /\ rule.op = "any" /\ rule.inner = r
      /\ uses_strict_string_operator(rule) <=> uses_strict_string_operator(r)
      /\ expected_value_type(rule) = expected_value_type(r)
  BY PlainOf DEF AnyOf
<1> HIDE DEF rule
<1>2. convert_to_targeting_value_for_criterion(v, rule) = c
  BY <1>1 DEF convert_to_targeting_value_for_criterion
<1> HIDE DEF c
<1>3. /\ Matches(v, rule) = IF FailsIn(c) THEN Failed ELSE evaluate_criterion(rule, ws)
      /\ Matches(v, r) = IF FailsIn(c) THEN Failed ELSE evaluate_criterion(r, ws)
  BY <1>1, <1>2 DEF Matches, c
<1> HIDE DEF ws
<1>4. evaluate_criterion(rule, ws) = Truth(\E i \in DOMAIN ws : evaluate_inner_rule(r, ws[i]))
  BY <1>1 DEF evaluate_criterion
<1>5. evaluate_criterion(r, ws) = Truth(\E i \in DOMAIN ws : evaluate_inner_rule(r, ws[i]))
  <2>1. r.op # "all"
    BY DEF Known
  <2> QED BY <1>1, <2>1 DEF evaluate_criterion
<1> QED BY <1>3, <1>4, <1>5 DEF rule

\* Of a single value all is some.
LEMMA AllIsAny ==
  ASSUME NEW v \in Scalars, v.k # "null", NEW r, Known(r)
  PROVE  Matches(v, AllOf(r)) = Matches(v, AnyOf(r))
<1> DEFINE any == AnyOf(r)
           all == AllOf(r)
           c == convert_to_targeting_value_for_criterion(v, any)
           ws == list_wrapper(c)
<1>1. /\ Collection(any) /\ ~NullEquality(any) /\ any.op = "any" /\ any.inner = r
      /\ Collection(all) /\ ~NullEquality(all) /\ all.op = "all" /\ all.inner = r
      /\ uses_strict_string_operator(all) <=> uses_strict_string_operator(any)
      /\ expected_value_type(all) = expected_value_type(any)
  BY PlainOf DEF AnyOf, AllOf
<1> HIDE DEF any, all
<1>2. convert_to_targeting_value_for_criterion(v, all) = c
  BY <1>1 DEF convert_to_targeting_value_for_criterion
<1>3. \E w : ws = <<w>>
  <2>1. CASE uses_strict_string_operator(any)
    <3>1. c = convert_to_strict_string_operator_value(v)
      BY <2>1 DEF convert_to_targeting_value_for_criterion
    <3>2. c = IF v.k = "string" THEN v ELSE List(<<Empty>>)
      BY <3>1 DEF convert_to_strict_string_operator_value, Scalars
    <3>3. List(<<Empty>>).k = "list" /\ List(<<Empty>>).items = <<Empty>>
      BY DEF List
    <3> HIDE DEF c
    <3>4. ws = IF v.k = "string" THEN <<v>> ELSE <<Empty>>
      BY <3>2, <3>3 DEF list_wrapper, Scalars
    <3> QED BY <3>4
  <2>2. CASE ~uses_strict_string_operator(any)
    <3>1. c = ConvertOne(v, expected_value_type(any)) /\ c.k # "list"
      BY <2>2, ConvertedApart DEF convert_to_targeting_value_for_criterion
    <3> HIDE DEF c
    <3> QED BY <3>1 DEF list_wrapper
  <2> QED BY <2>1, <2>2
<1> HIDE DEF c
<1>4. /\ Matches(v, any) = IF FailsIn(c) THEN Failed ELSE evaluate_criterion(any, ws)
      /\ Matches(v, all) = IF FailsIn(c) THEN Failed ELSE evaluate_criterion(all, ws)
  BY <1>1, <1>2 DEF Matches, c
<1> HIDE DEF ws
<1>5. /\ evaluate_criterion(any, ws) = Truth(\E i \in DOMAIN ws : evaluate_inner_rule(r, ws[i]))
      /\ evaluate_criterion(all, ws) = Truth(\A i \in DOMAIN ws : evaluate_inner_rule(r, ws[i]))
  BY <1>1 DEF evaluate_criterion
<1>6. (\E i \in DOMAIN ws : evaluate_inner_rule(r, ws[i])) <=> (\A i \in DOMAIN ws : evaluate_inner_rule(r, ws[i]))
  <2>1. PICK w : ws = <<w>>
    BY <1>3
  <2>2. DOMAIN ws = {1}
    BY <2>1
  <2> QED BY <2>2
<1>7. evaluate_criterion(any, ws) = evaluate_criterion(all, ws)
  BY <1>5, <1>6 DEF Truth
<1> QED BY <1>4, <1>7 DEF any, all

\* On a list, some and all are what they are on its elements.
LEMMA ListIsElements ==
  ASSUME NEW v, v.k = "list", NEW r, Known(r)
  PROVE  LET on(rule, i) == Matches(List(<<v.items[i]>>), rule)
         IN  /\ Matches(v, AnyOf(r)) = Either({on(AnyOf(r), i) : i \in DOMAIN v.items})
             /\ Matches(v, AllOf(r)) = "true" <=> \A i \in DOMAIN v.items : on(AllOf(r), i) = "true"
<1> DEFINE on(rule, i) == Matches(List(<<v.items[i]>>), rule)
           bad(i) == Bad(Item(r, v.items[i]))
           holds(i) == evaluate_inner_rule(r, Item(r, v.items[i]))
           results == {on(AnyOf(r), i) : i \in DOMAIN v.items}
<1>1. \A i \in DOMAIN v.items :
         /\ on(AnyOf(r), i) = IF bad(i) THEN Failed ELSE Truth(holds(i))
         /\ on(AllOf(r), i) = IF bad(i) THEN Failed ELSE Truth(holds(i))
  BY SingleMatches DEF AnyOf, AllOf
<1>2. Matches(v, AnyOf(r)) = IF \E i \in DOMAIN v.items : bad(i) THEN Failed
                             ELSE Truth(\E i \in DOMAIN v.items : holds(i))
  BY ListMatches DEF AnyOf
<1>3. Matches(v, AllOf(r)) = IF \E i \in DOMAIN v.items : bad(i) THEN Failed
                             ELSE Truth(\A i \in DOMAIN v.items : holds(i))
  BY ListMatches DEF AllOf
<1> HIDE DEF on, bad, holds
<1>4. Matches(v, AnyOf(r)) = Either(results)
  <2>1. Failed \in results <=> \E i \in DOMAIN v.items : bad(i)
    BY <1>1 DEF Truth, Failed
  <2>2. (~ \E i \in DOMAIN v.items : bad(i)) => ("true" \in results <=> \E i \in DOMAIN v.items : holds(i))
    BY <1>1 DEF Truth
  <2> HIDE DEF results
  <2> QED BY <1>2, <2>1, <2>2 DEF Either, Truth
<1>5. Matches(v, AllOf(r)) = "true" <=> \A i \in DOMAIN v.items : on(AllOf(r), i) = "true"
  BY <1>1, <1>3 DEF Truth, Failed
<1> QED BY <1>4, <1>5 DEF on, results

\* A set holds of what equals one of its members.
LEMMA SetIsMembers ==
  ASSUME NEW v, NEW r, Known(r), r.op = "set", expected_value_type(r) # "none",
         \A i \in DOMAIN r.values : r.values[i].k = r.values[1].k,
         r.values \in Seq({r.values[i] : i \in DOMAIN r.values})
  PROVE  Matches(v, r) = Either({Matches(v, [op |-> "eq", value |-> r.values[i]]) : i \in DOMAIN r.values})
<1> DEFINE eq(i) == [op |-> "eq", value |-> r.values[i]]
           kind == expected_value_type(r)
           c == convert_to_targeting_value(v, kind)
           ws == list_wrapper(c)
           holds(i) == \E j \in DOMAIN ws : Same(ws[j], r.values[i])
           results == {Matches(v, eq(i)) : i \in DOMAIN r.values}
<1>1. ~Collection(r) /\ ~uses_strict_string_operator(r) /\ ~NullEquality(r)
  BY DEF Collection, uses_strict_string_operator, NullEquality, StringOps
<1>2. r.values # << >> /\ kind = Content(r.values[1])
  <2>1. kind = ExpectedPlain(r)
    BY <1>1 DEF expected_value_type
  <2>2. ExpectedPlain(r) = IF r.values = << >> THEN "none" ELSE Content(r.values[1])
    BY DEF ExpectedPlain, StringOps
  <2> QED BY <2>1, <2>2
<1>3. 1 \in DOMAIN r.values
  BY <1>2, EmptySeq
<1>4. ASSUME NEW i \in DOMAIN r.values
      PROVE  /\ ~Collection(eq(i)) /\ ~uses_strict_string_operator(eq(i)) /\ ~NullEquality(eq(i)) /\ Known(eq(i))
             /\ expected_value_type(eq(i)) = kind /\ eq(i).op = "eq" /\ eq(i).value = r.values[i]
  <2>1. eq(i).op = "eq" /\ eq(i).value = r.values[i]
    OBVIOUS
  <2>2. r.values[i].k \notin {"empty", "absent"} /\ kind = r.values[i].k
    BY <1>2 DEF Content
  <2>3. Empty.k = "empty"
    BY DEF Empty, TypedValue
  <2> HIDE DEF eq
  <2> QED BY <1>2, <2>1, <2>2, <2>3
          DEF Collection, uses_strict_string_operator, NullEquality, Known, StringOps, expected_value_type, ExpectedPlain, Content
<1> HIDE DEF eq, kind
<1>5. convert_to_targeting_value_for_criterion(v, r) = c
  BY <1>1 DEF convert_to_targeting_value_for_criterion, kind
<1>6. ASSUME NEW i \in DOMAIN r.values PROVE convert_to_targeting_value_for_criterion(v, eq(i)) = c
  BY <1>4 DEF convert_to_targeting_value_for_criterion
<1> HIDE DEF c
<1>7. Matches(v, r) = IF FailsIn(c) THEN Failed ELSE evaluate_criterion(r, ws)
  BY <1>1, <1>5 DEF Matches
<1>8. ASSUME NEW i \in DOMAIN r.values
      PROVE  Matches(v, eq(i)) = IF FailsIn(c) THEN Failed ELSE evaluate_criterion(eq(i), ws)
  BY <1>4, <1>6 DEF Matches
<1> HIDE DEF ws
<1>9. evaluate_criterion(r, ws) = Truth(\E i \in DOMAIN r.values : holds(i))
  <2>1. evaluate_criterion(r, ws) = Truth(\E j \in DOMAIN ws : evaluate_inner_rule(r, ws[j]))
    BY <1>1 DEF evaluate_criterion
  <2>2. \A j \in DOMAIN ws : evaluate_inner_rule(r, ws[j]) <=> \E i \in DOMAIN r.values : Same(r.values[i], ws[j])
    BY DEF evaluate_inner_rule
  <2>4. \A i \in DOMAIN r.values, j \in DOMAIN ws : Same(ws[j], r.values[i]) <=> Same(r.values[i], ws[j])
    BY DEF Same
  <2>3. (\E j \in DOMAIN ws : evaluate_inner_rule(r, ws[j])) <=> \E i \in DOMAIN r.values : holds(i)
    BY <2>2, <2>4
  <2> QED BY <2>1, <2>3 DEF Truth
<1>10. ASSUME NEW i \in DOMAIN r.values PROVE evaluate_criterion(eq(i), ws) = Truth(holds(i))
  <2>1. evaluate_criterion(eq(i), ws) = Truth(\E j \in DOMAIN ws : evaluate_inner_rule(eq(i), ws[j]))
    BY <1>4 DEF evaluate_criterion
  <2>2. \A j \in DOMAIN ws : evaluate_inner_rule(eq(i), ws[j]) <=> Same(ws[j], r.values[i])
    BY <1>4 DEF evaluate_inner_rule
  <2>3. (\E j \in DOMAIN ws : evaluate_inner_rule(eq(i), ws[j])) <=> holds(i)
    BY <2>2
  <2> QED BY <2>1, <2>3 DEF Truth
<1> HIDE DEF holds
<1>11. Matches(v, r) = Either(results)
  <2>1. CASE FailsIn(c)
    <3>1. Failed \in results
      BY <1>3, <1>8, <2>1
    <3> QED BY <1>7, <2>1, <3>1 DEF Either
  <2>2. CASE ~FailsIn(c)
    <3>1. results = {Truth(holds(i)) : i \in DOMAIN r.values}
      BY <1>8, <1>10, <2>2
    <3>2. Failed \notin results /\ ("true" \in results <=> \E i \in DOMAIN r.values : holds(i))
      BY <3>1 DEF Truth, Failed
    <3> QED BY <1>7, <1>9, <2>2, <3>2 DEF Either, Truth
  <2> QED BY <2>1, <2>2
<1> QED BY <1>11 DEF results, eq

LEMMA CollectionsLaw == Picked => CollectionsAgree
<1> SUFFICES ASSUME Picked, input.law = "collection" PROVE CollectionsAgree
  BY DEF CollectionsAgree
<1> DEFINE v == input.of[1]
           r == input.of[2]
<1>1. v \in Attributes /\ r \in PlainRules
  BY DEF Picked
<1>2. r.op = "set" => r.values \in Seq({r.values[i] : i \in DOMAIN r.values})
  BY <1>1, AttributesAssumption
<1> HIDE DEF v, r
<1>3. ASSUME Known(r), ~NullEquality(r)
      PROVE  /\ v.k # "null" => Matches(v, AnyOf(r)) = Matches(v, r)
             /\ v.k \notin {"null", "list"} => Matches(v, AllOf(r)) = Matches(v, AnyOf(r))
             /\ r.op = "set" /\ expected_value_type(r) # "none" /\ (\A i \in DOMAIN r.values : r.values[i].k = r.values[1].k) =>
                  Matches(v, r) = Either({Matches(v, [op |-> "eq", value |-> r.values[i]]) : i \in DOMAIN r.values})
  <2>1. v.k # "null" => Matches(v, AnyOf(r)) = Matches(v, r)
    BY <1>3, AnyIsBare
  <2>2. v.k \notin {"null", "list"} => Matches(v, AllOf(r)) = Matches(v, AnyOf(r))
    BY <1>1, <1>3, AllIsAny DEF Scalars
  <2>3. ASSUME r.op = "set", expected_value_type(r) # "none", \A i \in DOMAIN r.values : r.values[i].k = r.values[1].k
        PROVE  Matches(v, r) = Either({Matches(v, [op |-> "eq", value |-> r.values[i]]) : i \in DOMAIN r.values})
    BY <1>2, <1>3, <2>3, SetIsMembers
  <2> QED BY <2>1, <2>2, <2>3
<1>4. ASSUME Known(r), v.k = "list"
      PROVE  /\ Matches(v, AnyOf(r)) = Either({Matches(List(<<v.items[i]>>), AnyOf(r)) : i \in DOMAIN v.items})
             /\ Matches(v, AllOf(r)) = "true" <=> \A i \in DOMAIN v.items : Matches(List(<<v.items[i]>>), AllOf(r)) = "true"
  BY <1>4, ListIsElements
<1> QED BY <1>3, <1>4 DEF CollectionsAgree, v, r

(* Ranges cut the values of their kind in two and rules on lists are the   *)
(* rules on their elements: the lists, sets and orders may be of any       *)
(* length (evaluate_range_rule, evaluate_criterion).                       *)
THEOREM CriteriaCorrect == DataSpec => []CriteriaSound
<1>1. Picked => CriteriaSound
  BY RangesLaw, CollectionsLaw DEF CriteriaSound
<1> QED BY <1>1, PickedAlways, PTL

-----------------------------------------------------------------------------
(* Queue shards.                                                           *)

\* The shards are those before the first gap.
LEMMA Discovered ==
  ASSUME NEW bound \in ShardSets
  PROVE  discover(bound) \in Nat /\ 1 .. discover(bound) \subseteq bound
<1>1. CASE 1 \notin bound
  BY <1>1 DEF discover
<1>2. CASE 1 \in bound
  <2> DEFINE gaps == {n \in Nat : n >= 1 /\ n + 1 \notin bound}
  <2>1. bound \subseteq 1 .. MaxShards /\ MaxShards \in Nat /\ MaxShards >= 1
    BY <1>2, CountsAssumption DEF ShardSets
  <2>2. MaxShards \in gaps
    BY <2>1
  <2>3. PICK n \in gaps : \A m \in gaps : n <= m
    <3>1. gaps \in SUBSET Nat /\ gaps # {}
      BY <2>2
    <3> HIDE DEF gaps
    <3> QED BY <3>1, LeastNumber
  <2>4. ASSUME NEW m \in 1 .. n PROVE m \in bound
    <3>1. CASE m = 1
      BY <1>2, <3>1
    <3>2. CASE m # 1
      <4>1. m - 1 \in Nat /\ m - 1 >= 1 /\ m - 1 < n /\ m - 1 + 1 = m
        BY <3>2
      <4>2. m - 1 \notin gaps
        BY <2>3, <4>1
      <4> QED BY <4>1, <4>2
    <3> QED BY <3>1, <3>2
  <2>5. n \in bound /\ 1 .. n \subseteq bound /\ n + 1 \notin bound
    BY <2>3, <2>4
  <2>6. discover(bound) \in bound /\ 1 .. discover(bound) \subseteq bound
    BY <1>2, <2>5 DEF discover
  <2>7. \A m \in bound : m \in Nat
    BY <2>1
  <2> HIDE DEF gaps
  <2> QED BY <2>6, <2>7
<1> QED BY <1>1, <1>2

\* From wherever it begins, the walk meets every shard.
LEMMA WalkMeets ==
  ASSUME NEW len \in Nat \ {0}, NEW start \in 0 .. len - 1
  PROVE  /\ DOMAIN Walk(len, start) = 1 .. len
         /\ \A o \in 1 .. len : Walk(len, start)[o] \in 1 .. len
         /\ \A x \in 1 .. len : \E o \in 1 .. len : Walk(len, start)[o] = x
<1>1. \A o \in 1 .. len : Walk(len, start)[o] = ((start + o - 1) % len) + 1
  BY DEF Walk
<1>2. ASSUME NEW o \in 1 .. len PROVE Walk(len, start)[o] \in 1 .. len
  <2>1. start + o - 1 \in Nat
    OBVIOUS
  <2>2. (start + o - 1) % len \in Nat /\ (start + o - 1) % len < len
    BY <2>1, DivMod
  <2> QED BY <1>1, <2>2
<1>3. ASSUME NEW x \in 1 .. len PROVE \E o \in 1 .. len : Walk(len, start)[o] = x
  <2>1. x - 1 \in Nat /\ x - 1 < len
    OBVIOUS
  <2>2. \A q \in Nat : ((len * q + (x - 1)) % len) = x - 1
    BY <2>1, DivUnique
  <2>3. ((x - 1) % len) = x - 1 /\ ((len + (x - 1)) % len) = x - 1
    <3>1. ((len * 0 + (x - 1)) % len) = x - 1 /\ ((len * 1 + (x - 1)) % len) = x - 1
      BY <2>2
    <3>2. len * 0 + (x - 1) = x - 1 /\ len * 1 + (x - 1) = len + (x - 1)
      OBVIOUS
    <3> QED BY <3>1, <3>2
  <2>4. CASE x > start
    <3>1. x - start \in 1 .. len /\ start + (x - start) - 1 = x - 1
      BY <2>4
    <3>2. Walk(len, start)[x - start] = ((x - 1) % len) + 1
      BY <1>1, <3>1
    <3> QED BY <2>3, <3>1, <3>2
  <2>5. CASE x <= start
    <3>1. x + len - start \in 1 .. len /\ start + (x + len - start) - 1 = len + (x - 1)
      BY <2>5
    <3>2. Walk(len, start)[x + len - start] = ((len + (x - 1)) % len) + 1
      BY <1>1, <3>1
    <3> QED BY <2>3, <3>1, <3>2
  <2> QED BY <2>4, <2>5
<1> QED BY <1>2, <1>3 DEF Walk

LEMMA ShardsLaw == Picked => ShardFound
<1> SUFFICES ASSUME Picked, input.law = "shards" PROVE ShardFound
  BY DEF ShardFound
<1> DEFINE bound == input.of[1]
           up    == input.of[2]
           k     == input.of[3]
           len   == discover(bound)
           start == select_index(len, k, SAMPLES)
           tried == Walk(len, start)
           good  == {i \in DOMAIN tried : tried[i] \in up}
           sent  == send_to_any(len, up, k, SAMPLES)
<1>1. bound \in ShardSets /\ k \in Nat /\ SAMPLES \in Nat \ {0}
  BY CountsAssumption DEF Picked
<1>2. len \in Nat /\ 1 .. len \subseteq bound
  BY <1>1, Discovered
<1>3. sent = IF good = {} THEN 0 ELSE tried[CHOOSE i \in good : \A j \in good : i <= j]
  BY DEF send_to_any
<1> HIDE DEF bound, up, k, len, start, sent
<1>4. CASE len = 0
  <2>1. DOMAIN tried = {}
    BY <1>4 DEF Walk
  <2>2. sent = 0
    BY <1>3, <2>1
  <2>3. (1 .. len) \cap up = {} /\ ~(len > 0)
    BY <1>4
  <2> QED BY <2>2, <2>3 DEF ShardFound, bound, up, k, len, sent
<1>5. CASE len # 0
  <2>1. start \in 0 .. len - 1
    <3>1. (k * len) \div SAMPLES \in Nat
      <4>1. k * len \in Nat
        BY <1>1, <1>2
      <4> QED BY <1>1, <4>1, DivMod
    <3>2. ((k * len) \div SAMPLES) % len \in Nat /\ ((k * len) \div SAMPLES) % len < len
      BY <1>2, <1>5, <3>1, DivMod
    <3> QED BY <1>2, <1>5, <3>2 DEF start, select_index
  <2>2. /\ DOMAIN tried = 1 .. len
        /\ \A o \in 1 .. len : tried[o] \in 1 .. len
        /\ \A x \in 1 .. len : \E o \in 1 .. len : tried[o] = x
    BY <1>2, <1>5, <2>1, WalkMeets
  <2> HIDE DEF tried
  <2>3. good # {} <=> (1 .. len) \cap up # {}
    BY <2>2
  <2>4. good # {} => (CHOOSE i \in good : \A j \in good : i <= j) \in good
    <3>1. good \in SUBSET Nat
      BY <1>2, <2>2
    <3> HIDE DEF good
    <3> QED BY <3>1, LeastNumber
  <2>5. good # {} => sent \in (1 .. len) \cap up
    BY <1>3, <2>2, <2>4
  <2>6. good = {} => sent = 0
    BY <1>3
  <2>7. sent # 0 <=> (1 .. len) \cap up # {}
    BY <1>2, <2>3, <2>5, <2>6
  <2>8. sent # 0 => sent \in bound \cap up
    BY <1>2, <2>5, <2>6
  <2>9. {1} \subseteq bound
    BY <1>2, <1>5
  <2> QED BY <2>7, <2>8, <2>9 DEF ShardFound, bound, up, k, len, sent
<1> QED BY <1>4, <1>5

-----------------------------------------------------------------------------
(* The mask of the flags that are kept.                                    *)

Masked == [words : Seq(SUBSET Nat), small : SUBSET Nat, count : Nat]

\* A mask for n flags.
MaskFor(m, n) ==
  /\ m \in Masked
  /\ Len(m.words) = IF n > MASK_BITS THEN n \div MASK_BITS + 1 ELSE 0

\* A flag has a bit of its own, and the mask has it.
LEMMA BitApart ==
  ASSUME NEW n \in Nat, NEW a \in 0 .. n - 1, NEW b \in 0 .. n - 1
  PROVE  /\ a \div MASK_BITS \in Nat /\ a % MASK_BITS \in Nat
         /\ a \div MASK_BITS + 1 <= n \div MASK_BITS + 1
         /\ a \div MASK_BITS = b \div MASK_BITS /\ a % MASK_BITS = b % MASK_BITS => a = b
         /\ n <= MASK_BITS => a < MASK_BITS /\ a % MASK_BITS = a
<1> DEFINE d == MASK_BITS
<1>1. d \in Nat \ {0} /\ a \in Nat /\ b \in Nat
  BY DedupKeyAssumption
<1>2. /\ a \div d \in Nat /\ a % d \in Nat /\ a = d * (a \div d) + (a % d)
      /\ b \div d \in Nat /\ b % d \in Nat /\ b = d * (b \div d) + (b % d)
      /\ n \div d \in Nat /\ n = d * (n \div d) + (n % d) /\ n % d \in Nat /\ n % d < d
  BY <1>1, DivMod
<1>3. a \div d = b \div d /\ a % d = b % d => a = b
  BY <1>2
<1>4. a \div d + 1 <= n \div d + 1
  <2> DEFINE q == n \div d
  <2>1. q \in Nat /\ n = d * q + (n % d) /\ n % d \in Nat /\ n % d < d
    BY <1>2
  <2> HIDE DEF q
  <2>2. d * (q + 1) = d * q + d /\ d * q \in Nat
    BY <1>1, <2>1
  <2>3. a < d * (q + 1)
    BY <1>1, <2>1, <2>2
  <2>4. \A k \in Nat : a < d * k => a \div d < k
    BY <1>1, DivLess
  <2>5. q + 1 \in Nat
    BY <2>1
  <2>6. a \div d < q + 1
    BY <2>3, <2>4, <2>5
  <2> QED BY <1>2, <2>1, <2>6 DEF q
<1>5. ASSUME n <= d PROVE a < d /\ a % d = a
  <2>1. \A q \in Nat : ((d * q + a) % d) = a
    BY <1>1, <1>5, DivUnique
  <2>2. ((d * 0 + a) % d) = a /\ d * 0 + a = a
    BY <1>1, <2>1
  <2> QED BY <1>1, <1>5, <2>2
<1> QED BY <1>2, <1>3, <1>4, <1>5

\* Marking a flag keeps it, and changes no other's bit.
LEMMA MarkOne ==
  ASSUME NEW n \in Nat, NEW m, MaskFor(m, n), NEW idx \in 0 .. n - 1
  PROVE  /\ MaskFor(mark(m, idx), n) /\ mark(m, idx).count = m.count + 1
         /\ \A j \in 0 .. n - 1 : is_kept(mark(m, idx), j) <=> j = idx \/ is_kept(m, j)
<1> DEFINE w == idx \div MASK_BITS + 1
           bit == idx % MASK_BITS
           to == mark(m, idx)
<1>1. m \in Masked /\ Len(m.words) \in Nat
  BY DEF MaskFor, Masked
<1>2. w - 1 \in Nat /\ w \in Nat /\ bit \in Nat /\ w <= n \div MASK_BITS + 1 /\ (n <= MASK_BITS => idx < MASK_BITS)
  BY BitApart
<1>3. ASSUME NEW j \in 0 .. n - 1
      PROVE  /\ j = idx <=> j \div MASK_BITS + 1 = w /\ j % MASK_BITS = bit
             /\ j \div MASK_BITS + 1 \in Nat /\ j \div MASK_BITS + 1 >= 1 /\ j \div MASK_BITS + 1 <= n \div MASK_BITS + 1
             /\ n <= MASK_BITS => j < MASK_BITS /\ j % MASK_BITS = j /\ bit = idx
  <2>1. /\ j \div MASK_BITS \in Nat /\ j \div MASK_BITS + 1 <= n \div MASK_BITS + 1
        /\ j \div MASK_BITS = idx \div MASK_BITS /\ j % MASK_BITS = idx % MASK_BITS => j = idx
        /\ n <= MASK_BITS => j < MASK_BITS /\ j % MASK_BITS = j
    BY BitApart
  <2>2. n <= MASK_BITS => bit = idx
    BY BitApart
  <2>3. idx \div MASK_BITS \in Nat
    BY BitApart
  <2> QED BY <2>1, <2>2, <2>3
<1> HIDE DEF w, bit
<1>4. CASE n > MASK_BITS
  <2>1. m.words # << >> /\ w \in 1 .. Len(m.words) /\ w <= Len(m.words)
    BY <1>1, <1>2, <1>4, EmptySeq DEF MaskFor, w
  <2> DEFINE counted == [m EXCEPT !.count = @ + 1]
  <2>2. to = [counted EXCEPT !.words[w] = @ \cup {bit}]
    BY <2>1 DEF mark, w, bit
  <2>3. /\ to.words = [m.words EXCEPT ![w] = @ \cup {bit}] /\ to.small = m.small /\ to.count = m.count + 1
        /\ to = [words |-> to.words, small |-> to.small, count |-> to.count]
    BY <1>1, <2>2 DEF Masked
  <2> HIDE DEF to, counted
  <2>4. m.words \in Seq(SUBSET Nat) /\ m.words[w] \in SUBSET Nat
    BY <1>1, <2>1 DEF Masked
  <2>5. to.words \in Seq(SUBSET Nat) /\ Len(to.words) = Len(m.words)
        /\ \A x \in 1 .. Len(m.words) : to.words[x] = IF x = w THEN m.words[w] \cup {bit} ELSE m.words[x]
    BY <1>2, <2>1, <2>3, <2>4
  <2>6. to \in Masked
    <3>1. m.small \in SUBSET Nat /\ m.count \in Nat
      BY <1>1 DEF Masked
    <3>2. to.small \in SUBSET Nat /\ to.count \in Nat
      BY <2>3, <3>1
    <3> QED BY <2>3, <2>5, <3>2 DEF Masked
  <2>7. MaskFor(to, n)
    BY <2>5, <2>6 DEF MaskFor
  <2>8. ASSUME NEW j \in 0 .. n - 1 PROVE is_kept(to, j) <=> j = idx \/ is_kept(m, j)
    <3> DEFINE x == j \div MASK_BITS + 1
    <3>1. x \in 1 .. Len(m.words) /\ x <= Len(m.words) /\ (j = idx <=> x = w /\ j % MASK_BITS = bit)
      BY <1>1, <1>3, <1>4 DEF MaskFor
    <3>2. to.words # << >>
      BY <1>1, <2>1, <2>5, EmptySeq
    <3>3. (is_kept(to, j) <=> j % MASK_BITS \in to.words[x]) /\ (is_kept(m, j) <=> j % MASK_BITS \in m.words[x])
      BY <2>1, <2>5, <3>1, <3>2 DEF is_kept
    <3> HIDE DEF x
    <3> QED BY <2>5, <3>1, <3>3
  <2> QED BY <2>3, <2>7, <2>8 DEF to
<1>5. CASE ~(n > MASK_BITS)
  <2>1. n <= MASK_BITS
    BY <1>5, DedupKeyAssumption
  <2>2. m.words = << >>
    BY <1>1, <1>5 DEF MaskFor, Masked
  <2> DEFINE counted == [m EXCEPT !.count = @ + 1]
  <2>3. to = [counted EXCEPT !.small = @ \cup {bit}]
    BY <1>2, <2>1, <2>2 DEF mark, bit
  <2>4. /\ to.words = m.words /\ to.small = m.small \cup {bit} /\ to.count = m.count + 1
        /\ to = [words |-> to.words, small |-> to.small, count |-> to.count]
    BY <1>1, <2>3 DEF Masked
  <2> HIDE DEF to, counted
  <2>5. to \in Masked
    <3>1. m.words \in Seq(SUBSET Nat) /\ m.small \in SUBSET Nat /\ m.count \in Nat
      BY <1>1 DEF Masked
    <3>2. to.words \in Seq(SUBSET Nat) /\ to.small \in SUBSET Nat /\ to.count \in Nat
      BY <1>2, <2>4, <3>1
    <3> QED BY <2>4, <3>2 DEF Masked
  <2>6. MaskFor(to, n)
    BY <2>4, <2>5 DEF MaskFor
  <2>7. ASSUME NEW j \in 0 .. n - 1 PROVE is_kept(to, j) <=> j = idx \/ is_kept(m, j)
    <3>1. j < MASK_BITS /\ j % MASK_BITS = j /\ bit = idx
      BY <1>3, <2>1
    <3> QED BY <2>2, <2>4, <3>1 DEF is_kept
  <2> QED BY <2>4, <2>6, <2>7 DEF to
<1> QED BY <1>4, <1>5

LEMMA MarkNone ==
  ASSUME NEW n \in Nat
  PROVE  /\ MaskFor(DedupResult(n), n) /\ DedupResult(n).count = 0
         /\ \A j \in 0 .. n - 1 : ~is_kept(DedupResult(n), j)
<1> DEFINE m == DedupResult(n)
           len == n \div MASK_BITS + 1
<1>1. len \in Nat /\ len >= 1
  BY DedupKeyAssumption, DivMod
<1>2. /\ m.words = (IF n > MASK_BITS THEN [i \in 1 .. len |-> {}] ELSE << >>) /\ m.small = {} /\ m.count = 0
      /\ m = [words |-> m.words, small |-> m.small, count |-> m.count]
  BY DEF DedupResult
<1> HIDE DEF m, len
<1>3. /\ m.words \in Seq(SUBSET Nat) /\ Len(m.words) = IF n > MASK_BITS THEN len ELSE 0
      /\ \A x \in 1 .. Len(m.words) : m.words[x] = {}
  <2>1. CASE n > MASK_BITS
    <3>1. m.words = [i \in 1 .. len |-> {}]
      BY <1>2, <2>1
    <3>2. m.words \in Seq(SUBSET Nat) /\ Len(m.words) = len
      BY <1>1, <3>1
    <3> QED BY <2>1, <3>1, <3>2
  <2>2. CASE ~(n > MASK_BITS)
    <3>1. m.words = << >>
      BY <1>2, <2>2
    <3>2. m.words \in Seq(SUBSET Nat) /\ Len(m.words) = 0
      BY <3>1
    <3> QED BY <2>2, <3>2
  <2> QED BY <2>1, <2>2
<1>4. MaskFor(m, n) /\ m.count = 0
  <2>1. m.small \in SUBSET Nat /\ m.count \in Nat
    BY <1>2
  <2>2. m \in Masked
    BY <1>2, <1>3, <2>1 DEF Masked
  <2> QED BY <1>2, <1>3, <2>2 DEF MaskFor, len
<1>5. ASSUME NEW j \in 0 .. n - 1 PROVE ~is_kept(m, j)
  <2> DEFINE x == j \div MASK_BITS + 1
  <2>1. x \in Nat /\ x >= 1
    <3>1. j \in Nat /\ MASK_BITS \in Nat \ {0}
      BY DedupKeyAssumption
    <3>2. j \div MASK_BITS \in Nat
      BY <3>1, DivMod
    <3> QED BY <3>2
  <2>2. Len(m.words) \in Nat
    BY <1>3
  <2>3. x <= Len(m.words) => m.words[x] = {}
    <3> HIDE DEF x
    <3> QED BY <1>3, <2>1, <2>2
  <2> QED BY <1>2, <2>3 DEF is_kept
<1> QED BY <1>4, <1>5 DEF m

\* Some of the flags 1 .. n, and those up to i.
Among(kept, n) == kept \in SUBSET (1 .. n)
UpTo(kept, i) == {j \in kept : j <= i}

LEMMA UpToIs ==
  ASSUME NEW n \in Nat, NEW kept, Among(kept, n)
  PROVE  /\ UpTo(kept, 0) = {} /\ UpTo(kept, n) = kept
         /\ \A i \in 0 .. n - 1 : /\ i + 1 \in kept => UpTo(kept, i + 1) = UpTo(kept, i) \cup {i + 1}
                                  /\ i + 1 \notin kept => UpTo(kept, i + 1) = UpTo(kept, i)
                                  /\ i + 1 \notin UpTo(kept, i)
<1>1. \A j \in kept : j \in Int /\ 1 <= j /\ j <= n
  BY DEF Among
<1>2. UpTo(kept, 0) = {} /\ UpTo(kept, n) = kept
  BY <1>1 DEF UpTo
<1>3. ASSUME NEW i \in 0 .. n - 1
      PROVE  /\ i + 1 \in kept => UpTo(kept, i + 1) = UpTo(kept, i) \cup {i + 1}
             /\ i + 1 \notin kept => UpTo(kept, i + 1) = UpTo(kept, i)
             /\ i + 1 \notin UpTo(kept, i)
  <2>1. i \in Int
    OBVIOUS
  <2>2. \A j \in kept : j <= i + 1 <=> j <= i \/ j = i + 1
    BY <1>1, <2>1
  <2>3. ~(i + 1 <= i)
    BY <2>1
  <2> QED BY <2>2, <2>3 DEF UpTo
<1> QED BY <1>2, <1>3

LEMMA UpToCounts ==
  ASSUME NEW n \in Nat, NEW kept, Among(kept, n)
  PROVE  \A i \in 0 .. n - 1 : i + 1 \in kept => Cardinality(UpTo(kept, i + 1)) = Cardinality(UpTo(kept, i)) + 1
<1> SUFFICES ASSUME NEW i \in 0 .. n - 1, i + 1 \in kept
             PROVE  Cardinality(UpTo(kept, i + 1)) = Cardinality(UpTo(kept, i)) + 1
  OBVIOUS
<1>1. UpTo(kept, i + 1) = UpTo(kept, i) \cup {i + 1} /\ i + 1 \notin UpTo(kept, i)
  <2>1. \A k \in 0 .. n - 1 : /\ k + 1 \in kept => UpTo(kept, k + 1) = UpTo(kept, k) \cup {k + 1}
                              /\ k + 1 \notin UpTo(kept, k)
    BY UpToIs
  <2> QED BY <2>1
<1>2. IsFiniteSet(UpTo(kept, i))
  <2>1. UpTo(kept, i) \subseteq 1 .. n
    BY DEF UpTo, Among
  <2>2. IsFiniteSet(1 .. n)
    BY FS_Interval
  <2> QED BY <2>1, <2>2, FS_Subset
<1> QED BY <1>1, <1>2, FS_AddElement

\* What the mask keeps and counts when the flags up to i have been seen.
LEMMA MarkedIs ==
  ASSUME NEW n \in Nat, NEW kept, Among(kept, n)
  PROVE  /\ Marked(n, kept).count = Cardinality(kept)
         /\ \A j \in 1 .. n : is_kept(Marked(n, kept), j - 1) <=> j \in kept
<1> DEFINE body(f) == [i \in 0 .. n |-> IF i = 0 THEN DedupResult(n)
                                        ELSE IF i \in kept THEN mark(f[i - 1], i - 1) ELSE f[i - 1]]
           the == CHOOSE f : f = body(f)
           V   == {m \in Masked : MaskFor(m, n)}
           step == [p \in (1 .. n) \X V |-> IF p[1] \in kept THEN mark(p[2], p[1] - 1) ELSE p[2]]
<1>1. \A m : m \in V <=> MaskFor(m, n)
  BY DEF MaskFor
<1> HIDE DEF V
<1>2. DedupResult(n) \in V
  BY <1>1, MarkNone
<1>3. ASSUME NEW m \in V, NEW idx \in 0 .. n - 1
      PROVE  /\ mark(m, idx) \in V /\ mark(m, idx).count = m.count + 1
             /\ \A j \in 0 .. n - 1 : is_kept(mark(m, idx), j) <=> j = idx \/ is_kept(m, j)
  BY <1>1, MarkOne
<1>4. step \in [(1 .. n) \X V -> V]
  <2>1. ASSUME NEW p \in (1 .. n) \X V
        PROVE  (IF p[1] \in kept THEN mark(p[2], p[1] - 1) ELSE p[2]) \in V
    <3>1. p[2] \in V /\ p[1] - 1 \in 0 .. n - 1
      OBVIOUS
    <3> QED BY <1>3, <3>1
  <2> QED BY <2>1
<1>5. \E f : f = body(f) /\ f \in [0 .. n -> V]
  <2>1. PICK f \in [0 .. n -> V] : \A i \in 0 .. n : f[i] = IF i = 0 THEN DedupResult(n) ELSE step[<<i, f[i - 1]>>]
    <3> HIDE DEF step
    <3>1. Iteration(V, n, DedupResult(n), step)
      BY <1>2, <1>4 DEF Iteration
    <3>2. \E f : Iterates(f, V, n, DedupResult(n), step)
      BY <3>1, IterationExists
    <3> QED BY <3>2 DEF Iterates
  <2>2. ASSUME NEW i \in 0 .. n
        PROVE  f[i] = IF i = 0 THEN DedupResult(n) ELSE IF i \in kept THEN mark(f[i - 1], i - 1) ELSE f[i - 1]
    <3>1. CASE i = 0
      BY <2>1, <3>1
    <3>2. CASE i # 0
      <4>1. i \in 1 .. n /\ i - 1 \in 0 .. n
        BY <3>2
      <4>2. <<i, f[i - 1]>> \in (1 .. n) \X V
        BY <2>1, <4>1
      <4>3. f[i] = step[<<i, f[i - 1]>>]
        BY <2>1, <3>2
      <4> QED BY <3>2, <4>2, <4>3
    <3> QED BY <3>1, <3>2
  <2>3. f = body(f)
    <3> HIDE DEF V
    <3> QED BY <2>1, <2>2
  <2> QED BY <2>1, <2>3
<1>6. the = body(the)
  <2> HIDE DEF body
  <2> QED BY <1>5
<1>7. Marked(n, kept) = the[n]
  BY DEF Marked
<1> HIDE DEF the
<1>8. /\ the[0] = DedupResult(n)
      /\ \A i \in 0 .. n - 1 : the[i + 1] = IF i + 1 \in kept THEN mark(the[i], i) ELSE the[i]
  <2>1. \A i \in 0 .. n : the[i] = IF i = 0 THEN DedupResult(n) ELSE IF i \in kept THEN mark(the[i - 1], i - 1) ELSE the[i - 1]
    BY <1>6
  <2>2. the[0] = DedupResult(n)
    BY <2>1
  <2>3. ASSUME NEW i \in 0 .. n - 1 PROVE the[i + 1] = IF i + 1 \in kept THEN mark(the[i], i) ELSE the[i]
    <3>1. i + 1 \in 0 .. n /\ i + 1 # 0 /\ i + 1 - 1 = i
      OBVIOUS
    <3> QED BY <2>1, <3>1
  <2> QED BY <2>2, <2>3
<1> HIDE DEF body
<1> DEFINE good(i) == /\ the[i] \in V /\ the[i].count = Cardinality(UpTo(kept, i))
                      /\ \A j \in 0 .. n - 1 : is_kept(the[i], j) <=> j + 1 \in UpTo(kept, i)
           T == {i \in 0 .. n : good(i)}
<1>9. good(0)
  <2>1. UpTo(kept, 0) = {}
    BY UpToIs
  <2>2. Cardinality(UpTo(kept, 0)) = 0
    BY <2>1, FS_EmptySet
  <2> QED BY <1>2, <1>8, <2>1, <2>2, MarkNone
<1>10. ASSUME NEW i \in 0 .. n - 1, good(i) PROVE good(i + 1)
  <2>1. /\ i + 1 \in kept => UpTo(kept, i + 1) = UpTo(kept, i) \cup {i + 1}
        /\ i + 1 \notin kept => UpTo(kept, i + 1) = UpTo(kept, i)
        /\ i + 1 \in kept => Cardinality(UpTo(kept, i + 1)) = Cardinality(UpTo(kept, i)) + 1
    <3> HIDE DEF good, T
    <3>1. \A k \in 0 .. n - 1 : /\ k + 1 \in kept => UpTo(kept, k + 1) = UpTo(kept, k) \cup {k + 1}
                                /\ k + 1 \notin kept => UpTo(kept, k + 1) = UpTo(kept, k)
      BY UpToIs
    <3>2. \A k \in 0 .. n - 1 : k + 1 \in kept => Cardinality(UpTo(kept, k + 1)) = Cardinality(UpTo(kept, k)) + 1
      BY UpToCounts
    <3> QED BY <3>1, <3>2
  <2>2. the[i + 1] = IF i + 1 \in kept THEN mark(the[i], i) ELSE the[i]
    BY <1>8
  <2>3. CASE i + 1 \in kept
    <3>1. /\ mark(the[i], i) \in V /\ mark(the[i], i).count = the[i].count + 1
          /\ \A j \in 0 .. n - 1 : is_kept(mark(the[i], i), j) <=> j = i \/ is_kept(the[i], j)
      BY <1>3, <1>10
    <3>2. \A j \in 0 .. n - 1 : j + 1 \in UpTo(kept, i + 1) <=> j = i \/ j + 1 \in UpTo(kept, i)
      BY <2>1, <2>3
    <3> QED BY <1>10, <2>1, <2>2, <2>3, <3>1, <3>2
  <2>4. CASE i + 1 \notin kept
    BY <1>10, <2>1, <2>2, <2>4
  <2> QED BY <2>3, <2>4
<1>11. good(n)
  <2>1. 0 \in T /\ \A i \in 0 .. n - 1 : i \in T => i + 1 \in T
    <3> HIDE DEF good
    <3> QED BY <1>9, <1>10
  <2>2. 0 .. n \subseteq T
    <3> HIDE DEF T
    <3> QED BY <2>1, RangeInduct
  <2> HIDE DEF good
  <2> QED BY <2>2
<1>12. UpTo(kept, n) = kept
  BY UpToIs
<1>13. \A j \in 1 .. n : is_kept(the[n], j - 1) <=> j \in kept
  <2>1. ASSUME NEW j \in 1 .. n PROVE is_kept(the[n], j - 1) <=> j \in kept
    <3>1. j - 1 \in 0 .. n - 1 /\ j - 1 + 1 = j
      OBVIOUS
    <3> QED BY <1>11, <1>12, <3>1
  <2> QED BY <2>1
<1> QED BY <1>7, <1>11, <1>12, <1>13

LEMMA KeptExists ==
  ASSUME NEW n \in Nat, NEW kept
  PROVE  \E f \in [0 .. n -> Seq(Nat)] :
           \A i \in 0 .. n : f[i] = IF i = 0 THEN << >> ELSE IF i \in kept THEN Append(f[i - 1], i) ELSE f[i - 1]
<1> DEFINE first == << >>
           V == Seq(Nat)
           step == [p \in (1 .. n) \X V |-> IF p[1] \in kept THEN Append(p[2], p[1]) ELSE p[2]]
<1>1. first \in V /\ step \in [(1 .. n) \X V -> V]
  OBVIOUS
<1>2. ASSUME NEW i \in 1 .. n, NEW v \in V PROVE step[<<i, v>>] = IF i \in kept THEN Append(v, i) ELSE v
  OBVIOUS
<1> HIDE DEF first, V, step
<1>3. Iteration(V, n, first, step)
  BY <1>1 DEF Iteration
<1>4. PICK f \in [0 .. n -> V] : \A i \in 0 .. n : f[i] = IF i = 0 THEN first ELSE step[<<i, f[i - 1]>>]
  <2>1. \E f : Iterates(f, V, n, first, step)
    BY <1>3, IterationExists
  <2> QED BY <2>1 DEF Iterates
<1>5. ASSUME NEW i \in 0 .. n
      PROVE  f[i] = IF i = 0 THEN first ELSE IF i \in kept THEN Append(f[i - 1], i) ELSE f[i - 1]
  <2>1. CASE i = 0
    BY <1>4, <2>1
  <2>2. CASE i # 0
    <3>1. i \in 1 .. n /\ f[i - 1] \in V
      BY <1>4, <2>2
    <3> QED BY <1>2, <1>4, <2>2, <3>1
  <2> QED BY <2>1, <2>2
<1>6. f \in [0 .. n -> Seq(Nat)]
  BY <1>4 DEF V
<1> QED BY <1>5, <1>6 DEF first

\* The flags a mask keeps, in their order.
LEMMA CollectIs ==
  ASSUME NEW n \in Nat, NEW kept, Among(kept, n), NEW m,
         m.count = Cardinality(kept), \A j \in 1 .. n : is_kept(m, j - 1) <=> j \in kept
  PROVE  LET out == collect(m, [i \in 1 .. n |-> i])
         IN  /\ {out[i] : i \in DOMAIN out} = kept
             /\ \A i, j \in DOMAIN out : i < j => out[i] < out[j]
<1> DEFINE flags == [i \in 1 .. n |-> i]
           body(f) == [i \in 0 .. Len(flags) |->
                         IF i = 0 THEN << >>
                         ELSE IF is_kept(m, i - 1) THEN Append(f[i - 1], flags[i]) ELSE f[i - 1]]
           the == CHOOSE f : f = body(f)
           is(out, i) == /\ out \in Seq(Nat)
                         /\ {out[x] : x \in DOMAIN out} = UpTo(kept, i)
                         /\ \A x, y \in DOMAIN out : x < y => out[x] < out[y]
<1>1. Len(flags) = n /\ flags \in Seq(Nat) /\ DOMAIN flags = 1 .. n /\ \A i \in 1 .. n : flags[i] = i
  OBVIOUS
<1> HIDE DEF flags
<1>2. CASE m.count = n
  <2>1. kept = 1 .. n
    <3>1. IsFiniteSet(1 .. n) /\ Cardinality(1 .. n) = n
      BY FS_Interval
    <3>2. kept \subseteq 1 .. n
      BY DEF Among
    <3> QED BY <1>2, <3>1, <3>2, FS_Subset
  <2>2. collect(m, flags) = flags
    BY <1>1, <1>2 DEF collect
  <2>3. {flags[i] : i \in DOMAIN flags} = kept /\ \A i, j \in DOMAIN flags : i < j => flags[i] < flags[j]
    BY <1>1, <2>1
  <2>4. LET out == collect(m, flags)
        IN  /\ {out[i] : i \in DOMAIN out} = kept
            /\ \A i, j \in DOMAIN out : i < j => out[i] < out[j]
    BY <2>2, <2>3
  <2> QED BY <2>4 DEF flags
<1>3. CASE m.count # n
  <2>2. \E f : f = body(f)
    <3>1. PICK f \in [0 .. n -> Seq(Nat)] :
                 \A i \in 0 .. n : f[i] = IF i = 0 THEN << >> ELSE IF i \in kept THEN Append(f[i - 1], i) ELSE f[i - 1]
      BY KeptExists
    <3>2. ASSUME NEW i \in 0 .. n
          PROVE  f[i] = IF i = 0 THEN << >> ELSE IF is_kept(m, i - 1) THEN Append(f[i - 1], flags[i]) ELSE f[i - 1]
      <4>1. CASE i = 0
        BY <3>1, <4>1
      <4>2. CASE i # 0
        <5>1. i \in 1 .. n
          BY <4>2
        <5>2. (is_kept(m, i - 1) <=> i \in kept) /\ flags[i] = i
          BY <1>1, <5>1
        <5> QED BY <3>1, <4>2, <5>2
      <4> QED BY <4>1, <4>2
    <3>3. f = [i \in 0 .. n |-> f[i]]
      BY <3>1
    <3>4. f = body(f)
      BY <1>1, <3>2, <3>3
    <3> QED BY <3>4
  <2>3. the = body(the)
    <3> HIDE DEF body
    <3> QED BY <2>2
  <2>4. collect(m, flags) = the[n]
    BY <1>1, <1>3 DEF collect
  <2> HIDE DEF the
  <2>5. /\ the[0] = << >>
        /\ \A i \in 0 .. n - 1 : the[i + 1] = IF i + 1 \in kept THEN Append(the[i], i + 1) ELSE the[i]
    <3>1. \A i \in 0 .. n : the[i] = IF i = 0 THEN << >> ELSE IF is_kept(m, i - 1) THEN Append(the[i - 1], flags[i]) ELSE the[i - 1]
      BY <1>1, <2>3
    <3>2. the[0] = << >>
      BY <3>1
    <3>3. ASSUME NEW i \in 0 .. n - 1 PROVE the[i + 1] = IF i + 1 \in kept THEN Append(the[i], i + 1) ELSE the[i]
      <4>1. i + 1 \in 0 .. n /\ i + 1 \in 1 .. n /\ i + 1 # 0 /\ i + 1 - 1 = i
        OBVIOUS
      <4>2. (is_kept(m, i) <=> i + 1 \in kept) /\ flags[i + 1] = i + 1
        BY <1>1, <4>1
      <4> QED BY <3>1, <4>1, <4>2
    <3> QED BY <3>2, <3>3
  <2> HIDE DEF body
  <2> DEFINE T == {i \in 0 .. n : is(the[i], i)}
  <2>6. is(the[0], 0)
    <3>1. UpTo(kept, 0) = {}
      BY UpToIs
    <3>2. << >> \in Seq(Nat) /\ DOMAIN << >> = {}
      OBVIOUS
    <3> QED BY <2>5, <3>1, <3>2
  <2>7. ASSUME NEW i \in 0 .. n - 1, is(the[i], i) PROVE is(the[i + 1], i + 1)
    <3>1. /\ i + 1 \in kept => UpTo(kept, i + 1) = UpTo(kept, i) \cup {i + 1}
          /\ i + 1 \notin kept => UpTo(kept, i + 1) = UpTo(kept, i)
      <4> HIDE DEF is, T
      <4>1. \A k \in 0 .. n - 1 : /\ k + 1 \in kept => UpTo(kept, k + 1) = UpTo(kept, k) \cup {k + 1}
                                  /\ k + 1 \notin kept => UpTo(kept, k + 1) = UpTo(kept, k)
        BY UpToIs
      <4> QED BY <4>1
    <3>2. CASE i + 1 \in kept
      <4> DEFINE old == the[i]
                 new == the[i + 1]
                 L == Len(old)
      <4>1. new = Append(old, i + 1) /\ old \in Seq(Nat) /\ L \in Nat
        <5>1. old \in Seq(Nat)
          BY <2>7
        <5>2. new = Append(old, i + 1)
          <6> HIDE DEF is, T
          <6> QED BY <2>5, <3>2
        <5> HIDE DEF old, new
        <5> QED BY <5>1, <5>2
      <4> HIDE DEF old, new
      <4>2. /\ new \in Seq(Nat) /\ DOMAIN old = 1 .. L /\ DOMAIN new = 1 .. L + 1
            /\ new[L + 1] = i + 1 /\ \A x \in 1 .. L : new[x] = old[x]
        BY <4>1
      <4>3. \A x \in 1 .. L : old[x] \in UpTo(kept, i)
        BY <2>7, <4>2 DEF old
      <4>4. \A x \in 1 .. L : old[x] \in Nat /\ old[x] < i + 1
        <5>1. \A j \in UpTo(kept, i) : j \in Nat /\ j < i + 1
          BY DEF UpTo, Among
        <5> QED BY <4>3, <5>1
      <4>5. {new[x] : x \in DOMAIN new} = {old[x] : x \in DOMAIN old} \cup {i + 1}
        <5>1. DOMAIN new = (1 .. L) \cup {L + 1}
          BY <4>1, <4>2
        <5> QED BY <4>2, <5>1, ZenonT(30)
      <4>6. {new[x] : x \in DOMAIN new} = UpTo(kept, i + 1)
        BY <2>7, <3>1, <3>2, <4>5 DEF old
      <4>7. ASSUME NEW x \in DOMAIN new, NEW y \in DOMAIN new, x < y PROVE new[x] < new[y]
        <5>1. x \in 1 .. L
          BY <4>1, <4>2, <4>7
        <5>2. CASE y = L + 1
          BY <4>2, <4>4, <5>1, <5>2
        <5>3. CASE y # L + 1
          <6>1. y \in 1 .. L
            BY <4>1, <4>2, <5>3
          <6>2. old[x] < old[y]
            BY <2>7, <4>2, <4>7, <5>1, <6>1 DEF old
          <6> QED BY <4>2, <5>1, <6>1, <6>2
        <5> QED BY <5>2, <5>3
      <4> QED BY <4>2, <4>6, <4>7 DEF new
    <3>3. CASE i + 1 \notin kept
      BY <2>5, <2>7, <3>1, <3>3
    <3> QED BY <3>2, <3>3
  <2>8. is(the[n], n)
    <3> HIDE DEF is
    <3>1. 0 \in T /\ \A i \in 0 .. n - 1 : i \in T => i + 1 \in T
      BY <2>6, <2>7
    <3>2. 0 .. n \subseteq T
      <4> HIDE DEF T
      <4> QED BY <3>1, RangeInduct
    <3> QED BY <3>2
  <2>9. UpTo(kept, n) = kept
    BY UpToIs
  <2> QED BY <2>4, <2>8, <2>9 DEF flags
<1> QED BY <1>2, <1>3

LEMMA MaskLaw == Picked => MaskExact
<1> SUFFICES ASSUME Picked, input.law = "mask" PROVE MaskExact
  BY DEF MaskExact
<1> DEFINE n == input.of[1]
           kept == input.of[2]
<1>1. n \in Nat /\ Among(kept, n)
  BY CountsAssumption DEF Picked, Masks, Among
<1> HIDE DEF n, kept
<1>2. /\ Marked(n, kept).count = Cardinality(kept)
      /\ \A j \in 1 .. n : is_kept(Marked(n, kept), j - 1) <=> j \in kept
  BY <1>1, MarkedIs
<1> DEFINE m == Marked(n, kept)
           out == collect(m, [i \in 1 .. n |-> i])
<1>3. {out[i] : i \in DOMAIN out} = kept /\ \A i, j \in DOMAIN out : i < j => out[i] < out[j]
  <2> HIDE DEF m
  <2> QED BY <1>1, <1>2, CollectIs DEF m
<1> QED BY <1>3 DEF MaskExact, n, kept

-----------------------------------------------------------------------------
(* The key of an assignment.                                               *)

LEMMA BytesAreWords == \A b \in ByteString : b \in Seq(Nat)
<1> SUFFICES ASSUME NEW b \in ByteString PROVE b \in Seq(Nat)
  OBVIOUS
<1> DEFINE B == 0 .. BYTE_BASE - 1
<1>1. Len(b) \in Nat /\ \A i \in 1 .. Len(b) : b[i] \in B
  <2>1. b \in Seq(B)
    BY DEF ByteString
  <2> HIDE DEF B
  <2> QED BY <2>1, ElementOfSeq
<1>2. b = [i \in 1 .. Len(b) |-> b[i]]
  BY DEF ByteString
<1>3. \A i \in 1 .. Len(b) : b[i] \in Nat
  BY <1>1
<1> QED BY <1>1, <1>2, <1>3

LEMMA WordIs ==
  ASSUME NEW bytes \in Seq(Nat)
  PROVE  \E w \in [0 .. Len(bytes) -> Nat] :
           /\ w[0] = 0 /\ LeWord(bytes) = w[Len(bytes)]
           /\ \A i \in 1 .. Len(bytes) : w[i] = w[i - 1] * BYTE_BASE + bytes[Len(bytes) - i + 1]
<1> DEFINE n == Len(bytes)
           byte(i) == bytes[n - i + 1]
           body(f) == [i \in 0 .. n |-> IF i = 0 THEN 0 ELSE f[i - 1] * BYTE_BASE + byte(i)]
           the == CHOOSE f : f = body(f)
           step == [p \in (1 .. n) \X Nat |-> p[2] * BYTE_BASE + byte(p[1])]
<1>1. n \in Nat /\ BYTE_BASE \in Nat
  BY DedupKeyAssumption
<1>2. ASSUME NEW i \in 1 .. n PROVE byte(i) \in Nat
  <2>1. n - i + 1 \in 1 .. n
    BY <1>1
  <2> QED BY <2>1, ElementOfSeq
<1> HIDE DEF byte, n
<1>3. step \in [(1 .. n) \X Nat -> Nat]
  <2>1. ASSUME NEW i \in 1 .. n, NEW v \in Nat PROVE v * BYTE_BASE + byte(i) \in Nat
    <3>1. v * BYTE_BASE \in Nat
      BY <1>1
    <3> QED BY <1>2, <3>1
  <2> QED BY <2>1
<1>4. ASSUME NEW i \in 1 .. n, NEW v \in Nat PROVE step[<<i, v>>] = v * BYTE_BASE + byte(i)
  OBVIOUS
<1> HIDE DEF step
<1>5. PICK h \in [0 .. n -> Nat] : \A i \in 0 .. n : h[i] = IF i = 0 THEN 0 ELSE step[<<i, h[i - 1]>>]
  <2>1. Iteration(Nat, n, 0, step)
    BY <1>1, <1>3 DEF Iteration
  <2>2. \E f : Iterates(f, Nat, n, 0, step)
    BY <2>1, IterationExists
  <2> QED BY <2>2 DEF Iterates
<1>6. \A i \in 0 .. n : h[i] = IF i = 0 THEN 0 ELSE h[i - 1] * BYTE_BASE + byte(i)
  <2>1. ASSUME NEW i \in 1 .. n PROVE h[i] = h[i - 1] * BYTE_BASE + byte(i)
    <3>1. i \in 0 .. n /\ i # 0 /\ h[i - 1] \in Nat
      BY <1>1, <1>5
    <3> QED BY <1>4, <1>5, <3>1
  <2>2. h[0] = 0
    <3>1. 0 \in 0 .. n
      BY <1>1
    <3> HIDE DEF body, the
    <3> QED BY <1>5, <3>1
  <2> QED BY <1>1, <2>1, <2>2
<1>7. \E f : f = body(f)
  <2>1. h = body(h)
    BY <1>1, <1>5, <1>6
  <2> QED BY <2>1
<1>8. the = body(the)
  <2> HIDE DEF body
  <2> QED BY <1>7
<1>9. LeWord(bytes) = the[n]
  BY DEF LeWord, n, byte
<1> HIDE DEF the
<1>10. \A i \in 0 .. n : the[i] = IF i = 0 THEN 0 ELSE the[i - 1] * BYTE_BASE + byte(i)
  BY <1>8
<1>11. the[0] = 0 /\ \A i \in 1 .. n : the[i] = the[i - 1] * BYTE_BASE + byte(i)
  BY <1>1, <1>10
<1>12. \A i \in 0 .. n : the[i] \in Nat
  <2> DEFINE T == {i \in 0 .. n : the[i] \in Nat}
  <2>1. 0 \in T
    BY <1>1, <1>11
  <2>2. ASSUME NEW i \in 0 .. n - 1, i \in T PROVE i + 1 \in T
    <3>1. i + 1 \in 1 .. n /\ i + 1 - 1 = i
      BY <1>1
    <3>2. the[i + 1] = the[i] * BYTE_BASE + byte(i + 1)
      BY <1>11, <3>1
    <3>3. the[i] * BYTE_BASE \in Nat /\ byte(i + 1) \in Nat
      BY <1>1, <1>2, <2>2, <3>1
    <3> QED BY <3>1, <3>2, <3>3
  <2>3. 0 .. n \subseteq T
    <3> HIDE DEF T
    <3> QED BY <1>1, <2>1, <2>2, RangeInduct
  <2> QED BY <2>3
<1>13. the \in [0 .. n -> Nat]
  <2>1. DOMAIN the = 0 .. n /\ the = [i \in DOMAIN the |-> the[i]]
    BY <1>8
  <2> QED BY <1>12, <2>1
<1> QED BY <1>9, <1>11, <1>13 DEF n, byte

LEMMA WordNat == ASSUME NEW bytes \in ByteString PROVE LeWord(bytes) \in Nat
<1>1. PICK w \in [0 .. Len(bytes) -> Nat] : LeWord(bytes) = w[Len(bytes)]
  BY WordIs, BytesAreWords
<1>2. Len(bytes) \in 0 .. Len(bytes)
  BY DEF ByteString
<1> QED BY <1>1, <1>2

\* As many bytes make one word only if they are the same.
LEMMA WordApart ==
  ASSUME NEW u \in ByteString, NEW v \in ByteString, Len(u) = Len(v), LeWord(u) = LeWord(v)
  PROVE  u = v
<1> DEFINE n == Len(u)
<1>1. n \in Nat /\ BYTE_BASE \in Nat \ {0}
  BY DedupKeyAssumption DEF ByteString
<1>2. PICK f \in [0 .. n -> Nat] :
             /\ f[0] = 0 /\ LeWord(u) = f[n]
             /\ \A i \in 1 .. n : f[i] = f[i - 1] * BYTE_BASE + u[n - i + 1]
  BY WordIs, BytesAreWords
<1>3. PICK g \in [0 .. n -> Nat] :
             /\ g[0] = 0 /\ LeWord(v) = g[n]
             /\ \A i \in 1 .. n : g[i] = g[i - 1] * BYTE_BASE + v[n - i + 1]
  <2>1. \E g \in [0 .. Len(v) -> Nat] :
           /\ g[0] = 0 /\ LeWord(v) = g[Len(v)]
           /\ \A i \in 1 .. Len(v) : g[i] = g[i - 1] * BYTE_BASE + v[Len(v) - i + 1]
    BY WordIs, BytesAreWords
  <2>2. Len(v) = n
    OBVIOUS
  <2> HIDE DEF n
  <2> QED BY <2>1, <2>2
<1>4. \A j \in 1 .. n : u[j] \in Nat /\ u[j] < BYTE_BASE /\ v[j] \in Nat /\ v[j] < BYTE_BASE
  <2>1. ASSUME NEW j \in 1 .. n PROVE u[j] \in 0 .. BYTE_BASE - 1 /\ v[j] \in 0 .. BYTE_BASE - 1
    BY ElementOfSeq DEF ByteString
  <2> QED BY <1>1, <2>1
<1> HIDE DEF n
<1> DEFINE same(i) == f[i] = g[i] => \A j \in 1 .. i : u[n - j + 1] = v[n - j + 1]
           T == {i \in 0 .. n : same(i)}
<1>5. 0 \in T
  BY <1>1
<1>6. ASSUME NEW i \in 0 .. n - 1, same(i) PROVE same(i + 1)
  <2> SUFFICES ASSUME f[i + 1] = g[i + 1] PROVE \A j \in 1 .. i + 1 : u[n - j + 1] = v[n - j + 1]
    OBVIOUS
  <2> DEFINE a == f[i]
             b == g[i]
             x == u[n - (i + 1) + 1]
             y == v[n - (i + 1) + 1]
  <2>1. i + 1 \in 1 .. n /\ i \in 0 .. n /\ i + 1 - 1 = i /\ n - (i + 1) + 1 \in 1 .. n
    BY <1>1
  <2>2. f[i + 1] = a * BYTE_BASE + x /\ g[i + 1] = b * BYTE_BASE + y
    BY <1>2, <1>3, <2>1
  <2>3. a \in Nat /\ b \in Nat
    BY <1>2, <1>3, <2>1
  <2>4. x \in Nat /\ x < BYTE_BASE /\ y \in Nat /\ y < BYTE_BASE
    BY <1>4, <2>1
  <2>5. a * BYTE_BASE + x = b * BYTE_BASE + y
    BY <2>2
  <2> HIDE DEF a, b, x, y
  <2>6. BYTE_BASE * a + x = BYTE_BASE * b + y
    BY <1>1, <2>3, <2>4, <2>5
  <2>7. (BYTE_BASE * a + x) \div BYTE_BASE = a /\ ((BYTE_BASE * a + x) % BYTE_BASE) = x
    BY <1>1, <2>3, <2>4, DivUnique
  <2>8. (BYTE_BASE * b + y) \div BYTE_BASE = b /\ ((BYTE_BASE * b + y) % BYTE_BASE) = y
    BY <1>1, <2>3, <2>4, DivUnique
  <2>9. a = b /\ x = y
    BY <2>6, <2>7, <2>8
  <2>10. \A j \in 1 .. i : u[n - j + 1] = v[n - j + 1]
    BY <1>6, <2>9 DEF a, b
  <2>11. ASSUME NEW j \in 1 .. i + 1 PROVE u[n - j + 1] = v[n - j + 1]
    <3>1. j \in 1 .. i \/ j = i + 1
      OBVIOUS
    <3> QED BY <2>9, <2>10, <3>1 DEF x, y
  <2> QED BY <2>11
<1>7. same(n)
  <2> HIDE DEF same
  <2>1. \A i \in 0 .. n - 1 : i \in T => i + 1 \in T
    BY <1>1, <1>6
  <2>2. 0 .. n \subseteq T
    <3> HIDE DEF T
    <3> QED BY <1>1, <1>5, <2>1, RangeInduct
  <2> QED BY <1>1, <2>2
<1>8. ASSUME NEW p \in 1 .. n PROVE u[p] = v[p]
  <2>1. n - p + 1 \in 1 .. n /\ n - (n - p + 1) + 1 = p
    BY <1>1
  <2>2. \A j \in 1 .. n : u[n - j + 1] = v[n - j + 1]
    BY <1>2, <1>3, <1>7
  <2> QED BY <2>1, <2>2
<1> QED BY <1>8, SeqEqual DEF n, ByteString

\* The chunks of a string, and their bytes.
Chunks(n)   == (n + WORD_BYTES - 1) \div WORD_BYTES
ChunkEnd(n, i) == IF i * WORD_BYTES < n THEN i * WORD_BYTES ELSE n
Chunk(bytes, i) == SubSeq(bytes, (i - 1) * WORD_BYTES + 1, ChunkEnd(Len(bytes), i))

LEMMA ChunkAt ==
  ASSUME NEW n \in Nat, NEW i \in 1 .. Chunks(n)
  PROVE  /\ (i - 1) * WORD_BYTES \in Nat /\ ChunkEnd(n, i) \in Nat
         /\ (i - 1) * WORD_BYTES < ChunkEnd(n, i) /\ ChunkEnd(n, i) <= n
         /\ \A p \in Nat : (i - 1) * WORD_BYTES < p /\ p <= n /\ p <= i * WORD_BYTES => p <= ChunkEnd(n, i)
<1> DEFINE W == WORD_BYTES
           m == n + W - 1
           k == i - 1
<1>1. W \in Nat \ {0} /\ m \in Nat
  BY DedupKeyAssumption
<1>2. m \div W \in Nat /\ m = W * (m \div W) + (m % W) /\ m % W \in Nat
  BY <1>1, DivMod
<1>3. k \in Nat /\ i = k + 1 /\ k < m \div W
  BY <1>2 DEF Chunks
<1>4. i * W = k * W + W /\ k * W \in Nat
  BY <1>1, <1>3
<1>5. W * k + W <= W * (m \div W)
  BY <1>1, <1>2, <1>3, MulGrows
<1>6. W * (m \div W) \in Nat /\ W * (m \div W) <= m /\ W * k = k * W
  BY <1>1, <1>2, <1>3
<1>7. k * W + 1 <= n
  BY <1>1, <1>4, <1>5, <1>6
<1>8. k * W < ChunkEnd(n, i) /\ ChunkEnd(n, i) <= n /\ ChunkEnd(n, i) \in Nat
  BY <1>1, <1>4, <1>7 DEF ChunkEnd
<1>9. \A p \in Nat : k * W < p /\ p <= n /\ p <= i * W => p <= ChunkEnd(n, i)
  BY DEF ChunkEnd
<1> QED BY <1>4, <1>8, <1>9

LEMMA ChunkIs ==
  ASSUME NEW bytes \in ByteString, NEW i \in 1 .. Chunks(Len(bytes))
  PROVE  /\ Chunk(bytes, i) \in ByteString
         /\ Len(Chunk(bytes, i)) = ChunkEnd(Len(bytes), i) - (i - 1) * WORD_BYTES
         /\ \A p \in Nat : (i - 1) * WORD_BYTES < p /\ p <= ChunkEnd(Len(bytes), i) =>
              /\ p - (i - 1) * WORD_BYTES \in 1 .. Len(Chunk(bytes, i))
              /\ Chunk(bytes, i)[p - (i - 1) * WORD_BYTES] = bytes[p]
<1> DEFINE n == Len(bytes)
           lo == (i - 1) * WORD_BYTES
           hi == ChunkEnd(n, i)
           B  == 0 .. BYTE_BASE - 1
<1>1. bytes \in Seq(B) /\ n \in Nat
  BY DEF ByteString
<1>2. lo \in Nat /\ hi \in Nat /\ lo < hi /\ hi <= n
  BY <1>1, ChunkAt
<1> HIDE DEF lo, hi, B, n
<1> DEFINE c == SubSeq(bytes, lo + 1, hi)
<1>4. c \in Seq(B) /\ Len(c) = hi - lo /\ \A x \in 1 .. hi - lo : c[x] = bytes[lo + x]
  <2> DEFINE first == lo + 1
  <2>1. first \in Int /\ hi \in Int /\ first <= hi /\ hi - first + 1 = hi - lo
    BY <1>2
  <2>2. \A x \in first .. hi : bytes[x] \in B
    <3>1. \A x \in first .. hi : x \in 1 .. Len(bytes)
      BY <1>1, <1>2 DEF n
    <3>2. \A x \in 1 .. Len(bytes) : bytes[x] \in B
      BY <1>1, ElementOfSeq
    <3> QED BY <3>1, <3>2
  <2>3. \A x \in 1 .. hi - lo : first + x - 1 = lo + x
    BY <1>2
  <2> HIDE DEF first
  <2>4. /\ SubSeq(bytes, first, hi) \in Seq(B)
        /\ Len(SubSeq(bytes, first, hi)) = hi - first + 1
        /\ \A x \in 1 .. hi - first + 1 : SubSeq(bytes, first, hi)[x] = bytes[first + x - 1]
    BY <2>1, <2>2, SubSeqProperties
  <2>5. c = SubSeq(bytes, first, hi)
    BY DEF first
  <2> HIDE DEF c
  <2> QED BY <2>1, <2>3, <2>4, <2>5
<1> HIDE DEF c
<1>5. ASSUME NEW p \in Nat, lo < p, p <= hi PROVE p - lo \in 1 .. Len(c) /\ c[p - lo] = bytes[p]
  <2>1. p - lo \in 1 .. hi - lo /\ lo + (p - lo) = p
    BY <1>2, <1>5
  <2> QED BY <1>4, <2>1
<1>6. c = Chunk(bytes, i)
  BY DEF c, Chunk, lo, hi, n
<1>7. c \in ByteString
  BY <1>4 DEF ByteString, B
<1> QED BY <1>4, <1>5, <1>6, <1>7 DEF lo, hi, n

LEMMA ChunkedIs ==
  ASSUME NEW bytes \in ByteString
  PROVE  /\ Chunked(bytes) \in Seq(Nat) /\ Len(Chunked(bytes)) = Chunks(Len(bytes))
         /\ \A i \in 1 .. Chunks(Len(bytes)) : Chunked(bytes)[i] = LeWord(Chunk(bytes, i))
<1> DEFINE k == Chunks(Len(bytes))
           word(i) == LeWord(Chunk(bytes, i))
<1>1. k \in Nat
  <2>1. Len(bytes) + WORD_BYTES - 1 \in Nat /\ WORD_BYTES \in Nat \ {0}
    BY DedupKeyAssumption DEF ByteString
  <2> QED BY <2>1, DivMod DEF Chunks
<1>2. Chunked(bytes) = [i \in 1 .. k |-> word(i)]
  BY DEF Chunked, Chunks, Chunk, ChunkEnd
<1>3. ASSUME NEW i \in 1 .. k PROVE word(i) \in Nat
  BY ChunkIs, WordNat
<1> HIDE DEF k, word
<1>4. Chunked(bytes) \in Seq(Nat) /\ Len(Chunked(bytes)) = k /\ \A i \in 1 .. k : Chunked(bytes)[i] = word(i)
  BY <1>1, <1>2, <1>3
<1> QED BY <1>4 DEF k, word

\* As many bytes have one chunking only if they are the same.
LEMMA ChunkedApart ==
  ASSUME NEW u \in ByteString, NEW v \in ByteString, Len(u) = Len(v), Chunked(u) = Chunked(v)
  PROVE  u = v
<1> DEFINE W == WORD_BYTES
           n == Len(u)
<1>1. W \in Nat \ {0} /\ n \in Nat
  BY DedupKeyAssumption DEF ByteString
<1>2. ASSUME NEW p \in 1 .. n PROVE u[p] = v[p]
  <2> DEFINE q == (p - 1) \div W
             r == (p - 1) % W
             i == q + 1
  <2>1. q \in Nat /\ r \in Nat /\ r < W /\ p - 1 = W * q + r
    BY <1>1, DivMod
  <2>2. W * q = q * W /\ i * W = q * W + W /\ q * W \in Nat /\ (i - 1) * W = q * W
    BY <1>1, <2>1
  <2>3. (i - 1) * W < p /\ p <= i * W
    BY <1>1, <2>1, <2>2
  <2>4. i \in 1 .. Chunks(n)
    <3> DEFINE m == n + W - 1
    <3>1. m \in Nat /\ W * i <= m
      BY <1>1, <2>1, <2>2
    <3>2. \A k \in Nat : m < W * k => m \div W < k
      BY <1>1, <3>1, DivLess
    <3>3. m \div W \in Nat /\ m = W * (m \div W) + (m % W) /\ m % W \in Nat /\ m % W < W
      BY <1>1, <3>1, DivMod
    <3>4. m < W * (m \div W + 1)
      <4> DEFINE d == m \div W
      <4>1. d \in Nat /\ m = W * d + (m % W) /\ m % W \in Nat /\ m % W < W
        BY <3>3
      <4> HIDE DEF d
      <4>2. W * (d + 1) = W * d + W /\ W * d \in Nat
        BY <1>1, <4>1
      <4>3. m < W * (d + 1)
        BY <1>1, <4>1, <4>2
      <4> QED BY <4>3 DEF d
    <3>5. ~(m \div W < i)
      <4> DEFINE d == m \div W
      <4>1. d \in Nat /\ m < W * (d + 1)
        BY <3>3, <3>4
      <4> HIDE DEF d, m
      <4>2. ASSUME d < i PROVE FALSE
        <5>1. d + 1 = i \/ d + 1 < i
          BY <2>1, <4>1, <4>2
        <5>2. CASE d + 1 = i
          BY <1>1, <3>1, <4>1, <5>2, <2>1
        <5>3. CASE d + 1 < i
          <6>1. W * (d + 1) + W <= W * i
            BY <1>1, <2>1, <4>1, <5>3, MulGrows
          <6>2. W * (d + 1) \in Nat /\ W * i \in Nat
            BY <1>1, <2>1, <4>1
          <6> QED BY <1>1, <3>1, <4>1, <6>1, <6>2
        <5> QED BY <5>1, <5>2, <5>3
      <4> QED BY <4>2 DEF d
    <3>6. Chunks(n) = m \div W
      BY DEF Chunks
    <3> QED BY <2>1, <3>3, <3>5, <3>6
  <2> HIDE DEF q, r, i
  <2>5. p <= ChunkEnd(n, i)
    <3>1. \A x \in Nat : (i - 1) * W < x /\ x <= n /\ x <= i * W => x <= ChunkEnd(n, i)
      BY <1>1, <2>4, ChunkAt
    <3> QED BY <2>3, <3>1
  <2>6. LeWord(Chunk(u, i)) = LeWord(Chunk(v, i))
    <3>1. Chunked(u)[i] = LeWord(Chunk(u, i))
      BY <2>4, ChunkedIs
    <3>2. Len(v) = n
      OBVIOUS
    <3>3. Chunked(v)[i] = LeWord(Chunk(v, i))
      BY <2>4, <3>2, ChunkedIs
    <3> QED BY <3>1, <3>3
  <2>7. /\ Chunk(u, i) \in ByteString /\ Len(Chunk(u, i)) = ChunkEnd(n, i) - (i - 1) * W
        /\ \A x \in Nat : (i - 1) * W < x /\ x <= ChunkEnd(n, i) => Chunk(u, i)[x - (i - 1) * W] = u[x]
    BY <2>4, ChunkIs
  <2>8. /\ Chunk(v, i) \in ByteString /\ Len(Chunk(v, i)) = ChunkEnd(n, i) - (i - 1) * W
        /\ \A x \in Nat : (i - 1) * W < x /\ x <= ChunkEnd(n, i) => Chunk(v, i)[x - (i - 1) * W] = v[x]
    BY <2>4, ChunkIs
  <2>9. Chunk(u, i) = Chunk(v, i)
    BY <2>6, <2>7, <2>8, WordApart
  <2>10. p \in Nat
    OBVIOUS
  <2> QED BY <2>3, <2>5, <2>7, <2>8, <2>9, <2>10
<1> QED BY <1>2, SeqEqual DEF ByteString

\* Two pieces of a key are told apart whatever follows them.
Words == Seq(Nat)

Delimited(u, v) ==
  /\ u \in Words /\ v \in Words
  /\ \A x, y \in Words : u \o x = v \o y => u = v /\ x = y

LEMMA SameLength ==
  ASSUME NEW u \in Words, NEW v \in Words, Len(u) = Len(v)
  PROVE  Delimited(u, v)
<1> SUFFICES ASSUME NEW x \in Words, NEW y \in Words, u \o x = v \o y PROVE u = v /\ x = y
  BY DEF Delimited
<1>1. Len(u) \in Nat /\ Len(x) \in Nat /\ Len(y) \in Nat
  BY DEF Words
<1>2. /\ \A i \in 1 .. Len(u) + Len(x) : (u \o x)[i] = IF i <= Len(u) THEN u[i] ELSE x[i - Len(u)]
      /\ \A i \in 1 .. Len(v) + Len(y) : (v \o y)[i] = IF i <= Len(v) THEN v[i] ELSE y[i - Len(v)]
  BY ConcatProperties DEF Words
<1>3. ASSUME NEW i \in 1 .. Len(u) PROVE u[i] = v[i]
  <2>1. i \in 1 .. Len(u) + Len(x) /\ i \in 1 .. Len(v) + Len(y) /\ i <= Len(u) /\ i <= Len(v)
    BY <1>1
  <2>2. (u \o x)[i] = u[i] /\ (v \o y)[i] = v[i]
    BY <1>2, <2>1
  <2> QED BY <2>2
<1>4. u = v
  BY <1>3, SeqEqual DEF Words
<1>5. x = y
  BY <1>4, ConcatSimplifications DEF Words
<1> QED BY <1>4, <1>5

LEMMA SingleDelimited ==
  ASSUME NEW m \in Nat, NEW n \in Nat
  PROVE  Delimited(<<m>>, <<n>>)
<1>1. <<m>> \in Words /\ <<n>> \in Words /\ Len(<<m>>) = Len(<<n>>)
  BY DEF Words
<1> QED BY <1>1, SameLength

LEMMA JoinAssociates ==
  \A a, b, c \in Words : (a \o b) \o c = a \o (b \o c)
BY ConcatAssociative, SMTT(30) DEF Words

LEMMA ConcatDelimited ==
  ASSUME NEW u, NEW v, Delimited(u, v), NEW p, NEW q, Delimited(p, q)
  PROVE  Delimited(u \o p, v \o q)
<1>1. u \in Words /\ v \in Words /\ p \in Words /\ q \in Words
  BY DEF Delimited
<1>2. u \o p \in Words /\ v \o q \in Words
  BY <1>1, ConcatProperties DEF Words
<1>3. ASSUME NEW x \in Words, NEW y \in Words, (u \o p) \o x = (v \o q) \o y
      PROVE  u \o p = v \o q /\ x = y
  <2>1. (u \o p) \o x = u \o (p \o x) /\ (v \o q) \o y = v \o (q \o y)
    <3>1. (u \o p) \o x = u \o (p \o x)
      BY ONLY <1>1, x \in Words, JoinAssociates, SMTT(30)
    <3>2. (v \o q) \o y = v \o (q \o y)
      BY ONLY <1>1, y \in Words, JoinAssociates, SMTT(30)
    <3> QED BY <3>1, <3>2
  <2>2. p \o x \in Words /\ q \o y \in Words
    BY <1>1, ConcatProperties DEF Words
  <2>3. u = v /\ p \o x = q \o y
    BY <1>3, <2>1, <2>2 DEF Delimited
  <2>4. p = q /\ x = y
    BY <2>3 DEF Delimited
  <2> QED BY <2>3, <2>4
<1> QED BY <1>2, <1>3 DEF Delimited

\* A string is written so that it can be told where it ends.
LEMMA WriteIs ==
  ASSUME NEW a \in ByteString
  PROVE  /\ write(a) \in Words /\ Len(write(a)) = 1 + Chunks(Len(a)) /\ Chunks(Len(a)) \in Nat
         /\ write(a)[1] = Len(a)
<1>1. Chunked(a) \in Words /\ Len(Chunked(a)) = Chunks(Len(a)) /\ Len(a) \in Nat
  BY ChunkedIs DEF ByteString, Words
<1>2. <<Len(a)>> \in Words /\ Len(<<Len(a)>>) = 1 /\ <<Len(a)>>[1] = Len(a)
  BY <1>1 DEF Words
<1>3. Chunks(Len(a)) \in Nat
  BY <1>1 DEF Words
<1>4. write(a) = <<Len(a)>> \o Chunked(a)
  BY DEF write
<1> DEFINE h == <<Len(a)>>
           t == Chunked(a)
<1>5. /\ h \o t \in Words /\ Len(h \o t) = Len(h) + Len(t)
      /\ \A i \in 1 .. Len(h) + Len(t) : (h \o t)[i] = IF i <= Len(h) THEN h[i] ELSE t[i - Len(h)]
  <2>1. h \in Seq(Nat) /\ t \in Seq(Nat)
    BY <1>1, <1>2 DEF Words
  <2> HIDE DEF h, t
  <2> QED BY <2>1, ConcatProperties DEF Words
<1>6. Len(h) = 1 /\ h[1] = Len(a) /\ Len(t) \in Nat /\ Len(t) = Chunks(Len(a))
  BY <1>1, <1>2, <1>3
<1> HIDE DEF h, t
<1>7. 1 \in 1 .. Len(h) + Len(t) /\ 1 <= Len(h)
  BY <1>6
<1> QED BY <1>3, <1>4, <1>5, <1>6, <1>7 DEF h, t

LEMMA WriteDelimited ==
  ASSUME NEW a \in ByteString, NEW b \in ByteString
  PROVE  Delimited(write(a), write(b)) /\ (write(a) = write(b) => a = b)
<1>1. /\ write(a) \in Words /\ Len(write(a)) = 1 + Chunks(Len(a)) /\ Chunks(Len(a)) \in Nat /\ write(a)[1] = Len(a)
      /\ write(b) \in Words /\ Len(write(b)) = 1 + Chunks(Len(b)) /\ Chunks(Len(b)) \in Nat /\ write(b)[1] = Len(b)
  BY WriteIs
<1>2. ASSUME NEW x \in Words, NEW y \in Words, write(a) \o x = write(b) \o y PROVE write(a) = write(b) /\ x = y
  <2> DEFINE u == write(a)
             v == write(b)
  <2>1. u \in Words /\ v \in Words /\ Len(u) \in Nat /\ Len(u) >= 1 /\ Len(v) \in Nat /\ Len(v) >= 1
    BY <1>1
  <2>2. u \o x = v \o y
    BY <1>2
  <2> HIDE DEF u, v
  <2>3. (u \o x)[1] = u[1] /\ (v \o y)[1] = v[1]
    <3>1. /\ \A i \in 1 .. Len(u) + Len(x) : (u \o x)[i] = IF i <= Len(u) THEN u[i] ELSE x[i - Len(u)]
          /\ \A i \in 1 .. Len(v) + Len(y) : (v \o y)[i] = IF i <= Len(v) THEN v[i] ELSE y[i - Len(v)]
      BY <2>1, ConcatProperties DEF Words
    <3>2. Len(x) \in Nat /\ Len(y) \in Nat
      BY DEF Words
    <3>3. 1 \in 1 .. Len(u) + Len(x) /\ 1 \in 1 .. Len(v) + Len(y)
      BY <2>1, <3>2
    <3> QED BY <2>1, <3>1, <3>3
  <2>4. Len(u) = Len(v)
    BY <1>1, <2>2, <2>3 DEF u, v
  <2>5. Delimited(u, v)
    BY <2>1, <2>4, SameLength
  <2> QED BY <2>2, <2>5 DEF u, v, Delimited
<1>3. ASSUME write(a) = write(b) PROVE a = b
  <2>1. Len(a) = Len(b)
    BY <1>1, <1>3
  <2>2. <<Len(a)>> \o Chunked(a) = <<Len(a)>> \o Chunked(b)
    BY <1>3, <2>1 DEF write
  <2>3. Len(a) \in Nat /\ Chunked(a) \in Seq(Nat) /\ Chunked(b) \in Seq(Nat)
    BY ChunkedIs DEF ByteString
  <2>4. <<Len(a)>> \in Seq(Nat)
    BY <2>3
  <2> DEFINE h == <<Len(a)>>
  <2> HIDE DEF h
  <2>5. Chunked(a) = Chunked(b)
    BY <2>2, <2>3, <2>4, ConcatSimplifications DEF h
  <2> QED BY <2>1, <2>5, ChunkedApart
<1> QED BY <1>1, <1>2, <1>3 DEF Delimited

\* The pieces one after the other.
LEMMA FlattenIs ==
  ASSUME NEW s \in Seq(Words)
  PROVE  \E f \in [0 .. Len(s) -> Words] :
           /\ f[0] = << >> /\ FlattenSeq(s) = f[Len(s)]
           /\ \A i \in 1 .. Len(s) : f[i] = f[i - 1] \o s[i]
<1> DEFINE n == Len(s)
           first == << >>
           step == [p \in (1 .. n) \X Words |-> p[2] \o s[p[1]]]
           body(f) == [i \in 1 .. n |-> IF i = 1 THEN s[i] ELSE f[i - 1] \o s[i]]
           the == CHOOSE f : f = body(f)
<1>1. n \in Nat /\ first \in Words /\ \A i \in 1 .. n : s[i] \in Words
  <2>1. \A i \in 1 .. n : s[i] \in Words
    BY ElementOfSeq
  <2> QED BY <2>1 DEF Words
<1>2. ASSUME NEW u \in Words, NEW v \in Words PROVE u \o v \in Words /\ first \o v = v
  BY ConcatProperties, ConcatEmptySeq DEF Words
<1>3. step \in [(1 .. n) \X Words -> Words]
  BY <1>1, <1>2
<1>4. ASSUME NEW i \in 1 .. n, NEW v \in Words PROVE step[<<i, v>>] = v \o s[i]
  OBVIOUS
<1> HIDE DEF n, step, first
<1>5. PICK h \in [0 .. n -> Words] : \A i \in 0 .. n : h[i] = IF i = 0 THEN first ELSE step[<<i, h[i - 1]>>]
  <2>1. Iteration(Words, n, first, step)
    BY <1>1, <1>3 DEF Iteration
  <2>2. \E f : Iterates(f, Words, n, first, step)
    BY <2>1, IterationExists
  <2> QED BY <2>2 DEF Iterates
<1>6. h[0] = first /\ \A i \in 1 .. n : h[i - 1] \in Words /\ h[i] = h[i - 1] \o s[i]
  <2>1. ASSUME NEW i \in 1 .. n PROVE h[i - 1] \in Words /\ h[i] = h[i - 1] \o s[i]
    <3>1. i \in 0 .. n /\ i # 0 /\ h[i - 1] \in Words
      BY <1>1, <1>5
    <3> QED BY <1>4, <1>5, <3>1
  <2>2. 0 \in 0 .. n
    BY <1>1
  <2> QED BY <1>5, <2>1, <2>2
<1>7. \E f : f = body(f)
  <2> DEFINE g == [i \in 1 .. n |-> h[i]]
  <2>1. ASSUME NEW i \in 1 .. n PROVE g[i] = IF i = 1 THEN s[i] ELSE g[i - 1] \o s[i]
    <3>1. CASE i = 1
      <4>1. i - 1 = 0
        BY <3>1
      <4>2. h[i] = h[i - 1] \o s[i] /\ h[i - 1] = first /\ s[i] \in Words
        BY <1>1, <1>6, <4>1
      <4>3. h[i] = s[i]
        BY <1>2, <4>2
      <4> QED BY <3>1, <4>3
    <3>2. CASE i # 1
      <4>1. i - 1 \in 1 .. n
        BY <1>1, <3>2
      <4> QED BY <1>6, <3>2, <4>1
    <3> QED BY <3>1, <3>2
  <2>2. g = body(g)
    BY <2>1
  <2> QED BY <2>2
<1>8. the = body(the)
  <2> HIDE DEF body
  <2> QED BY <1>7
<1>9. FlattenSeq(s) = IF n = 0 THEN s ELSE the[n]
  BY DEF FlattenSeq, n
<1> HIDE DEF the
<1>10. \A i \in 1 .. n : the[i] = IF i = 1 THEN s[i] ELSE the[i - 1] \o s[i]
  BY <1>8
<1> HIDE DEF body
<1> DEFINE T == {i \in 0 .. n : i = 0 \/ the[i] = h[i]}
<1>11. ASSUME NEW i \in 0 .. n - 1, i \in T PROVE i + 1 \in T
  <2> DEFINE k == i + 1
  <2>1. k \in 1 .. n /\ k \in 0 .. n /\ k - 1 = i /\ (k = 1 <=> i = 0)
    BY <1>1
  <2> HIDE DEF k
  <2>2. h[k] = h[i] \o s[k] /\ the[k] = IF k = 1 THEN s[k] ELSE the[i] \o s[k]
    <3>1. h[k] = h[k - 1] \o s[k]
      BY <1>6, <2>1
    <3>2. the[k] = IF k = 1 THEN s[k] ELSE the[k - 1] \o s[k]
      BY <1>10, <2>1
    <3> QED BY <2>1, <3>1, <3>2
  <2>3. the[k] = h[k]
    <3>1. CASE i = 0
      BY <1>1, <1>2, <1>6, <2>1, <2>2, <3>1
    <3>2. CASE i # 0
      BY <1>11, <2>1, <2>2, <3>2
    <3> QED BY <3>1, <3>2
  <2> QED BY <2>1, <2>3 DEF k
<1>12. 0 .. n \subseteq T
  <2>1. 0 \in T
    BY <1>1
  <2> HIDE DEF T
  <2> QED BY <1>1, <1>11, <2>1, RangeInduct
<1>13. FlattenSeq(s) = h[n]
  <2>1. CASE n = 0
    <3>1. s = << >>
      BY <2>1, EmptySeq DEF n
    <3> QED BY <1>6, <1>9, <2>1, <3>1 DEF first
  <2>2. CASE n # 0
    <3>1. n \in T
      BY <1>1, <1>12
    <3> QED BY <1>9, <2>2, <3>1
  <2> QED BY <2>1, <2>2
<1> QED BY <1>5, <1>6, <1>13 DEF n, first

LEMMA JoinedWords ==
  \A a, b \in Words : a \o b \in Words
BY ConcatProperties DEF Words

\* A sequence of such pieces is told apart piece by piece.
LEMMA FlattenDelimited ==
  ASSUME NEW s \in Seq(Words), NEW t \in Seq(Words), Len(s) = Len(t),
         \A i \in 1 .. Len(s) : Delimited(s[i], t[i])
  PROVE  /\ Delimited(FlattenSeq(s), FlattenSeq(t))
         /\ FlattenSeq(s) = FlattenSeq(t) => s = t
<1> DEFINE n == Len(s)
<1>1. n \in Nat /\ Len(t) = n
  OBVIOUS
<1>2. PICK f \in [0 .. n -> Words] :
             /\ f[0] = << >> /\ FlattenSeq(s) = f[n]
             /\ \A i \in 1 .. n : f[i] = f[i - 1] \o s[i]
  BY FlattenIs
<1>3. PICK g \in [0 .. n -> Words] :
             /\ g[0] = << >> /\ FlattenSeq(t) = g[n]
             /\ \A i \in 1 .. n : g[i] = g[i - 1] \o t[i]
  <2>1. \E g \in [0 .. Len(t) -> Words] :
             /\ g[0] = << >> /\ FlattenSeq(t) = g[Len(t)]
             /\ \A i \in 1 .. Len(t) : g[i] = g[i - 1] \o t[i]
    BY FlattenIs
  <2> HIDE DEF n
  <2> QED BY <1>1, <2>1
<1>4. \A i \in 1 .. n : s[i] \in Words /\ t[i] \in Words /\ Delimited(s[i], t[i])
  <2>1. \A i \in 1 .. n : Delimited(s[i], t[i])
    OBVIOUS
  <2> HIDE DEF n
  <2> QED BY <2>1 DEF Delimited
<1> HIDE DEF n
<1> DEFINE apart(i) == \A x, y \in Words : f[i] \o x = g[i] \o y => (\A j \in 1 .. i : s[j] = t[j]) /\ x = y
           T == {i \in 0 .. n : apart(i)}
<1>5. 0 \in T
  <2>1. \A x \in Words : << >> \o x = x
    BY ConcatEmptySeq DEF Words
  <2>2. apart(0)
    BY <1>2, <1>3, <2>1
  <2> HIDE DEF apart
  <2> QED BY <1>1, <2>2
<1>6. ASSUME NEW i \in 0 .. n - 1, apart(i) PROVE apart(i + 1)
  <2> DEFINE k == i + 1
             p == s[k]
             q == t[k]
             c == f[i]
             d == g[i]
  <2>1. k \in 1 .. n /\ k - 1 = i /\ i \in 0 .. n
    BY <1>1
  <2>2. \A j \in 1 .. k : j \in 1 .. i \/ j = k
    BY <1>1
  <2> HIDE DEF k
  <2>3. f[k] = c \o p /\ g[k] = d \o q
    BY <1>2, <1>3, <2>1
  <2>4. c \in Words /\ d \in Words /\ p \in Words /\ q \in Words /\ Delimited(p, q)
    BY <1>2, <1>3, <1>4, <2>1
  <2>5. \A x, y \in Words : c \o x = d \o y => (\A j \in 1 .. i : s[j] = t[j]) /\ x = y
    BY <1>6
  <2>6. ASSUME NEW x \in Words, NEW y \in Words, f[k] \o x = g[k] \o y
        PROVE  (\A j \in 1 .. k : s[j] = t[j]) /\ x = y
    <3> HIDE DEF c, d, p, q
    <3>1. (c \o p) \o x = c \o (p \o x)
      <4>1. c \in Words /\ p \in Words /\ x \in Words
        BY <2>4
      <4> QED BY ONLY <4>1, JoinAssociates
    <3>2. (d \o q) \o y = d \o (q \o y)
      <4>1. d \in Words /\ q \in Words /\ y \in Words
        BY <2>4
      <4> QED BY ONLY <4>1, JoinAssociates
    <3>3. p \o x \in Words /\ q \o y \in Words
      BY <2>4, JoinedWords
    <3>4. c \o (p \o x) = d \o (q \o y)
      BY <2>3, <2>6, <3>1, <3>2
    <3>5. (\A j \in 1 .. i : s[j] = t[j]) /\ p \o x = q \o y
      BY <2>5, <3>3, <3>4
    <3>6. p = q /\ x = y
      BY <2>4, <3>5 DEF Delimited
    <3> QED BY <2>2, <3>5, <3>6 DEF p, q
  <2> QED BY <2>6 DEF k
<1>7. apart(n)
  <2> HIDE DEF apart
  <2>1. \A i \in 0 .. n - 1 : i \in T => i + 1 \in T
    BY <1>1, <1>6
  <2>2. 0 .. n \subseteq T
    <3> HIDE DEF T
    <3> QED BY <1>1, <1>5, <2>1, RangeInduct
  <2> QED BY <1>1, <2>2
<1>8. f[n] \in Words /\ g[n] \in Words
  BY <1>1, <1>2, <1>3
<1>9. \A x, y \in Words : f[n] \o x = g[n] \o y => s = t /\ x = y
  <2>1. (\A j \in 1 .. n : s[j] = t[j]) => s = t
    BY <1>1, SeqEqual DEF n
  <2> QED BY <1>7, <2>1
<1>10. Delimited(f[n], g[n])
  <2>1. ASSUME NEW x \in Words, NEW y \in Words, f[n] \o x = g[n] \o y PROVE f[n] = g[n] /\ x = y
    <3>1. s = t /\ x = y
      BY <1>9, <2>1
    <3>2. FlattenSeq(s) = FlattenSeq(t)
      BY <3>1
    <3> QED BY <1>2, <1>3, <3>1, <3>2
  <2> QED BY <1>8, <2>1 DEF Delimited
<1>11. f[n] = g[n] => s = t
  <2>1. << >> \in Words
    BY DEF Words
  <2> QED BY <1>9, <2>1
<1> QED BY <1>2, <1>3, <1>10, <1>11

\* A reason is one word, written as it is.
LEMMA WriteOne ==
  ASSUME NEW r \in Nat
  PROVE  write(<<r>>) = <<1>> \o <<r>>
<1> DEFINE s == <<r>>
           W == WORD_BYTES
<1>1. s \in Seq(Nat) /\ Len(s) = 1 /\ s[1] = r
  OBVIOUS
<1>2. W \in Nat \ {0} /\ BYTE_BASE \in Nat
  BY DedupKeyAssumption
<1>3. LeWord(s) = r
  <2>1. PICK w \in [0 .. Len(s) -> Nat] :
               /\ w[0] = 0 /\ LeWord(s) = w[Len(s)]
               /\ \A i \in 1 .. Len(s) : w[i] = w[i - 1] * BYTE_BASE + s[Len(s) - i + 1]
    <3> HIDE DEF s
    <3> QED BY <1>1, WordIs
  <2>2. w[1] = w[1 - 1] * BYTE_BASE + s[1 - 1 + 1] /\ 1 - 1 = 0 /\ 1 - 1 + 1 = 1
    <3> HIDE DEF s
    <3>1. 1 \in 1 .. Len(s)
      BY <1>1
    <3> QED BY <1>1, <2>1, <3>1
  <2>3. 0 * BYTE_BASE + r = r
    BY <1>2
  <2> HIDE DEF s
  <2> QED BY <1>1, <2>1, <2>2, <2>3
<1>4. SubSeq(s, 1, 1) = s
  <2>1. /\ SubSeq(s, 1, 1) \in Seq(Nat) /\ Len(SubSeq(s, 1, 1)) = 1 - 1 + 1
        /\ \A x \in 1 .. 1 - 1 + 1 : SubSeq(s, 1, 1)[x] = s[1 + x - 1]
    <3>1. 1 \in Int /\ \A i \in 1 .. 1 : s[i] \in Nat
      BY <1>1
    <3> HIDE DEF s
    <3> QED BY <3>1, SubSeqProperties
  <2> DEFINE c == SubSeq(s, 1, 1)
  <2> HIDE DEF s, c
  <2>2. c \in Seq(Nat) /\ Len(c) = 1 /\ \A x \in 1 .. 1 : c[x] = s[x]
    BY <2>1 DEF c
  <2> QED BY <1>1, <2>2, SeqEqual DEF c
<1>5. Chunked(s) = <<r>>
  <2>1. (1 + W - 1) \div W = 1
    <3>1. (W * 1 + 0) \div W = 1
      BY <1>2, DivUnique
    <3>2. W * 1 + 0 = 1 + W - 1
      BY <1>2
    <3> QED BY <3>1, <3>2
  <2>2. ASSUME NEW i \in 1 .. 1 PROVE (i - 1) * W + 1 = 1 /\ (IF i * W < 1 THEN i * W ELSE 1) = 1
    BY <1>2
  <2> DEFINE word(i) == LeWord(SubSeq(s, (i - 1) * W + 1, IF i * W < 1 THEN i * W ELSE 1))
  <2>3. Chunked(s) = [i \in 1 .. 1 |-> word(i)]
    <3>1. Len(s) = 1
      BY <1>1
    <3> HIDE DEF s
    <3> QED BY <2>1, <3>1 DEF Chunked
  <2>4. ASSUME NEW i \in 1 .. 1 PROVE word(i) = r
    <3> HIDE DEF s
    <3> QED BY <1>3, <1>4, <2>2
  <2> HIDE DEF word, s
  <2>5. Chunked(s) = [i \in 1 .. 1 |-> r]
    BY <2>3, <2>4
  <2> QED BY <2>5
<1>6. write(s) = <<1>> \o Chunked(s)
  <2>1. Len(s) = 1
    BY <1>1
  <2> HIDE DEF s
  <2> QED BY <2>1 DEF write
<1> QED BY <1>5, <1>6

LEMMA ReasonDelimited ==
  ASSUME NEW p \in Nat, NEW q \in Nat
  PROVE  Delimited(write(<<p>>), write(<<q>>)) /\ (write(<<p>>) = write(<<q>>) => p = q)
<1>1. write(<<p>>) = <<1>> \o <<p>> /\ write(<<q>>) = <<1>> \o <<q>>
  BY WriteOne
<1>2. Delimited(<<1>>, <<1>>) /\ Delimited(<<p>>, <<q>>)
  BY SingleDelimited
<1>3. Delimited(write(<<p>>), write(<<q>>))
  BY <1>1, <1>2, ConcatDelimited
<1>4. <<1>> \o <<p>> = <<1>> \o <<q>> => p = q
  OBVIOUS
<1> QED BY <1>1, <1>3, <1>4

Header(a) ==
  <<write(a.flag), write(a.targeting_key), write(a.targeting_key_selector), write(a.assignment_id),
    write(a.variant), write(a.segment), write(a.rule), write(<<a.reason>>), <<Len(a.fell)>>>>
FellPart(r) == write(r.rule) \o write(r.assignment_id) \o write(r.targeting_key) \o write(r.targeting_key_selector)
FellParts(a) == [i \in DOMAIN a.fell |-> FellPart(a.fell[i])]

LEMMA KeyIs == \A a : compute_applied_flag_dedup_hash(a) = FlattenSeq(Header(a)) \o FlattenSeq(FellParts(a))
BY DEF compute_applied_flag_dedup_hash, Header, FellParts, FellPart

LEMMA FellApart ==
  ASSUME NEW r \in FellType, NEW t \in FellType
  PROVE  Delimited(FellPart(r), FellPart(t)) /\ (FellPart(r) = FellPart(t) => r = t)
<1> DEFINE r1 == write(r.rule)                    t1 == write(t.rule)
           r2 == write(r.assignment_id)           t2 == write(t.assignment_id)
           r3 == write(r.targeting_key)           t3 == write(t.targeting_key)
           r4 == write(r.targeting_key_selector)  t4 == write(t.targeting_key_selector)
<1>1. /\ r.rule \in ByteString /\ r.assignment_id \in ByteString
      /\ r.targeting_key \in ByteString /\ r.targeting_key_selector \in ByteString
      /\ t.rule \in ByteString /\ t.assignment_id \in ByteString
      /\ t.targeting_key \in ByteString /\ t.targeting_key_selector \in ByteString
  BY DEF FellType
<1>2. /\ Delimited(r1, t1) /\ (r1 = t1 => r.rule = t.rule)
      /\ Delimited(r2, t2) /\ (r2 = t2 => r.assignment_id = t.assignment_id)
      /\ Delimited(r3, t3) /\ (r3 = t3 => r.targeting_key = t.targeting_key)
      /\ Delimited(r4, t4) /\ (r4 = t4 => r.targeting_key_selector = t.targeting_key_selector)
  BY <1>1, WriteDelimited
<1>3. FellPart(r) = ((r1 \o r2) \o r3) \o r4 /\ FellPart(t) = ((t1 \o t2) \o t3) \o t4
  BY DEF FellPart
<1> HIDE DEF r1, r2, r3, r4, t1, t2, t3, t4
<1>4. Delimited(r1 \o r2, t1 \o t2)
  BY <1>2, ConcatDelimited
<1>5. Delimited((r1 \o r2) \o r3, (t1 \o t2) \o t3)
  BY <1>2, <1>4, ConcatDelimited
<1>6. Delimited(((r1 \o r2) \o r3) \o r4, ((t1 \o t2) \o t3) \o t4)
  BY <1>2, <1>5, ConcatDelimited
<1>7. ASSUME FellPart(r) = FellPart(t) PROVE r = t
  <2>1. (r1 \o r2) \o r3 = (t1 \o t2) \o t3 /\ r4 = t4
    BY <1>2, <1>3, <1>5, <1>7 DEF Delimited
  <2>2. r1 \o r2 = t1 \o t2 /\ r3 = t3
    BY <1>2, <1>4, <2>1 DEF Delimited
  <2>3. r1 = t1 /\ r2 = t2
    BY <1>2, <2>2 DEF Delimited
  <2>4. /\ r.rule = t.rule /\ r.assignment_id = t.assignment_id
        /\ r.targeting_key = t.targeting_key /\ r.targeting_key_selector = t.targeting_key_selector
    BY <1>2, <2>1, <2>2, <2>3
  <2> QED BY <2>4 DEF FellType
<1> QED BY <1>3, <1>6, <1>7

LEMMA FellPartsApart ==
  ASSUME NEW a \in AssignmentType, NEW b \in AssignmentType, Len(a.fell) = Len(b.fell),
         FlattenSeq(FellParts(a)) = FlattenSeq(FellParts(b))
  PROVE  a.fell = b.fell
<1> DEFINE n == Len(a.fell)
           s == FellParts(a)
           t == FellParts(b)
<1>1. a.fell \in Seq(FellType) /\ b.fell \in Seq(FellType) /\ n \in Nat
  BY DEF AssignmentType
<1>2. \A i \in 1 .. n : a.fell[i] \in FellType /\ b.fell[i] \in FellType
  BY <1>1, ElementOfSeq
<1>3. DOMAIN a.fell = 1 .. n /\ DOMAIN b.fell = 1 .. n
  BY <1>1
<1> HIDE DEF n
<1>4. s = [i \in 1 .. n |-> FellPart(a.fell[i])] /\ t = [i \in 1 .. n |-> FellPart(b.fell[i])]
  BY <1>3 DEF FellParts
<1>5. \A i \in 1 .. n : /\ Delimited(FellPart(a.fell[i]), FellPart(b.fell[i]))
                        /\ FellPart(a.fell[i]) = FellPart(b.fell[i]) => a.fell[i] = b.fell[i]
  BY <1>2, FellApart
<1>6. \A i \in 1 .. n : FellPart(a.fell[i]) \in Words /\ FellPart(b.fell[i]) \in Words
  BY <1>5 DEF Delimited
<1> HIDE DEF s, t
<1>7. s \in Seq(Words) /\ t \in Seq(Words) /\ Len(s) = n /\ Len(t) = n
  BY <1>1, <1>4, <1>6 DEF n
<1>8. \A i \in 1 .. n : s[i] = FellPart(a.fell[i]) /\ t[i] = FellPart(b.fell[i])
  BY <1>4
<1>9. \A i \in 1 .. Len(s) : Delimited(s[i], t[i])
  BY <1>5, <1>7, <1>8
<1>10. FlattenSeq(s) = FlattenSeq(t) => s = t
  BY <1>7, <1>9, FlattenDelimited
<1>11. s = t
  BY <1>10 DEF s, t
<1>12. \A i \in 1 .. n : a.fell[i] = b.fell[i]
  BY <1>5, <1>8, <1>11
<1> QED BY <1>1, <1>12, SeqEqual DEF n

LEMMA FellPartsWords ==
  ASSUME NEW a \in AssignmentType
  PROVE  FlattenSeq(FellParts(a)) \in Words
<1> DEFINE n == Len(a.fell)
           s == FellParts(a)
<1>1. a.fell \in Seq(FellType) /\ n \in Nat /\ DOMAIN a.fell = 1 .. n
  BY DEF AssignmentType
<1>2. \A i \in 1 .. n : FellPart(a.fell[i]) \in Words
  <2>1. \A i \in 1 .. n : a.fell[i] \in FellType
    BY <1>1, ElementOfSeq
  <2>2. \A r \in FellType : FellPart(r) \in Words
    BY FellApart DEF Delimited
  <2> QED BY <2>1, <2>2
<1> HIDE DEF n
<1>3. s \in Seq(Words)
  BY <1>1, <1>2 DEF FellParts
<1> HIDE DEF s
<1>4. PICK f \in [0 .. Len(s) -> Words] : FlattenSeq(s) = f[Len(s)]
  BY <1>3, FlattenIs
<1>5. Len(s) \in 0 .. Len(s)
  BY <1>3
<1> QED BY <1>4, <1>5 DEF s

LEMMA HeaderDelimited ==
  ASSUME NEW a \in AssignmentType, NEW b \in AssignmentType
  PROVE  /\ Header(a) \in Seq(Words) /\ Len(Header(a)) = 9 /\ Header(b) \in Seq(Words) /\ Len(Header(b)) = 9
         /\ \A i \in 1 .. 9 : Delimited(Header(a)[i], Header(b)[i])
         /\ Header(a) = Header(b) =>
              /\ a.flag = b.flag /\ a.targeting_key = b.targeting_key
              /\ a.targeting_key_selector = b.targeting_key_selector /\ a.assignment_id = b.assignment_id
              /\ a.variant = b.variant /\ a.segment = b.segment /\ a.rule = b.rule
              /\ a.reason = b.reason /\ Len(a.fell) = Len(b.fell)
<1> DEFINE a1 == write(a.flag)                    b1 == write(b.flag)
           a2 == write(a.targeting_key)           b2 == write(b.targeting_key)
           a3 == write(a.targeting_key_selector)  b3 == write(b.targeting_key_selector)
           a4 == write(a.assignment_id)           b4 == write(b.assignment_id)
           a5 == write(a.variant)                 b5 == write(b.variant)
           a6 == write(a.segment)                 b6 == write(b.segment)
           a7 == write(a.rule)                    b7 == write(b.rule)
           a8 == write(<<a.reason>>)              b8 == write(<<b.reason>>)
           a9 == <<Len(a.fell)>>                  b9 == <<Len(b.fell)>>
<1>1. /\ a.flag \in ByteString /\ a.targeting_key \in ByteString /\ a.targeting_key_selector \in ByteString
      /\ a.assignment_id \in ByteString /\ a.variant \in ByteString /\ a.segment \in ByteString /\ a.rule \in ByteString
      /\ a.reason \in Nat /\ Len(a.fell) \in Nat
  BY DEF AssignmentType
<1>2. /\ b.flag \in ByteString /\ b.targeting_key \in ByteString /\ b.targeting_key_selector \in ByteString
      /\ b.assignment_id \in ByteString /\ b.variant \in ByteString /\ b.segment \in ByteString /\ b.rule \in ByteString
      /\ b.reason \in Nat /\ Len(b.fell) \in Nat
  BY DEF AssignmentType
<1>3. /\ Delimited(a1, b1) /\ (a1 = b1 => a.flag = b.flag)
      /\ Delimited(a2, b2) /\ (a2 = b2 => a.targeting_key = b.targeting_key)
      /\ Delimited(a3, b3) /\ (a3 = b3 => a.targeting_key_selector = b.targeting_key_selector)
      /\ Delimited(a4, b4) /\ (a4 = b4 => a.assignment_id = b.assignment_id)
      /\ Delimited(a5, b5) /\ (a5 = b5 => a.variant = b.variant)
      /\ Delimited(a6, b6) /\ (a6 = b6 => a.segment = b.segment)
      /\ Delimited(a7, b7) /\ (a7 = b7 => a.rule = b.rule)
  BY <1>1, <1>2, WriteDelimited
<1>4. Delimited(a8, b8) /\ (a8 = b8 => a.reason = b.reason)
  BY <1>1, <1>2, ReasonDelimited
<1>5. Delimited(a9, b9) /\ (a9 = b9 => Len(a.fell) = Len(b.fell))
  BY <1>1, <1>2, SingleDelimited
<1>6. /\ Header(a) = <<a1, a2, a3, a4, a5, a6, a7, a8, a9>>
      /\ Header(b) = <<b1, b2, b3, b4, b5, b6, b7, b8, b9>>
  BY DEF Header
<1> HIDE DEF a1, a2, a3, a4, a5, a6, a7, a8, a9, b1, b2, b3, b4, b5, b6, b7, b8, b9
<1>7. /\ a1 \in Words /\ a2 \in Words /\ a3 \in Words /\ a4 \in Words /\ a5 \in Words
      /\ a6 \in Words /\ a7 \in Words /\ a8 \in Words /\ a9 \in Words
      /\ b1 \in Words /\ b2 \in Words /\ b3 \in Words /\ b4 \in Words /\ b5 \in Words
      /\ b6 \in Words /\ b7 \in Words /\ b8 \in Words /\ b9 \in Words
  BY <1>3, <1>4, <1>5 DEF Delimited
<1>8. Header(a) \in Seq(Words) /\ Len(Header(a)) = 9
  BY <1>6, <1>7
<1>9. Header(b) \in Seq(Words) /\ Len(Header(b)) = 9
  BY <1>6, <1>7
<1>10. ASSUME NEW i \in 1 .. 9 PROVE Delimited(Header(a)[i], Header(b)[i])
  <2>1. i \in {1, 2, 3, 4, 5, 6, 7, 8, 9}
    OBVIOUS
  <2> QED BY <1>3, <1>4, <1>5, <1>6, <2>1
<1>11. Header(a) = Header(b) =>
         a1 = b1 /\ a2 = b2 /\ a3 = b3 /\ a4 = b4 /\ a5 = b5 /\ a6 = b6 /\ a7 = b7 /\ a8 = b8 /\ a9 = b9
  BY <1>6
<1> QED BY <1>3, <1>4, <1>5, <1>8, <1>9, <1>10, <1>11

\* Two assignments have one key only if they are one assignment.
LEMMA KeyApart ==
  ASSUME NEW a \in AssignmentType, NEW b \in AssignmentType,
         compute_applied_flag_dedup_hash(a) = compute_applied_flag_dedup_hash(b)
  PROVE  a = b
<1>1. FlattenSeq(Header(a)) \o FlattenSeq(FellParts(a)) = FlattenSeq(Header(b)) \o FlattenSeq(FellParts(b))
  BY KeyIs
<1>2. Delimited(FlattenSeq(Header(a)), FlattenSeq(Header(b))) /\ (FlattenSeq(Header(a)) = FlattenSeq(Header(b)) => Header(a) = Header(b))
  <2> DEFINE s == Header(a)
             t == Header(b)
  <2>1. s \in Seq(Words) /\ t \in Seq(Words) /\ Len(s) = Len(t) /\ \A i \in 1 .. Len(s) : Delimited(s[i], t[i])
    BY HeaderDelimited, SMTT(30)
  <2> HIDE DEF s, t
  <2>2. Delimited(FlattenSeq(s), FlattenSeq(t)) /\ (FlattenSeq(s) = FlattenSeq(t) => s = t)
    BY <2>1, FlattenDelimited
  <2> QED BY <2>2 DEF s, t
<1>3. FlattenSeq(FellParts(a)) \in Words /\ FlattenSeq(FellParts(b)) \in Words
  BY FellPartsWords
<1>4. Header(a) = Header(b) /\ FlattenSeq(FellParts(a)) = FlattenSeq(FellParts(b))
  BY <1>1, <1>2, <1>3 DEF Delimited
<1>5. /\ a.flag = b.flag /\ a.targeting_key = b.targeting_key
      /\ a.targeting_key_selector = b.targeting_key_selector /\ a.assignment_id = b.assignment_id
      /\ a.variant = b.variant /\ a.segment = b.segment /\ a.rule = b.rule
      /\ a.reason = b.reason /\ Len(a.fell) = Len(b.fell)
  BY <1>4, HeaderDelimited
<1>6. a.fell = b.fell
  BY <1>4, <1>5, FellPartsApart
<1> QED BY <1>5, <1>6 DEF AssignmentType

LEMMA EventAssignment ==
  ASSUME NEW a \in AssignmentType
  PROVE  EventView(AppliedFlag(a)) \in AssignmentType
<1>1. << >> \in ByteString /\ Match \in Nat /\ Unspecified \in Nat
  BY DEF ByteString, Match, Unspecified
<1>2. /\ a.flag \in ByteString /\ a.targeting_key \in ByteString /\ a.targeting_key_selector \in ByteString
      /\ a.assignment_id \in ByteString /\ a.variant \in ByteString /\ a.segment \in ByteString /\ a.rule \in ByteString
      /\ a.reason \in Nat /\ a.fell \in Seq(FellType)
  BY DEF AssignmentType
<1>3. CASE a.variant # << >>
  BY <1>1, <1>2, <1>3 DEF EventView, AppliedFlag, AssignmentType
<1>4. CASE a.variant = << >>
  BY <1>1, <1>2, <1>4 DEF EventView, AppliedFlag, AssignmentType
<1> QED BY <1>3, <1>4

\* Two events with one key report the same.
LEMMA EventApart ==
  ASSUME NEW a \in AssignmentType, NEW b \in AssignmentType, EventKey(a) = EventKey(b)
  PROVE  AppliedFlag(a) = AppliedFlag(b)
<1> DEFINE v == EventView(AppliedFlag(a))
           w == EventView(AppliedFlag(b))
<1>1. v = w
  BY EventAssignment, KeyApart DEF EventKey
<1>2. /\ v.flag = w.flag /\ v.targeting_key = w.targeting_key /\ v.targeting_key_selector = w.targeting_key_selector
      /\ v.assignment_id = w.assignment_id /\ v.rule = w.rule /\ v.fell = w.fell
      /\ v.variant = w.variant /\ v.segment = w.segment /\ v.reason = w.reason
  BY <1>1
<1>3. /\ v.flag = a.flag /\ v.targeting_key = a.targeting_key /\ v.targeting_key_selector = a.targeting_key_selector
      /\ v.assignment_id = a.assignment_id /\ v.rule = a.rule /\ v.fell = a.fell
      /\ v.variant = a.variant
      /\ a.variant # << >> => v.segment = a.segment
      /\ a.variant = << >> => v.reason = IF a.reason \in EventReasons THEN a.reason ELSE Unspecified
  BY DEF EventView, AppliedFlag
<1>4. /\ w.flag = b.flag /\ w.targeting_key = b.targeting_key /\ w.targeting_key_selector = b.targeting_key_selector
      /\ w.assignment_id = b.assignment_id /\ w.rule = b.rule /\ w.fell = b.fell
      /\ w.variant = b.variant
      /\ b.variant # << >> => w.segment = b.segment
      /\ b.variant = << >> => w.reason = IF b.reason \in EventReasons THEN b.reason ELSE Unspecified
  BY DEF EventView, AppliedFlag
<1> HIDE DEF v, w
<1>5. /\ a.flag = b.flag /\ a.targeting_key = b.targeting_key /\ a.targeting_key_selector = b.targeting_key_selector
      /\ a.assignment_id = b.assignment_id /\ a.rule = b.rule /\ a.fell = b.fell /\ a.variant = b.variant
  BY <1>2, <1>3, <1>4
<1>6. CASE a.variant # << >>
  <2>1. a.segment = b.segment
    BY <1>2, <1>3, <1>4, <1>5, <1>6
  <2> QED BY <1>5, <1>6, <2>1 DEF AppliedFlag
<1>7. CASE a.variant = << >>
  <2>1. (IF a.reason \in EventReasons THEN a.reason ELSE Unspecified) = IF b.reason \in EventReasons THEN b.reason ELSE Unspecified
    BY <1>2, <1>3, <1>4, <1>5, <1>7
  <2> QED BY <1>5, <1>7, <2>1 DEF AppliedFlag
<1> QED BY <1>6, <1>7

LEMMA IdentityLaw == Picked => IdentityKept
<1> SUFFICES ASSUME Picked, input.law = "key", NEW b \in Keyed
             PROVE  /\ b[2] = compute_applied_flag_dedup_hash(input.of) => b[1] = input.of
                    /\ b[3] = EventKey(input.of) => AppliedFlag(b[1]) = AppliedFlag(input.of)
  BY DEF IdentityKept
<1>1. input.of \in AssignmentType
  BY IdentitiesAssumption DEF Picked
<1>2. PICK a \in Identities : b = <<a, compute_applied_flag_dedup_hash(a), EventKey(a)>>
  BY DEF Keyed
<1>3. a \in AssignmentType /\ b[1] = a /\ b[2] = compute_applied_flag_dedup_hash(a) /\ b[3] = EventKey(a)
  BY <1>2, IdentitiesAssumption
<1> QED BY <1>1, <1>3, KeyApart, EventApart

-----------------------------------------------------------------------------
(* Cut batches.  Lands says what a delivery of ids did: those in S landed, *)
(* whether any did and whether any did not; solid that nothing in it is    *)
(* empty.                                                                  *)

Lands(at, end, ids, ok, lost, solid) ==
  /\ end \in Progress /\ end.fails = at.fails /\ end.refused = at.refused
  /\ \E S \in SUBSET ids :
       /\ end.landed = at.landed \cup S
       /\ at.landed \cap S = {} => end.twice = at.twice
       /\ (S # ids => lost) /\ (S # {} => ok)
       /\ solid => (lost => S # ids) /\ (ok => S # {})

LEMMA LandsBoth ==
  ASSUME NEW at, NEW mid, NEW end, NEW I, NEW J, NEW ok1, NEW ok2, NEW lost1, NEW lost2, NEW solid,
         Lands(at, mid, I, ok1, lost1, solid), Lands(mid, end, J, ok2, lost2, solid), I \cap J = {}
  PROVE  Lands(at, end, I \cup J, ok1 \/ ok2, lost1 \/ lost2, solid)
<1>1. PICK S \in SUBSET I :
        /\ mid.landed = at.landed \cup S
        /\ at.landed \cap S = {} => mid.twice = at.twice
        /\ (S # I => lost1) /\ (S # {} => ok1)
        /\ solid => (lost1 => S # I) /\ (ok1 => S # {})
  BY DEF Lands
<1>2. PICK T \in SUBSET J :
        /\ end.landed = mid.landed \cup T
        /\ mid.landed \cap T = {} => end.twice = mid.twice
        /\ (T # J => lost2) /\ (T # {} => ok2)
        /\ solid => (lost2 => T # J) /\ (ok2 => T # {})
  BY DEF Lands
<1>3. end \in Progress /\ end.fails = at.fails /\ end.refused = at.refused
  BY DEF Lands
<1>4. S \cup T \in SUBSET (I \cup J) /\ end.landed = at.landed \cup (S \cup T)
  BY <1>1, <1>2
<1>5. at.landed \cap (S \cup T) = {} => end.twice = at.twice
  BY <1>1, <1>2
<1>6. S \cup T = I \cup J <=> S = I /\ T = J
  <2>1. \A x : x \in S => x \in I
    OBVIOUS
  <2>2. \A x : x \in T => x \in J
    OBVIOUS
  <2>3. \A x : ~(x \in I /\ x \in J)
    OBVIOUS
  <2> QED BY <2>1, <2>2, <2>3
<1>7. S \cup T = {} <=> S = {} /\ T = {}
  OBVIOUS
<1>8. /\ (S \cup T # I \cup J => lost1 \/ lost2) /\ (S \cup T # {} => ok1 \/ ok2)
      /\ solid => (lost1 \/ lost2 => S \cup T # I \cup J) /\ (ok1 \/ ok2 => S \cup T # {})
  BY <1>1, <1>2, <1>6, <1>7
<1> QED BY <1>3, <1>4, <1>5, <1>8 DEF Lands

\* A delivery that did not land anything lost everything.
LEMMA LandsNone ==
  ASSUME NEW at, at \in Progress, NEW ids, NEW solid, solid => ids # {}
  PROVE  Lands(at, at, ids, FALSE, TRUE, solid)
<1>1. {} \in SUBSET ids /\ at.landed = at.landed \cup {}
  OBVIOUS
<1> QED BY <1>1 DEF Lands

LEMMA PostLands ==
  ASSUME NEW at, at \in Progress, NEW request, Ids(request) \in SUBSET Id, Fits(request)
  PROVE  Lands(at, Post(request, at), Ids(request), Posted(at), ~Posted(at), Ids(request) # {})
<1> DEFINE ids == Ids(request)
           end == Post(request, at)
           S == IF Posted(at) THEN ids ELSE {}
<1>1. /\ at.posts \in Nat /\ at.fails \in SUBSET Nat /\ at.landed \in SUBSET Id
      /\ at.twice \in BOOLEAN /\ at.refused \in BOOLEAN
  BY DEF Progress
<1>2. end = [posts   |-> at.posts + 1,
             fails   |-> at.fails,
             landed  |-> IF Posted(at) THEN at.landed \cup ids ELSE at.landed,
             twice   |-> at.twice \/ (Posted(at) /\ at.landed \cap ids # {}),
             refused |-> at.refused \/ ~Fits(request)]
  BY DEF Post
<1> HIDE DEF ids, end
<1>3. end.fails = at.fails /\ end.refused = at.refused
  BY <1>1, <1>2
<1>4. end \in Progress
  <2>1. (IF Posted(at) THEN at.landed \cup ids ELSE at.landed) \in SUBSET Id
    BY <1>1 DEF ids
  <2> QED BY <1>1, <1>2, <2>1 DEF Progress
<1>5. S \in SUBSET ids /\ end.landed = at.landed \cup S
  BY <1>2
<1>6. at.landed \cap S = {} => end.twice = at.twice
  BY <1>1, <1>2
<1>7. /\ (S # ids => ~Posted(at)) /\ (S # {} => Posted(at))
      /\ ids # {} => (~Posted(at) => S # ids) /\ (Posted(at) => S # {})
  OBVIOUS
<1>8. Lands(at, end, ids, Posted(at), ~Posted(at), ids # {})
  <2> HIDE DEF S
  <2> QED BY <1>3, <1>4, <1>5, <1>6, <1>7 DEF Lands
<1> QED BY <1>8 DEF ids, end

\* The halves of a sequence.
FrontHalf(s) == SubSeq(s, 1, Half(s))
BackHalf(s)  == SubSeq(s, Half(s) + 1, Len(s))

LEMMA HalvesAre ==
  ASSUME NEW X, NEW s \in Seq(X), Len(s) > 1
  PROVE  /\ Half(s) \in Nat /\ 1 <= Half(s) /\ Half(s) < Len(s)
         /\ FrontHalf(s) \in Seq(X) /\ Len(FrontHalf(s)) = Half(s)
         /\ \A i \in 1 .. Half(s) : FrontHalf(s)[i] = s[i]
         /\ BackHalf(s) \in Seq(X) /\ Len(BackHalf(s)) = Len(s) - Half(s)
         /\ \A i \in 1 .. Len(s) - Half(s) : BackHalf(s)[i] = s[Half(s) + i]
<1> DEFINE n == Len(s)
           k == Half(s)
<1>1. n \in Nat /\ n > 1
  OBVIOUS
<1>2. k \in Nat /\ 1 <= k /\ k < n
  <2>1. k = n \div 2
    BY DEF Half
  <2> HIDE DEF k, n
  <2>2. n = 2 * k + (n % 2) /\ n % 2 \in {0, 1} /\ k \in Nat
    BY <1>1, <2>1
  <2> QED BY <1>1, <2>2
<1>3. \A i \in 1 .. n : s[i] \in X
  BY ElementOfSeq
<1> HIDE DEF n, k
<1>4. /\ SubSeq(s, 1, k) \in Seq(X) /\ Len(SubSeq(s, 1, k)) = k - 1 + 1
      /\ \A i \in 1 .. k - 1 + 1 : SubSeq(s, 1, k)[i] = s[1 + i - 1]
  <2>1. 1 \in Int /\ k \in Int /\ 1 <= k + 1 /\ \A i \in 1 .. k : s[i] \in X
    BY <1>1, <1>2, <1>3
  <2> QED BY <1>2, <2>1, SubSeqProperties
<1>5. /\ SubSeq(s, k + 1, n) \in Seq(X) /\ Len(SubSeq(s, k + 1, n)) = n - (k + 1) + 1
      /\ \A i \in 1 .. n - (k + 1) + 1 : SubSeq(s, k + 1, n)[i] = s[k + 1 + i - 1]
  <2> DEFINE m == k + 1
  <2>1. m \in Int /\ n \in Int /\ m <= n /\ m <= n + 1 /\ \A i \in m .. n : s[i] \in X
    BY <1>1, <1>2, <1>3
  <2> HIDE DEF m
  <2>2. /\ SubSeq(s, m, n) \in Seq(X) /\ Len(SubSeq(s, m, n)) = n - m + 1
        /\ \A i \in 1 .. n - m + 1 : SubSeq(s, m, n)[i] = s[m + i - 1]
    BY <2>1, SubSeqProperties
  <2> QED BY <2>2 DEF m
<1>6. FrontHalf(s) = SubSeq(s, 1, k) /\ BackHalf(s) = SubSeq(s, k + 1, n)
  BY DEF FrontHalf, BackHalf, k, n
<1>7. k - 1 + 1 = k /\ n - (k + 1) + 1 = n - k /\ \A i \in Int : 1 + i - 1 = i /\ k + 1 + i - 1 = k + i
  BY <1>1, <1>2
<1> DEFINE f == SubSeq(s, 1, k)
           b == SubSeq(s, k + 1, n)
<1>8. f \in Seq(X) /\ Len(f) = k /\ \A i \in 1 .. k : f[i] = s[i]
  <2>1. \A i \in 1 .. k - 1 + 1 : f[i] = s[1 + i - 1]
    BY <1>4
  <2> HIDE DEF f
  <2>2. \A i \in 1 .. k : f[i] = s[i]
    BY <1>7, <2>1
  <2> QED BY <1>4, <1>7, <2>2 DEF f
<1>9. b \in Seq(X) /\ Len(b) = n - k /\ \A i \in 1 .. n - k : b[i] = s[k + i]
  <2>1. \A i \in 1 .. n - (k + 1) + 1 : b[i] = s[k + 1 + i - 1]
    BY <1>5
  <2> HIDE DEF b
  <2>2. ASSUME NEW i \in 1 .. n - k PROVE b[i] = s[k + i]
    <3>1. i \in 1 .. n - (k + 1) + 1 /\ k + 1 + i - 1 = k + i
      BY <1>7
    <3> QED BY <2>1, <3>1
  <2> QED BY <1>5, <1>7, <2>2 DEF b
<1> HIDE DEF f, b
<1> QED BY <1>2, <1>6, <1>8, <1>9 DEF f, b, k, n

\* The parts of a sequence have different ids.
Distinct(parts) == \A x, y \in DOMAIN parts : x # y => parts[x].id # parts[y].id

LEMMA HalvesIds ==
  ASSUME NEW s \in Seq(Part), Len(s) > 1
  PROVE  /\ IdsOf(s) = IdsOf(FrontHalf(s)) \cup IdsOf(BackHalf(s))
         /\ Distinct(s) => /\ Distinct(FrontHalf(s)) /\ Distinct(BackHalf(s))
                           /\ IdsOf(FrontHalf(s)) \cap IdsOf(BackHalf(s)) = {}
<1> DEFINE n == Len(s)
           k == Half(s)
           f == FrontHalf(s)
           b == BackHalf(s)
<1>1. n \in Nat /\ DOMAIN s = 1 .. n
  OBVIOUS
<1>2. /\ k \in Nat /\ 1 <= k /\ k < n
      /\ DOMAIN f = 1 .. k /\ (\A i \in 1 .. k : f[i] = s[i])
      /\ DOMAIN b = 1 .. n - k /\ \A i \in 1 .. n - k : b[i] = s[k + i]
  BY HalvesAre
<1> HIDE DEF n, k, f, b
<1>3. \A i \in 1 .. n : i \in 1 .. k \/ (i - k \in 1 .. n - k /\ k + (i - k) = i)
  BY <1>1, <1>2
<1>4. /\ \A i \in 1 .. k : i \in 1 .. n
      /\ \A i \in 1 .. n - k : k + i \in 1 .. n /\ \A j \in 1 .. k : k + i # j
      /\ \A i, j \in 1 .. n - k : i # j => k + i # k + j
  BY <1>1, <1>2
<1>5. \A x : x \in IdsOf(s) <=> x \in IdsOf(f) \/ x \in IdsOf(b)
  <2>1. ASSUME NEW x \in IdsOf(s) PROVE x \in IdsOf(f) \/ x \in IdsOf(b)
    <3>1. PICK i \in 1 .. n : x = s[i].id
      BY <1>1, <2>1 DEF IdsOf
    <3>2. CASE i \in 1 .. k
      BY <1>2, <3>1, <3>2 DEF IdsOf
    <3>3. CASE i - k \in 1 .. n - k /\ k + (i - k) = i
      BY <1>2, <3>1, <3>3 DEF IdsOf
    <3> QED BY <1>3, <3>2, <3>3
  <2>2. ASSUME NEW x \in IdsOf(f) PROVE x \in IdsOf(s)
    BY <1>1, <1>2, <1>4, <2>2 DEF IdsOf
  <2>3. ASSUME NEW x \in IdsOf(b) PROVE x \in IdsOf(s)
    BY <1>1, <1>2, <1>4, <2>3 DEF IdsOf
  <2> QED BY <2>1, <2>2, <2>3
<1>6. ASSUME Distinct(s) PROVE Distinct(f) /\ Distinct(b) /\ IdsOf(f) \cap IdsOf(b) = {}
  <2>1. Distinct(f)
    BY <1>1, <1>2, <1>4, <1>6 DEF Distinct
  <2>2. Distinct(b)
    <3> SUFFICES ASSUME NEW x \in 1 .. n - k, NEW y \in 1 .. n - k, x # y PROVE b[x].id # b[y].id
      BY <1>2 DEF Distinct
    <3>1. k + x \in 1 .. n /\ k + y \in 1 .. n /\ k + x # k + y
      BY <1>4
    <3>2. s[k + x].id # s[k + y].id
      BY <1>1, <1>6, <3>1 DEF Distinct
    <3> QED BY <1>2, <3>2
  <2>3. ASSUME NEW x \in IdsOf(f), x \in IdsOf(b) PROVE FALSE
    <3>1. PICK i \in 1 .. k : x = s[i].id
      BY <1>2, <2>3 DEF IdsOf
    <3>2. PICK j \in 1 .. n - k : x = s[k + j].id
      BY <1>2, <2>3 DEF IdsOf
    <3>3. i \in 1 .. n /\ k + j \in 1 .. n /\ k + j # i
      BY <1>4
    <3> QED BY <1>1, <1>6, <3>1, <3>2, <3>3 DEF Distinct
  <2> QED BY <2>1, <2>2, <2>3
<1>7. IdsOf(s) = IdsOf(f) \cup IdsOf(b)
  BY <1>5
<1> QED BY <1>6, <1>7 DEF f, b

LEMMA IdsOfType == \A parts \in Seq(Part) : IdsOf(parts) \in SUBSET Id
<1> SUFFICES ASSUME NEW parts \in Seq(Part), NEW i \in DOMAIN parts PROVE parts[i].id \in Id
  BY DEF IdsOf
<1>1. parts[i] \in Part
  BY ElementOfSeq
<1> QED BY <1>1 DEF Part

LEMMA IdsOfSome == \A parts \in Seq(Part) : IdsOf(parts) = {} <=> parts = << >>
<1> SUFFICES ASSUME NEW parts \in Seq(Part) PROVE IdsOf(parts) = {} <=> parts = << >>
  OBVIOUS
<1>1. parts = << >> <=> DOMAIN parts = {}
  BY EmptySeq
<1>2. IdsOf(parts) = {} <=> DOMAIN parts = {}
  BY DEF IdsOf
<1> QED BY <1>1, <1>2

\* SplitFlags, one call at a time.
Splitting == [flags : Flags, carry : Seq(Part), any_ok : BOOLEAN, any_lost : BOOLEAN, at : Progress]

Piece(p) == [carry |-> p.carry, assigned |-> <<p.flags>>]
Flagged(p, flags) == [p EXCEPT !.flags = flags]
PieceSent(p) ==
  [flags |-> p.flags, carry |-> << >>, any_ok |-> p.any_ok \/ Posted(p.at),
   any_lost |-> p.any_lost \/ ~Posted(p.at), at |-> Post(Piece(p), p.at)]

SplitStep(g, p) ==
  IF Fits(Piece(p)) THEN PieceSent(p)
  ELSE IF Len(p.flags) <= 1 THEN [p EXCEPT !.any_lost = TRUE]
  ELSE g[Flagged(g[Flagged(p, FrontHalf(p.flags))], BackHalf(p.flags))]

LEMMA SplittingFields ==
  ASSUME NEW p \in Splitting
  PROVE  /\ p.flags \in Flags /\ p.carry \in Seq(Part) /\ p.any_ok \in BOOLEAN /\ p.any_lost \in BOOLEAN
         /\ p.at \in Progress /\ Len(p.flags) \in Nat
BY DEF Splitting, Flags

LEMMA FlaggedIs ==
  ASSUME NEW p \in Splitting, NEW flags \in Flags
  PROVE  /\ Flagged(p, flags) \in Splitting /\ Flagged(p, flags).flags = flags
         /\ Flagged(p, flags).carry = p.carry /\ Flagged(p, flags).any_ok = p.any_ok
         /\ Flagged(p, flags).any_lost = p.any_lost /\ Flagged(p, flags).at = p.at
BY DEF Splitting, Flagged

LEMMA PieceIds ==
  ASSUME NEW p \in Splitting
  PROVE  Ids(Piece(p)) = IdsOf(p.flags) \cup IdsOf(p.carry) /\ Ids(Piece(p)) \in SUBSET Id
<1>1. p.flags \in Seq(Part) /\ p.carry \in Seq(Part)
  BY DEF Splitting, Flags
<1> DEFINE a == <<p.flags>>
<1>2. DOMAIN a = {1} /\ a[1] = p.flags
  OBVIOUS
<1>3. Ids(Piece(p)) = IdsOf(p.carry) \cup UNION {IdsOf(a[i]) : i \in DOMAIN a}
  BY DEF Ids, Piece
<1> HIDE DEF a
<1>4. UNION {IdsOf(a[i]) : i \in DOMAIN a} = IdsOf(p.flags)
  BY <1>2
<1>5. IdsOf(p.flags) \in SUBSET Id /\ IdsOf(p.carry) \in SUBSET Id
  BY <1>1, IdsOfType
<1> QED BY <1>3, <1>4, <1>5

LEMMA PieceSentIs ==
  ASSUME NEW p \in Splitting, Fits(Piece(p))
  PROVE  /\ PieceSent(p) \in Splitting /\ PieceSent(p).carry = << >>
         /\ PieceSent(p).any_ok = (p.any_ok \/ Posted(p.at)) /\ PieceSent(p).any_lost = (p.any_lost \/ ~Posted(p.at))
         /\ PieceSent(p).at = Post(Piece(p), p.at)
<1>1. Post(Piece(p), p.at) \in Progress
  <2>1. p.at \in Progress /\ Ids(Piece(p)) \in SUBSET Id
    BY PieceIds DEF Splitting
  <2> QED BY <2>1, PostLands DEF Lands
<1> DEFINE end == Post(Piece(p), p.at)
           q == PieceSent(p)
<1> HIDE DEF end
<1>2. q = [flags |-> p.flags, carry |-> << >>, any_ok |-> p.any_ok \/ Posted(p.at),
           any_lost |-> p.any_lost \/ ~Posted(p.at), at |-> end]
  BY DEF PieceSent, end
<1> HIDE DEF q
<1>3. q.carry = << >> /\ q.any_ok = (p.any_ok \/ Posted(p.at)) /\ q.any_lost = (p.any_lost \/ ~Posted(p.at)) /\ q.at = end
  BY <1>2
<1>4. q \in Splitting
  <2>1. p.flags \in Flags /\ << >> \in Seq(Part) /\ end \in Progress
    BY <1>1 DEF Splitting, end
  <2>2. (p.any_ok \/ Posted(p.at)) \in BOOLEAN /\ (p.any_lost \/ ~Posted(p.at)) \in BOOLEAN
    OBVIOUS
  <2> QED BY <1>2, <2>1, <2>2 DEF Splitting
<1> QED BY <1>3, <1>4 DEF q, end

LEMMA LostIs ==
  ASSUME NEW p \in Splitting
  PROVE  LET q == [p EXCEPT !.any_lost = TRUE]
         IN  /\ q \in Splitting /\ q.carry = p.carry /\ q.any_ok = p.any_ok /\ q.any_lost = TRUE /\ q.at = p.at
BY DEF Splitting

LEMMA HalvesOfFlags ==
  ASSUME NEW flags \in Flags, Len(flags) > 1
  PROVE  /\ FrontHalf(flags) \in Flags /\ FrontHalf(flags) # << >> /\ Len(FrontHalf(flags)) < Len(flags)
         /\ BackHalf(flags) \in Flags /\ BackHalf(flags) # << >> /\ Len(BackHalf(flags)) < Len(flags)
<1>1. flags \in Seq(Part) /\ Len(flags) \in Nat
  BY DEF Flags
<1>2. /\ Half(flags) \in Nat /\ 1 <= Half(flags) /\ Half(flags) < Len(flags)
      /\ FrontHalf(flags) \in Seq(Part) /\ Len(FrontHalf(flags)) = Half(flags)
      /\ BackHalf(flags) \in Seq(Part) /\ Len(BackHalf(flags)) = Len(flags) - Half(flags)
  BY <1>1, HalvesAre
<1>3. Len(FrontHalf(flags)) # 0 /\ Len(BackHalf(flags)) # 0 /\ Len(BackHalf(flags)) < Len(flags)
  BY <1>1, <1>2
<1> QED BY <1>2, <1>3, EmptySeq DEF Flags

LEMMA SplitStepIs ==
  ASSUME NEW g, NEW p \in Splitting, \A q \in Splitting : Len(q.flags) < Len(p.flags) => g[q] \in Splitting
  PROVE  SplitStep(g, p) \in Splitting
<1>1. p.flags \in Flags /\ Len(p.flags) \in Nat
  BY SplittingFields
<1>2. CASE Fits(Piece(p))
  BY <1>2, PieceSentIs DEF SplitStep
<1>3. CASE ~Fits(Piece(p)) /\ Len(p.flags) <= 1
  BY <1>3, LostIs DEF SplitStep
<1>4. CASE ~Fits(Piece(p)) /\ ~(Len(p.flags) <= 1)
  <2> DEFINE x == Flagged(p, FrontHalf(p.flags))
             y == Flagged(g[x], BackHalf(p.flags))
  <2>1. /\ FrontHalf(p.flags) \in Flags /\ Len(FrontHalf(p.flags)) < Len(p.flags)
        /\ BackHalf(p.flags) \in Flags /\ Len(BackHalf(p.flags)) < Len(p.flags)
    BY <1>1, <1>4, HalvesOfFlags
  <2>2. x \in Splitting /\ x.flags = FrontHalf(p.flags)
    BY <2>1, FlaggedIs
  <2> HIDE DEF x
  <2>3. g[x] \in Splitting
    BY <2>1, <2>2
  <2>4. y \in Splitting /\ y.flags = BackHalf(p.flags)
    BY <2>1, <2>3, FlaggedIs
  <2> HIDE DEF y
  <2>5. g[y] \in Splitting
    BY <2>1, <2>4
  <2>6. SplitStep(g, p) = g[y]
    BY <1>4 DEF SplitStep, x, y
  <2> QED BY <2>5, <2>6
<1> QED BY <1>2, <1>3, <1>4

LEMMA SplitStepSame ==
  ASSUME NEW g \in [Splitting -> Splitting], NEW h \in [Splitting -> Splitting], NEW p \in Splitting,
         \A q \in Splitting : Len(q.flags) < Len(p.flags) => g[q] = h[q]
  PROVE  SplitStep(g, p) = SplitStep(h, p)
<1>1. p.flags \in Flags /\ Len(p.flags) \in Nat
  BY SplittingFields
<1>2. CASE Fits(Piece(p)) \/ Len(p.flags) <= 1
  BY <1>2 DEF SplitStep
<1>3. CASE ~Fits(Piece(p)) /\ ~(Len(p.flags) <= 1)
  <2> DEFINE x == Flagged(p, FrontHalf(p.flags))
             y == Flagged(g[x], BackHalf(p.flags))
  <2>1. /\ FrontHalf(p.flags) \in Flags /\ Len(FrontHalf(p.flags)) < Len(p.flags)
        /\ BackHalf(p.flags) \in Flags /\ Len(BackHalf(p.flags)) < Len(p.flags)
    BY <1>1, <1>3, HalvesOfFlags
  <2>2. x \in Splitting /\ x.flags = FrontHalf(p.flags)
    BY <2>1, FlaggedIs
  <2> HIDE DEF x
  <2>3. g[x] = h[x]
    BY <2>1, <2>2
  <2>4. y \in Splitting /\ y.flags = BackHalf(p.flags)
    BY <2>1, <2>2, FlaggedIs
  <2> HIDE DEF y
  <2>5. g[y] = h[y]
    BY <2>1, <2>4
  <2>6. SplitStep(g, p) = g[Flagged(g[x], BackHalf(p.flags))] /\ SplitStep(h, p) = h[Flagged(h[x], BackHalf(p.flags))]
    BY <1>3 DEF SplitStep, x
  <2> QED BY <2>3, <2>5, <2>6 DEF y
<1> QED BY <1>2, <1>3

LEMMA SplitFlagsIs ==
  /\ SplitFlags \in [Splitting -> Splitting]
  /\ \A p \in Splitting : SplitFlags[p] = SplitStep(SplitFlags, p)
<1> DEFINE size == [p \in Splitting |-> Len(p.flags)]
           step == [x \in [Splitting -> Splitting] \X Splitting |-> SplitStep(x[1], x[2])]
           body(f) == [p \in Splitting |-> SplitStep(f, p)]
<1>1. \A g \in [Splitting -> Splitting], p \in Splitting : step[<<g, p>>] = SplitStep(g, p)
  OBVIOUS
<1>2. Recursion(Splitting, Splitting, size, step)
  <2>1. size \in [Splitting -> Nat]
    BY SplittingFields
  <2>2. step \in [[Splitting -> Splitting] \X Splitting -> Splitting]
    BY SplitStepIs
  <2>3. ASSUME NEW g \in [Splitting -> Splitting], NEW h \in [Splitting -> Splitting], NEW p \in Splitting,
               \A q \in Splitting : size[q] < size[p] => g[q] = h[q]
        PROVE  step[<<g, p>>] = step[<<h, p>>]
    <3>1. \A q \in Splitting : Len(q.flags) < Len(p.flags) => g[q] = h[q]
      BY <2>3
    <3> HIDE DEF step, size
    <3> QED BY <1>1, <3>1, SplitStepSame
  <2>4. Splitting # {}
    <3> DEFINE at == [posts |-> 0, fails |-> {}, landed |-> {}, twice |-> FALSE, refused |-> FALSE]
    <3>1. at \in Progress
      BY DEF Progress
    <3> HIDE DEF at
    <3>2. [flags |-> << >>, carry |-> << >>, any_ok |-> FALSE, any_lost |-> FALSE, at |-> at] \in Splitting
      BY <3>1 DEF Splitting, Flags
    <3> QED BY <3>2
  <2> HIDE DEF size, step
  <2> QED BY <2>1, <2>2, <2>3, <2>4 DEF Recursion
<1> HIDE DEF size
<1>3. PICK f \in [Splitting -> Splitting] : \A p \in Splitting : f[p] = step[<<f, p>>]
  <2> HIDE DEF step
  <2> QED BY <1>2, RecursionExists
<1>4. \E h : h = body(h)
  <2>1. \A p \in Splitting : f[p] = SplitStep(f, p)
    <3> HIDE DEF step
    <3> QED BY <1>1, <1>3
  <2>2. f = body(f)
    BY <2>1
  <2> QED BY <2>2
<1> DEFINE the == CHOOSE h : h = body(h)
<1>5. the = body(the)
  <2> HIDE DEF body
  <2> QED BY <1>4
<1>6. SplitFlags = the
  BY DEF SplitFlags, SplitStep, Splitting, Piece, PieceSent, Flagged, FrontHalf, BackHalf
<1> HIDE DEF the
<1>7. \A p \in Splitting : the[p] = SplitStep(the, p)
  BY <1>5
<1> HIDE DEF body, step
<1> DEFINE T == {n \in Nat : \A p \in Splitting : Len(p.flags) = n => the[p] \in Splitting}
<1>8. ASSUME NEW n \in Nat, \A m \in Nat : m < n => m \in T PROVE n \in T
  <2> SUFFICES ASSUME NEW p \in Splitting, Len(p.flags) = n PROVE the[p] \in Splitting
    OBVIOUS
  <2>1. ASSUME NEW q \in Splitting, Len(q.flags) < Len(p.flags) PROVE the[q] \in Splitting
    <3>1. Len(q.flags) \in T
      BY <1>8, <2>1, SplittingFields
    <3> QED BY <3>1
  <2>2. SplitStep(the, p) \in Splitting
    <3> HIDE DEF T
    <3> QED BY <2>1, SplitStepIs
  <2> QED BY <1>7, <2>2
<1>9. Nat \subseteq T
  <2> HIDE DEF T
  <2> QED BY <1>8, StrongInduct
<1>10. \A p \in Splitting : the[p] \in Splitting
  BY <1>9, SplittingFields
<1>11. the \in [Splitting -> Splitting]
  <2>1. the = [p \in Splitting |-> the[p]]
    BY <1>5 DEF body
  <2> QED BY <1>10, <2>1
<1> QED BY <1>6, <1>7, <1>11

\* What did not land, of whatever it is said.
LEMMA LandsLess ==
  ASSUME NEW at, NEW end, NEW I, NEW J, NEW ok, NEW lost,
         Lands(at, end, I, ok, lost, TRUE), ~ok, I # {}, J # {}
  PROVE  lost /\ Lands(at, end, J, FALSE, TRUE, TRUE)
<1>1. PICK S \in SUBSET I :
        /\ end.landed = at.landed \cup S
        /\ at.landed \cap S = {} => end.twice = at.twice
        /\ (S # I => lost) /\ (S # {} => ok)
  BY DEF Lands
<1>2. S = {} /\ lost
  BY <1>1
<1>3. S \in SUBSET J /\ S # J
  BY <1>2
<1> QED BY <1>1, <1>2, <1>3 DEF Lands

Splits(p) == p.flags # << >> /\ Distinct(p.flags) /\ IdsOf(p.flags) \cap IdsOf(p.carry) = {}

SplitsTo(p, q, ok, lost) ==
  /\ Lands(p.at, q.at, IdsOf(p.flags) \cup IdsOf(p.carry), ok, lost, TRUE)
  /\ q.any_ok = (p.any_ok \/ ok) /\ q.any_lost = (p.any_lost \/ lost)
  /\ q.carry = << >> \/ (q.carry = p.carry /\ ~ok)

LEMMA SplitStepLaw ==
  ASSUME NEW g \in [Splitting -> Splitting], NEW p \in Splitting, Splits(p),
         \A q \in Splitting : Len(q.flags) < Len(p.flags) /\ Splits(q) => \E ok, lost \in BOOLEAN : SplitsTo(q, g[q], ok, lost)
  PROVE  \E ok, lost \in BOOLEAN : SplitsTo(p, SplitStep(g, p), ok, lost)
<1> DEFINE ids == IdsOf(p.flags) \cup IdsOf(p.carry)
           out == SplitStep(g, p)
<1>1. p.flags \in Flags /\ p.flags \in Seq(Part) /\ p.carry \in Seq(Part) /\ Len(p.flags) \in Nat /\ p.at \in Progress
  BY SplittingFields DEF Flags
<1>2. IdsOf(p.flags) # {}
  BY <1>1, IdsOfSome DEF Splits
<1>3. CASE Fits(Piece(p))
  <2>1. out = PieceSent(p)
    BY <1>3 DEF SplitStep
  <2>2. /\ out.carry = << >> /\ out.at = Post(Piece(p), p.at)
        /\ out.any_ok = (p.any_ok \/ Posted(p.at)) /\ out.any_lost = (p.any_lost \/ ~Posted(p.at))
    BY <1>3, <2>1, PieceSentIs
  <2>3. Ids(Piece(p)) = ids /\ Ids(Piece(p)) \in SUBSET Id /\ ids # {}
    BY <1>2, PieceIds
  <2>4. (ids # {}) = TRUE
    BY <2>3
  <2>5. Lands(p.at, Post(Piece(p), p.at), ids, Posted(p.at), ~Posted(p.at), ids # {})
    <3> HIDE DEF ids
    <3>1. Lands(p.at, Post(Piece(p), p.at), Ids(Piece(p)), Posted(p.at), ~Posted(p.at), Ids(Piece(p)) # {})
      BY <1>1, <1>3, <2>3, PostLands
    <3> QED BY <2>3, <3>1
  <2>6. Lands(p.at, out.at, ids, Posted(p.at), ~Posted(p.at), TRUE)
    <3> HIDE DEF ids, out
    <3> QED BY <2>2, <2>4, <2>5 DEF Lands
  <2>7. SplitsTo(p, out, Posted(p.at), ~Posted(p.at))
    <3> HIDE DEF out
    <3> QED BY <2>2, <2>6 DEF SplitsTo
  <2>8. Posted(p.at) \in BOOLEAN /\ (~Posted(p.at)) \in BOOLEAN
    BY DEF Posted
  <2> QED BY <2>7, <2>8
<1>4. CASE ~Fits(Piece(p)) /\ Len(p.flags) <= 1
  <2>1. out.carry = p.carry /\ out.any_ok = p.any_ok /\ out.any_lost = TRUE /\ out.at = p.at
    BY <1>4, LostIs DEF SplitStep
  <2>2. Lands(p.at, p.at, ids, FALSE, TRUE, TRUE)
    BY <1>1, <1>2, LandsNone
  <2>3. SplitsTo(p, out, FALSE, TRUE)
    <3>1. p.any_ok \in BOOLEAN
      BY SplittingFields
    <3> HIDE DEF out
    <3> QED BY <2>1, <2>2, <3>1 DEF SplitsTo
  <2> QED BY <2>3
<1>5. CASE ~Fits(Piece(p)) /\ ~(Len(p.flags) <= 1)
  <2> DEFINE f == FrontHalf(p.flags)
             b == BackHalf(p.flags)
             x == Flagged(p, f)
             y == Flagged(g[x], b)
  <2>1. /\ f \in Flags /\ f # << >> /\ Len(f) < Len(p.flags)
        /\ b \in Flags /\ b # << >> /\ Len(b) < Len(p.flags)
    BY <1>1, <1>5, HalvesOfFlags
  <2>2. /\ IdsOf(p.flags) = IdsOf(f) \cup IdsOf(b) /\ Distinct(f) /\ Distinct(b)
        /\ IdsOf(f) \cap IdsOf(b) = {}
    BY <1>1, <1>5, HalvesIds DEF Splits
  <2> HIDE DEF f, b
  <2>3. x \in Splitting /\ x.flags = f /\ x.carry = p.carry /\ x.any_ok = p.any_ok /\ x.any_lost = p.any_lost /\ x.at = p.at
    BY <2>1, FlaggedIs
  <2> HIDE DEF x
  <2> DEFINE mid == g[x]
  <2>4. mid \in Splitting
    BY <2>3
  <2>5. PICK ok1 \in BOOLEAN, lost1 \in BOOLEAN : SplitsTo(x, mid, ok1, lost1)
    <3>1. Splits(x)
      BY <2>1, <2>2, <2>3 DEF Splits
    <3> QED BY <2>1, <2>3, <3>1
  <2> HIDE DEF mid
  <2>6. /\ y \in Splitting /\ y.flags = b /\ y.carry = mid.carry /\ y.any_ok = mid.any_ok
        /\ y.any_lost = mid.any_lost /\ y.at = mid.at
    BY <2>1, <2>4, FlaggedIs DEF mid
  <2> HIDE DEF y
  <2>7. out = g[y]
    BY <1>5 DEF SplitStep, x, y, f, b
  <2> HIDE DEF out
  <2>8. /\ Lands(p.at, mid.at, IdsOf(f) \cup IdsOf(p.carry), ok1, lost1, TRUE)
        /\ mid.any_ok = (p.any_ok \/ ok1) /\ mid.any_lost = (p.any_lost \/ lost1)
        /\ mid.carry = << >> \/ (mid.carry = p.carry /\ ~ok1)
    BY <2>3, <2>5 DEF SplitsTo
  <2>9. IdsOf(<< >>) = {}
    BY DEF IdsOf
  <2>10. PICK ok2 \in BOOLEAN, lost2 \in BOOLEAN : SplitsTo(y, out, ok2, lost2)
    <3>1. IdsOf(b) \cap IdsOf(mid.carry) = {}
      BY <2>2, <2>8, <2>9 DEF Splits
    <3>2. Splits(y)
      BY <2>1, <2>2, <2>6, <3>1 DEF Splits
    <3> QED BY <2>1, <2>6, <2>7, <3>2
  <2>11. /\ Lands(mid.at, out.at, IdsOf(b) \cup IdsOf(mid.carry), ok2, lost2, TRUE)
         /\ out.any_ok = (mid.any_ok \/ ok2) /\ out.any_lost = (mid.any_lost \/ lost2)
         /\ out.carry = << >> \/ (out.carry = mid.carry /\ ~ok2)
    BY <2>6, <2>10 DEF SplitsTo
  <2>12. out.any_ok = (p.any_ok \/ (ok1 \/ ok2)) /\ out.any_lost = (p.any_lost \/ (lost1 \/ lost2))
    BY <2>8, <2>11
  <2>13. Lands(p.at, out.at, ids, ok1 \/ ok2, lost1 \/ lost2, TRUE)
    <3>1. CASE mid.carry = << >>
      <4> DEFINE I == IdsOf(f) \cup IdsOf(p.carry)
                 J == IdsOf(b)
      <4>1. I \cap J = {} /\ I \cup J = ids
        BY <2>2 DEF Splits
      <4>2. IdsOf(b) \cup IdsOf(mid.carry) = J
        BY <2>9, <3>1
      <4>3. Lands(p.at, mid.at, I, ok1, lost1, TRUE) /\ Lands(mid.at, out.at, J, ok2, lost2, TRUE)
        BY <2>8, <2>11, <4>2
      <4> HIDE DEF I, J, ids
      <4>4. Lands(p.at, out.at, I \cup J, ok1 \/ ok2, lost1 \/ lost2, TRUE)
        BY <4>1, <4>3, LandsBoth
      <4> QED BY <4>1, <4>4
    <3>2. CASE mid.carry = p.carry /\ ~ok1
      <4> DEFINE I == IdsOf(f)
                 J == IdsOf(b) \cup IdsOf(p.carry)
      <4>1. I \cap J = {} /\ I \cup J = ids
        BY <2>2 DEF Splits
      <4>2. IdsOf(f) # {}
        BY <2>1, IdsOfSome DEF Flags
      <4> DEFINE ids1 == IdsOf(f) \cup IdsOf(p.carry)
      <4>3. lost1 /\ Lands(p.at, mid.at, I, FALSE, TRUE, TRUE)
        <5>1. Lands(p.at, mid.at, ids1, ok1, lost1, TRUE) /\ ~ok1
          BY <2>8, <3>2
        <5>2. ids1 # {}
          BY <4>2
        <5>3. I # {}
          BY <4>2
        <5> HIDE DEF I, J, ids, ids1
        <5> QED BY <5>1, <5>2, <5>3, LandsLess
      <4>4. Lands(mid.at, out.at, J, ok2, lost2, TRUE)
        BY <2>11, <3>2
      <4> HIDE DEF I, J, ids
      <4>5. Lands(p.at, out.at, I \cup J, FALSE \/ ok2, TRUE \/ lost2, TRUE)
        BY <4>1, <4>3, <4>4, LandsBoth
      <4>6. (FALSE \/ ok2) = (ok1 \/ ok2) /\ (TRUE \/ lost2) = (lost1 \/ lost2)
        BY <3>2, <4>3
      <4> QED BY <4>1, <4>5, <4>6
    <3> QED BY <2>8, <3>1, <3>2
  <2>14. out.carry = << >> \/ (out.carry = p.carry /\ ~(ok1 \/ ok2))
    BY <2>8, <2>11
  <2>15. SplitsTo(p, out, ok1 \/ ok2, lost1 \/ lost2)
    BY <2>12, <2>13, <2>14 DEF SplitsTo
  <2>16. (ok1 \/ ok2) \in BOOLEAN /\ (lost1 \/ lost2) \in BOOLEAN
    OBVIOUS
  <2> QED BY <2>15, <2>16 DEF out
<1> QED BY <1>3, <1>4, <1>5

LEMMA SplitFlagsLaw ==
  \A p \in Splitting : Splits(p) => \E ok, lost \in BOOLEAN : SplitsTo(p, SplitFlags[p], ok, lost)
<1> DEFINE law(p) == Splits(p) => \E ok, lost \in BOOLEAN : SplitsTo(p, SplitFlags[p], ok, lost)
           T == {n \in Nat : \A p \in Splitting : Len(p.flags) = n => law(p)}
<1>1. ASSUME NEW n \in Nat, \A m \in Nat : m < n => m \in T PROVE n \in T
  <2> SUFFICES ASSUME NEW p \in Splitting, Len(p.flags) = n, Splits(p)
               PROVE  \E ok, lost \in BOOLEAN : SplitsTo(p, SplitFlags[p], ok, lost)
    OBVIOUS
  <2>1. ASSUME NEW q \in Splitting, Len(q.flags) < Len(p.flags), Splits(q)
        PROVE  \E ok, lost \in BOOLEAN : SplitsTo(q, SplitFlags[q], ok, lost)
    <3>1. Len(q.flags) \in T
      BY <1>1, <2>1, SplittingFields
    <3> QED BY <2>1, <3>1
  <2>2. SplitFlags \in [Splitting -> Splitting] /\ SplitFlags[p] = SplitStep(SplitFlags, p)
    BY SplitFlagsIs
  <2> HIDE DEF T, law
  <2>3. \E ok, lost \in BOOLEAN : SplitsTo(p, SplitStep(SplitFlags, p), ok, lost)
    BY <2>1, <2>2, SplitStepLaw
  <2> QED BY <2>2, <2>3
<1>2. Nat \subseteq T
  <2> HIDE DEF T
  <2> QED BY <1>1, StrongInduct
<1>3. \A p \in Splitting : law(p)
  <2> HIDE DEF law
  <2> QED BY <1>2, SplittingFields
<1> QED BY <1>3

\* The assignments of a request, and their halves.
AssignedIds(a) == UNION {IdsOf(a[i]) : i \in DOMAIN a}

Apart(a) ==
  /\ \A i \in DOMAIN a : Distinct(a[i])
  /\ \A i, j \in DOMAIN a : i # j => IdsOf(a[i]) \cap IdsOf(a[j]) = {}

NoneEmpty(a) == \A i \in DOMAIN a : a[i] # << >>

LEMMA HalvesAssigned ==
  ASSUME NEW s \in Seq(Flags), Len(s) > 1
  PROVE  /\ AssignedIds(s) = AssignedIds(FrontHalf(s)) \cup AssignedIds(BackHalf(s))
         /\ Apart(s) => /\ Apart(FrontHalf(s)) /\ Apart(BackHalf(s))
                        /\ AssignedIds(FrontHalf(s)) \cap AssignedIds(BackHalf(s)) = {}
         /\ NoneEmpty(s) => NoneEmpty(FrontHalf(s)) /\ NoneEmpty(BackHalf(s))
<1> DEFINE n == Len(s)
           k == Half(s)
           f == FrontHalf(s)
           b == BackHalf(s)
<1>1. n \in Nat /\ DOMAIN s = 1 .. n
  OBVIOUS
<1>2. /\ k \in Nat /\ 1 <= k /\ k < n
      /\ DOMAIN f = 1 .. k /\ (\A i \in 1 .. k : f[i] = s[i])
      /\ DOMAIN b = 1 .. n - k /\ \A i \in 1 .. n - k : b[i] = s[k + i]
  BY HalvesAre
<1> HIDE DEF n, k, f, b
<1>3. \A i \in 1 .. n : i \in 1 .. k \/ (i - k \in 1 .. n - k /\ k + (i - k) = i)
  BY <1>1, <1>2
<1>4. /\ \A i \in 1 .. k : i \in 1 .. n
      /\ \A i \in 1 .. n - k : k + i \in 1 .. n /\ \A j \in 1 .. k : k + i # j
      /\ \A i, j \in 1 .. n - k : i # j => k + i # k + j
  BY <1>1, <1>2
<1>5. \A x : x \in AssignedIds(s) <=> x \in AssignedIds(f) \/ x \in AssignedIds(b)
  <2>1. ASSUME NEW x \in AssignedIds(s) PROVE x \in AssignedIds(f) \/ x \in AssignedIds(b)
    <3>1. PICK i \in 1 .. n : x \in IdsOf(s[i])
      BY <1>1, <2>1 DEF AssignedIds
    <3>2. CASE i \in 1 .. k
      BY <1>2, <3>1, <3>2 DEF AssignedIds
    <3>3. CASE i - k \in 1 .. n - k /\ k + (i - k) = i
      BY <1>2, <3>1, <3>3 DEF AssignedIds
    <3> QED BY <1>3, <3>2, <3>3
  <2>2. ASSUME NEW x \in AssignedIds(f) PROVE x \in AssignedIds(s)
    BY <1>1, <1>2, <1>4, <2>2 DEF AssignedIds
  <2>3. ASSUME NEW x \in AssignedIds(b) PROVE x \in AssignedIds(s)
    BY <1>1, <1>2, <1>4, <2>3 DEF AssignedIds
  <2> QED BY <2>1, <2>2, <2>3
<1>6. ASSUME Apart(s) PROVE Apart(f) /\ Apart(b) /\ AssignedIds(f) \cap AssignedIds(b) = {}
  <2>1. Apart(f)
    BY <1>1, <1>2, <1>4, <1>6 DEF Apart
  <2>2. Apart(b)
    <3>1. ASSUME NEW x \in 1 .. n - k PROVE Distinct(b[x])
      BY <1>1, <1>2, <1>4, <1>6 DEF Apart
    <3>2. ASSUME NEW x \in 1 .. n - k, NEW y \in 1 .. n - k, x # y PROVE IdsOf(b[x]) \cap IdsOf(b[y]) = {}
      <4>1. k + x \in 1 .. n /\ k + y \in 1 .. n /\ k + x # k + y
        BY <1>4, <3>2
      <4>2. IdsOf(s[k + x]) \cap IdsOf(s[k + y]) = {}
        BY <1>1, <1>6, <4>1 DEF Apart
      <4> QED BY <1>2, <4>2
    <3> QED BY <1>2, <3>1, <3>2 DEF Apart
  <2>3. ASSUME NEW x \in AssignedIds(f), x \in AssignedIds(b) PROVE FALSE
    <3>1. PICK i \in 1 .. k : x \in IdsOf(s[i])
      BY <1>2, <2>3 DEF AssignedIds
    <3>2. PICK j \in 1 .. n - k : x \in IdsOf(s[k + j])
      BY <1>2, <2>3 DEF AssignedIds
    <3>3. i \in 1 .. n /\ k + j \in 1 .. n /\ k + j # i
      BY <1>4
    <3> QED BY <1>1, <1>6, <3>1, <3>2, <3>3 DEF Apart
  <2> QED BY <2>1, <2>2, <2>3
<1>7. AssignedIds(s) = AssignedIds(f) \cup AssignedIds(b)
  BY <1>5
<1>8. NoneEmpty(s) => NoneEmpty(f) /\ NoneEmpty(b)
  BY <1>1, <1>2, <1>4 DEF NoneEmpty
<1> QED BY <1>6, <1>7, <1>8 DEF f, b

LEMMA HalvesOfAssigned ==
  ASSUME NEW a \in Seq(Flags), Len(a) > 1
  PROVE  /\ FrontHalf(a) \in Seq(Flags) /\ FrontHalf(a) # << >> /\ Len(FrontHalf(a)) < Len(a)
         /\ BackHalf(a) \in Seq(Flags) /\ BackHalf(a) # << >> /\ Len(BackHalf(a)) < Len(a)
<1>1. Len(a) \in Nat
  OBVIOUS
<1>2. /\ Half(a) \in Nat /\ 1 <= Half(a) /\ Half(a) < Len(a)
      /\ FrontHalf(a) \in Seq(Flags) /\ Len(FrontHalf(a)) = Half(a)
      /\ BackHalf(a) \in Seq(Flags) /\ Len(BackHalf(a)) = Len(a) - Half(a)
  BY HalvesAre
<1>3. Len(FrontHalf(a)) # 0 /\ Len(BackHalf(a)) # 0 /\ Len(BackHalf(a)) < Len(a)
  BY <1>1, <1>2
<1> QED BY <1>2, <1>3, EmptySeq

LEMMA AssignedIdsIn == \A a \in Seq(Flags) : AssignedIds(a) \in SUBSET Id
<1> SUFFICES ASSUME NEW a \in Seq(Flags), NEW i \in DOMAIN a PROVE IdsOf(a[i]) \in SUBSET Id
  BY DEF AssignedIds
<1>1. a[i] \in Flags
  BY ElementOfSeq
<1> QED BY <1>1, IdsOfType DEF Flags

LEMMA IdsAre ==
  ASSUME NEW r \in Request
  PROVE  /\ Ids(r) = IdsOf(r.carry) \cup AssignedIds(r.assigned) /\ Ids(r) \in SUBSET Id
         /\ r.carry \in Seq(Part) /\ r.assigned \in Seq(Flags) /\ Len(r.assigned) \in Nat
<1>1. r.carry \in Seq(Part) /\ r.assigned \in Seq(Flags) /\ Len(r.assigned) \in Nat
  BY DEF Request
<1>2. Ids(r) = IdsOf(r.carry) \cup AssignedIds(r.assigned)
  BY DEF Ids, AssignedIds
<1> QED BY <1>1, <1>2, IdsOfType, AssignedIdsIn

\* A request whose parts are all different; and one with nothing empty.
Spread(r) == Apart(r.assigned) /\ AssignedIds(r.assigned) \cap IdsOf(r.carry) = {}
Solid(r)  == (r.carry # << >> \/ r.assigned # << >>) /\ NoneEmpty(r.assigned)

LEMMA SolidIds ==
  ASSUME NEW r \in Request, Solid(r)
  PROVE  Ids(r) # {}
<1>1. CASE r.carry # << >>
  <2>1. IdsOf(r.carry) # {}
    BY <1>1, IdsAre, IdsOfSome
  <2> QED BY <2>1, IdsAre
<1>2. CASE r.assigned # << >>
  <2>1. r.assigned \in Seq(Flags) /\ Len(r.assigned) \in Nat
    BY IdsAre
  <2>2. 1 \in DOMAIN r.assigned /\ r.assigned[1] \in Seq(Part)
    <3>1. Len(r.assigned) # 0
      BY <1>2, <2>1, EmptySeq
    <3>2. 1 \in 1 .. Len(r.assigned) /\ DOMAIN r.assigned = 1 .. Len(r.assigned)
      BY <2>1, <3>1
    <3> QED BY <2>1, <3>2, ElementOfSeq DEF Flags
  <2>3. r.assigned[1] # << >>
    BY <2>2 DEF Solid, NoneEmpty
  <2>4. IdsOf(r.assigned[1]) # {}
    BY <2>2, <2>3, IdsOfSome
  <2>5. AssignedIds(r.assigned) # {}
    BY <2>2, <2>4 DEF AssignedIds
  <2> QED BY <2>5, IdsAre
<1> QED BY <1>1, <1>2 DEF Solid

\* Outcomes.
Outcome == [ok : Nat, lost : Nat]

LEMMA OutcomeIs ==
  ASSUME NEW m \in Nat, NEW n \in Nat
  PROVE  Delivered(m, n) \in Outcome /\ Delivered(m, n).ok = m /\ Delivered(m, n).lost = n
BY DEF Delivered, Outcome

LEMMA SplitOutcomeIs ==
  ASSUME NEW ok \in BOOLEAN, NEW lost \in BOOLEAN, NEW n \in Nat
  PROVE  /\ split_outcome(ok, lost, n) \in Outcome
         /\ n > 0 => /\ split_outcome(ok, lost, n).ok > 0 <=> ok
                     /\ split_outcome(ok, lost, n).lost > 0 <=> lost \/ ~ok
<1>1. split_outcome(ok, lost, n) = IF ok THEN Delivered(n, IF lost THEN n ELSE 0) ELSE Delivered(0, n)
  BY DEF split_outcome
<1>2. CASE ok
  <2> DEFINE m == IF lost THEN n ELSE 0
             d == split_outcome(ok, lost, n)
  <2>1. d = Delivered(n, m) /\ m \in Nat /\ (n > 0 => (m > 0 <=> lost))
    BY <1>1, <1>2
  <2> HIDE DEF m, d
  <2>2. d \in Outcome /\ d.ok = n /\ d.lost = m
    BY <2>1, OutcomeIs
  <2>3. d \in Outcome /\ (n > 0 => (d.ok > 0 <=> ok) /\ (d.lost > 0 <=> lost \/ ~ok))
    BY <1>2, <2>1, <2>2
  <2> QED BY <2>3 DEF d
<1>3. CASE ~ok
  <2>1. split_outcome(ok, lost, n) = Delivered(0, n)
    BY <1>1, <1>3
  <2> QED BY <1>3, <2>1, OutcomeIs
<1> QED BY <1>2, <1>3

LEMMA HalvesOutcome ==
  ASSUME NEW a \in Outcome, NEW b \in Outcome, NEW n \in Nat
  PROVE  /\ combine_halves(a, b, n) \in Outcome /\ MergeDelivered(a, b) \in Outcome
         /\ n > 0 => /\ combine_halves(a, b, n).ok > 0 <=> a.ok > 0 \/ b.ok > 0
                     /\ combine_halves(a, b, n).lost > 0 <=> (a.lost > 0 \/ b.lost > 0) \/ ~(a.ok > 0 \/ b.ok > 0)
         /\ MergeDelivered(a, b).ok > 0 <=> a.ok > 0 \/ b.ok > 0
         /\ MergeDelivered(a, b).lost > 0 <=> a.lost > 0 \/ b.lost > 0
<1>1. a.ok \in Nat /\ a.lost \in Nat /\ b.ok \in Nat /\ b.lost \in Nat
  BY DEF Outcome
<1> DEFINE x == a.ok > 0 \/ b.ok > 0
           y == a.lost > 0 \/ b.lost > 0
<1>2. x \in BOOLEAN /\ y \in BOOLEAN
  OBVIOUS
<1>3. combine_halves(a, b, n) = split_outcome(x, y, n)
  BY DEF combine_halves
<1> HIDE DEF x, y
<1>4. /\ combine_halves(a, b, n) \in Outcome
      /\ n > 0 => /\ combine_halves(a, b, n).ok > 0 <=> x
                  /\ combine_halves(a, b, n).lost > 0 <=> y \/ ~x
  BY <1>2, <1>3, SplitOutcomeIs
<1>5. /\ a.ok + b.ok \in Nat /\ a.lost + b.lost \in Nat
      /\ a.ok + b.ok > 0 <=> x
      /\ a.lost + b.lost > 0 <=> y
  BY <1>1 DEF x, y
<1>6. /\ MergeDelivered(a, b) \in Outcome
      /\ MergeDelivered(a, b).ok = a.ok + b.ok /\ MergeDelivered(a, b).lost = a.lost + b.lost
  BY <1>5, OutcomeIs DEF MergeDelivered
<1> QED BY <1>4, <1>5, <1>6 DEF x, y

\* Nothing was delivered: it is lost, even if no piece says so.
LEMMA LandsReported ==
  ASSUME NEW at, NEW end, NEW ids, NEW ok, NEW lost, NEW solid, Lands(at, end, ids, ok, lost, solid), solid => ids # {}
  PROVE  Lands(at, end, ids, ok, lost \/ ~ok, solid)
<1>1. PICK S \in SUBSET ids :
       /\ end.landed = at.landed \cup S
       /\ at.landed \cap S = {} => end.twice = at.twice
       /\ (S # ids => lost) /\ (S # {} => ok)
       /\ solid => (lost => S # ids) /\ (ok => S # {})
  BY DEF Lands
<1>2. /\ (S # ids => lost \/ ~ok)
      /\ solid => (lost \/ ~ok => S # ids)
  BY <1>1
<1> QED BY <1>1, <1>2 DEF Lands

LEMMA LandsSame ==
  ASSUME NEW at, NEW end, NEW ids, NEW ok1, NEW lost1, NEW ok2, NEW lost2, NEW solid,
         Lands(at, end, ids, ok1, lost1, solid), ok1 <=> ok2, lost1 <=> lost2
  PROVE  Lands(at, end, ids, ok2, lost2, solid)
BY DEF Lands

LEMMA LandsWeaker ==
  ASSUME NEW at, NEW end, NEW ids, NEW ok, NEW lost, NEW solid, NEW weaker,
         Lands(at, end, ids, ok, lost, solid), weaker => solid
  PROVE  Lands(at, end, ids, ok, lost, weaker)
BY DEF Lands

\* deliver_by_splitting_flags, of a request with one assignment of several flags.
LEMMA BySplitting ==
  ASSUME NEW r \in Request, NEW n \in Nat, NEW at \in Progress, Len(r.assigned) = 1
  PROVE  LET d == deliver_by_splitting_flags(r, n, at)
         IN  /\ d.out \in Outcome /\ d.at \in Progress
             /\ n > 0 /\ Spread(r) /\ Len(r.assigned[1]) > 1 =>
                  Lands(at, d.at, Ids(r), d.out.ok > 0, d.out.lost > 0, Solid(r))
<1> DEFINE p == [flags |-> r.assigned[1], carry |-> r.carry, any_ok |-> FALSE, any_lost |-> FALSE, at |-> at]
           q == SplitFlags[p]
           d == deliver_by_splitting_flags(r, n, at)
<1>1. r.carry \in Seq(Part) /\ r.assigned \in Seq(Flags)
  BY IdsAre
<1>2. 1 \in DOMAIN r.assigned /\ DOMAIN r.assigned = {1} /\ r.assigned[1] \in Flags
  <2>1. DOMAIN r.assigned = 1 .. 1 /\ 1 \in 1 .. Len(r.assigned)
    BY <1>1
  <2> QED BY <1>1, <2>1, ElementOfSeq
<1>3. /\ p \in Splitting /\ p.flags = r.assigned[1] /\ p.carry = r.carry
      /\ p.any_ok = FALSE /\ p.any_lost = FALSE /\ p.at = at
  BY <1>1, <1>2 DEF Splitting
<1>4. d = [out |-> split_outcome(q.any_ok, q.any_lost, n), at |-> q.at]
  BY DEF deliver_by_splitting_flags
<1> HIDE DEF p
<1>5. q \in Splitting /\ q.any_ok \in BOOLEAN /\ q.any_lost \in BOOLEAN /\ q.at \in Progress
  <2>1. q \in Splitting
    BY <1>3, SplitFlagsIs
  <2> HIDE DEF q
  <2> QED BY <2>1, SplittingFields
<1>6. d.out = split_outcome(q.any_ok, q.any_lost, n) /\ d.at = q.at
  BY <1>4
<1>7. d.out \in Outcome /\ d.at \in Progress /\ (n > 0 => (d.out.ok > 0 <=> q.any_ok) /\ (d.out.lost > 0 <=> q.any_lost \/ ~q.any_ok))
  <2> HIDE DEF d, q
  <2> QED BY <1>5, <1>6, SplitOutcomeIs
<1> HIDE DEF d
<1>8. ASSUME n > 0, Spread(r), Len(r.assigned[1]) > 1
      PROVE  Lands(at, d.at, Ids(r), d.out.ok > 0, d.out.lost > 0, Solid(r))
  <2>1. AssignedIds(r.assigned) = IdsOf(r.assigned[1])
    BY <1>2 DEF AssignedIds
  <2>2. Splits(p)
    <3>1. r.assigned[1] # << >>
      BY <1>8
    <3> QED BY <1>2, <1>3, <1>8, <2>1, <3>1 DEF Splits, Spread, Apart
  <2>3. PICK ok \in BOOLEAN, lost \in BOOLEAN : SplitsTo(p, q, ok, lost)
    BY <1>3, <2>2, SplitFlagsLaw
  <2> HIDE DEF q
  <2>4. Ids(r) = IdsOf(p.flags) \cup IdsOf(p.carry)
    BY <1>3, <2>1, IdsAre
  <2>5. Lands(at, q.at, Ids(r), ok, lost, TRUE) /\ (q.any_ok <=> ok) /\ (q.any_lost <=> lost)
    BY <1>3, <2>3, <2>4 DEF SplitsTo
  <2>6. Lands(at, q.at, Ids(r), ok, lost, Solid(r))
    BY <2>5, LandsWeaker
  <2>7. Lands(at, q.at, Ids(r), ok, lost \/ ~ok, Solid(r))
    BY <2>6, LandsReported, SolidIds
  <2>8. (ok <=> d.out.ok > 0) /\ (lost \/ ~ok <=> d.out.lost > 0)
    BY <1>7, <1>8, <2>5
  <2> QED BY <1>6, <2>7, <2>8, LandsSame
<1> QED BY <1>7, <1>8 DEF d

\* deliver_aggregate, one call at a time.
Task   == [request : Request, count : Nat, at : Progress]
Result == [out : Outcome, at : Progress]

HeadTask(t) ==
  [request |-> [t.request EXCEPT !.assigned = FrontHalf(@)],
   count |-> IF t.count < 2 THEN t.count ELSE HeadCount(t.count), at |-> t.at]
TailTask(t, at) ==
  [request |-> [carry |-> << >>, assigned |-> BackHalf(t.request.assigned)],
   count |-> IF t.count < 2 THEN t.count ELSE t.count - HeadCount(t.count), at |-> at]

AggregateStep(g, t) ==
  LET a == g[HeadTask(t)]
      b == g[TailTask(t, a.at)]
  IN  IF Fits(t.request)
      THEN [out |-> IF Posted(t.at) THEN Delivered(t.count, 0) ELSE Delivered(0, t.count), at |-> Post(t.request, t.at)]
      ELSE IF Len(t.request.assigned) > 1
      THEN [out |-> IF t.count < 2 THEN combine_halves(a.out, b.out, t.count) ELSE MergeDelivered(a.out, b.out), at |-> b.at]
      ELSE IF Len(t.request.assigned) = 1 /\ Len(t.request.assigned[1]) > 1
      THEN deliver_by_splitting_flags(t.request, t.count, t.at)
      ELSE [out |-> Delivered(0, t.count), at |-> t.at]

LEMMA TaskFields ==
  ASSUME NEW t \in Task
  PROVE  /\ t.request \in Request /\ t.count \in Nat /\ t.at \in Progress
         /\ t.request.carry \in Seq(Part) /\ t.request.assigned \in Seq(Flags) /\ Len(t.request.assigned) \in Nat
BY DEF Task, Request

LEMMA HeadCountIs ==
  ASSUME NEW n \in Nat
  PROVE  HeadCount(n) \in Nat /\ (n >= 2 => HeadCount(n) >= 1 /\ n - HeadCount(n) \in Nat /\ n - HeadCount(n) >= 1)
<1> DEFINE m == n + 1
           k == m \div 2
<1>1. m \in Nat
  OBVIOUS
<1> HIDE DEF m
<1>2. m = 2 * k + (m % 2) /\ m % 2 \in {0, 1} /\ k \in Nat
  BY <1>1
<1>3. HeadCount(n) = k
  BY DEF HeadCount, m
<1> HIDE DEF k
<1> QED BY <1>2, <1>3 DEF m

LEMMA HeadTaskIs ==
  ASSUME NEW t \in Task, Len(t.request.assigned) > 1
  PROVE  /\ HeadTask(t) \in Task /\ HeadTask(t).at = t.at
         /\ HeadTask(t).request.carry = t.request.carry
         /\ HeadTask(t).request.assigned = FrontHalf(t.request.assigned)
         /\ t.count > 0 => HeadTask(t).count > 0
<1> DEFINE r == [t.request EXCEPT !.assigned = FrontHalf(@)]
           n == IF t.count < 2 THEN t.count ELSE HeadCount(t.count)
<1>1. t.request \in Request /\ t.count \in Nat /\ t.at \in Progress /\ FrontHalf(t.request.assigned) \in Seq(Flags)
  BY TaskFields, HalvesOfAssigned
<1>2. r \in Request /\ r.carry = t.request.carry /\ r.assigned = FrontHalf(t.request.assigned)
  BY <1>1 DEF Request
<1>3. n \in Nat /\ (t.count > 0 => n > 0)
  <2> DEFINE c == t.count
             h == HeadCount(c)
  <2>1. c \in Nat
    BY <1>1
  <2>2. h \in Nat /\ (c >= 2 => h >= 1 /\ c - h \in Nat /\ c - h >= 1)
    BY <2>1, HeadCountIs
  <2> HIDE DEF h
  <2> QED BY <2>1, <2>2 DEF h
<1>4. HeadTask(t) = [request |-> r, count |-> n, at |-> t.at]
  BY DEF HeadTask
<1> HIDE DEF r, n
<1> QED BY <1>1, <1>2, <1>3, <1>4 DEF Task

LEMMA TailTaskIs ==
  ASSUME NEW t \in Task, NEW at \in Progress, Len(t.request.assigned) > 1
  PROVE  /\ TailTask(t, at) \in Task /\ TailTask(t, at).at = at
         /\ TailTask(t, at).request.carry = << >>
         /\ TailTask(t, at).request.assigned = BackHalf(t.request.assigned)
         /\ t.count > 0 => TailTask(t, at).count > 0
<1> DEFINE r == [carry |-> << >>, assigned |-> BackHalf(t.request.assigned)]
           n == IF t.count < 2 THEN t.count ELSE t.count - HeadCount(t.count)
<1>1. t.request \in Request /\ t.count \in Nat /\ BackHalf(t.request.assigned) \in Seq(Flags)
  BY TaskFields, HalvesOfAssigned
<1>2. r \in Request /\ r.carry = << >> /\ r.assigned = BackHalf(t.request.assigned)
  BY <1>1 DEF Request
<1>3. n \in Nat /\ (t.count > 0 => n > 0)
  <2> DEFINE c == t.count
             h == HeadCount(c)
  <2>1. c \in Nat
    BY <1>1
  <2>2. h \in Nat /\ (c >= 2 => h >= 1 /\ c - h \in Nat /\ c - h >= 1)
    BY <2>1, HeadCountIs
  <2> HIDE DEF h
  <2> QED BY <2>1, <2>2 DEF h
<1>4. TailTask(t, at) = [request |-> r, count |-> n, at |-> at]
  BY DEF TailTask
<1> HIDE DEF r, n
<1> QED BY <1>1, <1>2, <1>3, <1>4 DEF Task

LEMMA AggregateStepIs ==
  ASSUME NEW g, NEW t \in Task,
         \A u \in Task : Len(u.request.assigned) < Len(t.request.assigned) => g[u] \in Result
  PROVE  AggregateStep(g, t) \in Result
<1> DEFINE out == AggregateStep(g, t)
           n == Len(t.request.assigned)
<1>1. /\ t.request \in Request /\ t.count \in Nat /\ t.at \in Progress /\ t.request.assigned \in Seq(Flags)
      /\ n \in Nat /\ Ids(t.request) \in SUBSET Id
  BY TaskFields, IdsAre
<1>2. CASE Fits(t.request)
  <2> DEFINE o == IF Posted(t.at) THEN Delivered(t.count, 0) ELSE Delivered(0, t.count)
             e == Post(t.request, t.at)
  <2>1. out = [out |-> o, at |-> e]
    BY <1>2 DEF AggregateStep
  <2>2. o \in Outcome
    BY <1>1, OutcomeIs
  <2>3. e \in Progress
    BY <1>1, <1>2, PostLands DEF Lands
  <2> HIDE DEF out, o, e
  <2>4. out \in Result
    BY <2>1, <2>2, <2>3 DEF Result
  <2> QED BY <2>4 DEF out
<1>3. CASE ~Fits(t.request) /\ n > 1
  <2> DEFINE h == HeadTask(t)
             a == g[h]
             u == TailTask(t, a.at)
             b == g[u]
  <2>1. /\ Len(FrontHalf(t.request.assigned)) < n /\ Len(BackHalf(t.request.assigned)) < n
    BY <1>1, <1>3, HalvesOfAssigned
  <2>2. h \in Task /\ h.request.assigned = FrontHalf(t.request.assigned)
    BY <1>3, HeadTaskIs
  <2> HIDE DEF h
  <2>3. a \in Result
    BY <2>1, <2>2
  <2> HIDE DEF a
  <2>4. a.out \in Outcome /\ a.at \in Progress
    BY <2>3 DEF Result
  <2>5. u \in Task /\ u.request.assigned = BackHalf(t.request.assigned)
    BY <1>3, <2>4, TailTaskIs
  <2> HIDE DEF u
  <2>6. b \in Result
    BY <2>1, <2>5
  <2> HIDE DEF b
  <2>7. b.out \in Outcome /\ b.at \in Progress
    BY <2>6 DEF Result
  <2> DEFINE o == IF t.count < 2 THEN combine_halves(a.out, b.out, t.count) ELSE MergeDelivered(a.out, b.out)
  <2>8. o \in Outcome
    BY <1>1, <2>4, <2>7, HalvesOutcome
  <2>9. out = [out |-> o, at |-> b.at]
    BY <1>3 DEF AggregateStep, a, b, h, u
  <2> HIDE DEF out, o
  <2>10. out \in Result
    BY <2>7, <2>8, <2>9 DEF Result
  <2> QED BY <2>10 DEF out
<1>4. CASE ~Fits(t.request) /\ n = 1 /\ Len(t.request.assigned[1]) > 1
  <2> DEFINE d == deliver_by_splitting_flags(t.request, t.count, t.at)
  <2>1. out = d
    BY <1>4 DEF AggregateStep
  <2>2. d.out \in Outcome /\ d.at \in Progress
    BY <1>1, <1>4, BySplitting
  <2>3. d = [out |-> d.out, at |-> d.at]
    BY DEF deliver_by_splitting_flags
  <2> HIDE DEF d, out
  <2>4. out \in Result
    BY <2>1, <2>2, <2>3 DEF Result
  <2> QED BY <2>4 DEF out
<1>5. CASE ~Fits(t.request) /\ ~(n > 1) /\ ~(n = 1 /\ Len(t.request.assigned[1]) > 1)
  <2>1. out = [out |-> Delivered(0, t.count), at |-> t.at]
    BY <1>5 DEF AggregateStep
  <2>2. Delivered(0, t.count) \in Outcome
    BY <1>1, OutcomeIs
  <2> HIDE DEF out
  <2>3. out \in Result
    BY <1>1, <2>1, <2>2 DEF Result
  <2> QED BY <2>3 DEF out
<1>6. \/ Fits(t.request)
      \/ ~Fits(t.request) /\ n > 1
      \/ ~Fits(t.request) /\ n = 1 /\ Len(t.request.assigned[1]) > 1
      \/ ~Fits(t.request) /\ ~(n > 1) /\ ~(n = 1 /\ Len(t.request.assigned[1]) > 1)
  BY <1>1
<1> HIDE DEF out, n
<1> QED BY <1>2, <1>3, <1>4, <1>5, <1>6 DEF out

LEMMA AggregateStepSame ==
  ASSUME NEW g \in [Task -> Result], NEW h \in [Task -> Result], NEW t \in Task,
         \A u \in Task : Len(u.request.assigned) < Len(t.request.assigned) => g[u] = h[u]
  PROVE  AggregateStep(g, t) = AggregateStep(h, t)
<1> DEFINE n == Len(t.request.assigned)
<1>1. t.request.assigned \in Seq(Flags) /\ n \in Nat
  BY TaskFields
<1>2. CASE ~(n > 1)
  BY <1>2 DEF AggregateStep
<1>3. CASE n > 1
  <2> DEFINE x == HeadTask(t)
             a == g[x]
             y == TailTask(t, a.at)
             b == g[y]
  <2>1. Len(FrontHalf(t.request.assigned)) < n /\ Len(BackHalf(t.request.assigned)) < n
    BY <1>1, <1>3, HalvesOfAssigned
  <2>2. x \in Task /\ x.request.assigned = FrontHalf(t.request.assigned)
    BY <1>3, HeadTaskIs
  <2> HIDE DEF x
  <2>3. a = h[x] /\ a.at \in Progress
    <3>1. a \in Result
      BY <2>2
    <3>2. a = h[x]
      BY <2>1, <2>2
    <3> HIDE DEF a
    <3> QED BY <3>1, <3>2 DEF Result
  <2> HIDE DEF a
  <2>4. y \in Task /\ y.request.assigned = BackHalf(t.request.assigned)
    BY <1>3, <2>3, TailTaskIs
  <2> HIDE DEF y
  <2>5. b = h[y]
    BY <2>1, <2>4
  <2> HIDE DEF b
  <2>6. g[HeadTask(t)] = a /\ h[HeadTask(t)] = a /\ g[TailTask(t, a.at)] = b /\ h[TailTask(t, a.at)] = b
    BY <2>3, <2>5 DEF x, y, a, b
  <2>7. AggregateStep(g, t) =
          IF Fits(t.request)
          THEN [out |-> IF Posted(t.at) THEN Delivered(t.count, 0) ELSE Delivered(0, t.count), at |-> Post(t.request, t.at)]
          ELSE [out |-> IF t.count < 2 THEN combine_halves(a.out, b.out, t.count) ELSE MergeDelivered(a.out, b.out), at |-> b.at]
    BY <1>3, <2>6 DEF AggregateStep
  <2>8. AggregateStep(h, t) =
          IF Fits(t.request)
          THEN [out |-> IF Posted(t.at) THEN Delivered(t.count, 0) ELSE Delivered(0, t.count), at |-> Post(t.request, t.at)]
          ELSE [out |-> IF t.count < 2 THEN combine_halves(a.out, b.out, t.count) ELSE MergeDelivered(a.out, b.out), at |-> b.at]
    BY <1>3, <2>6 DEF AggregateStep
  <2> QED BY <2>7, <2>8
<1> QED BY <1>2, <1>3

LEMMA ProgressSome == \E at : at \in Progress
<1>1. [posts |-> 0, fails |-> {}, landed |-> {}, twice |-> FALSE, refused |-> FALSE] \in Progress
  BY DEF Progress
<1> QED BY <1>1

LEMMA AggregateCallIs ==
  /\ deliver_aggregate \in [Task -> Result]
  /\ \A t \in Task : deliver_aggregate[t] = AggregateStep(deliver_aggregate, t)
<1> DEFINE size == [t \in Task |-> Len(t.request.assigned)]
           step == [x \in [Task -> Result] \X Task |-> AggregateStep(x[1], x[2])]
           body(f) == [t \in Task |-> AggregateStep(f, t)]
<1>1. \A g \in [Task -> Result], t \in Task : step[<<g, t>>] = AggregateStep(g, t)
  OBVIOUS
<1>2. Recursion(Task, Result, size, step)
  <2>1. size \in [Task -> Nat]
    BY TaskFields
  <2>2. step \in [[Task -> Result] \X Task -> Result]
    BY AggregateStepIs
  <2>3. ASSUME NEW g \in [Task -> Result], NEW h \in [Task -> Result], NEW t \in Task,
               \A u \in Task : size[u] < size[t] => g[u] = h[u]
        PROVE  step[<<g, t>>] = step[<<h, t>>]
    <3>1. \A u \in Task : Len(u.request.assigned) < Len(t.request.assigned) => g[u] = h[u]
      BY <2>3
    <3> HIDE DEF step, size
    <3> QED BY <1>1, <3>1, AggregateStepSame
  <2>4. Result # {}
    <3>1. PICK at : at \in Progress
      BY ProgressSome
    <3>2. [out |-> [ok |-> 0, lost |-> 0], at |-> at] \in Result
      BY <3>1 DEF Result, Outcome
    <3> QED BY <3>2
  <2> HIDE DEF size, step
  <2> QED BY <2>1, <2>2, <2>3, <2>4 DEF Recursion
<1> HIDE DEF size
<1>3. PICK f \in [Task -> Result] : \A t \in Task : f[t] = step[<<f, t>>]
  <2> HIDE DEF step
  <2> QED BY <1>2, RecursionExists
<1>4. \E h : h = body(h)
  <2>1. \A t \in Task : f[t] = AggregateStep(f, t)
    <3> HIDE DEF step
    <3> QED BY <1>1, <1>3
  <2>2. f = body(f)
    BY <2>1
  <2> QED BY <2>2
<1> DEFINE the == CHOOSE h : h = body(h)
<1>5. the = body(the)
  <2> HIDE DEF body
  <2> QED BY <1>4
<1>6. deliver_aggregate = the
  BY DEF deliver_aggregate, AggregateStep, Task, HeadTask, TailTask, FrontHalf, BackHalf
<1> HIDE DEF the
<1>7. \A t \in Task : the[t] = AggregateStep(the, t)
  BY <1>5
<1> HIDE DEF body, step
<1> DEFINE T == {n \in Nat : \A t \in Task : Len(t.request.assigned) = n => the[t] \in Result}
<1>8. ASSUME NEW n \in Nat, \A m \in Nat : m < n => m \in T PROVE n \in T
  <2> SUFFICES ASSUME NEW t \in Task, Len(t.request.assigned) = n PROVE the[t] \in Result
    OBVIOUS
  <2>1. ASSUME NEW u \in Task, Len(u.request.assigned) < Len(t.request.assigned) PROVE the[u] \in Result
    <3>1. Len(u.request.assigned) \in T
      BY <1>8, <2>1, TaskFields
    <3> QED BY <3>1
  <2>2. AggregateStep(the, t) \in Result
    <3> HIDE DEF T
    <3> QED BY <2>1, AggregateStepIs
  <2> QED BY <1>7, <2>2
<1>9. Nat \subseteq T
  <2> HIDE DEF T
  <2> QED BY <1>8, StrongInduct
<1>10. \A t \in Task : the[t] \in Result
  BY <1>9, TaskFields
<1>11. the \in [Task -> Result]
  <2>1. the = [t \in Task |-> the[t]]
    BY <1>5 DEF body
  <2> QED BY <1>10, <2>1
<1> QED BY <1>6, <1>7, <1>11

Delivers(t, r) == Lands(t.at, r.at, Ids(t.request), r.out.ok > 0, r.out.lost > 0, Solid(t.request))

LEMMA AggregateStepLaw ==
  ASSUME NEW g \in [Task -> Result], NEW t \in Task, t.count > 0, Spread(t.request),
         \A u \in Task : Len(u.request.assigned) < Len(t.request.assigned) /\ u.count > 0 /\ Spread(u.request) => Delivers(u, g[u])
  PROVE  Delivers(t, AggregateStep(g, t))
<1> DEFINE out == AggregateStep(g, t)
           n == Len(t.request.assigned)
           r == t.request
<1>1. /\ r \in Request /\ t.count \in Nat /\ t.at \in Progress /\ r.assigned \in Seq(Flags) /\ r.carry \in Seq(Part)
      /\ n \in Nat /\ Ids(r) \in SUBSET Id /\ Ids(r) = IdsOf(r.carry) \cup AssignedIds(r.assigned)
  BY TaskFields, IdsAre
<1>2. Solid(r) => Ids(r) # {}
  BY <1>1, SolidIds
<1>3. CASE Fits(r)
  <2> DEFINE o == IF Posted(t.at) THEN Delivered(t.count, 0) ELSE Delivered(0, t.count)
             e == Post(r, t.at)
  <2>1. out = [out |-> o, at |-> e]
    BY <1>3 DEF AggregateStep
  <2>2. (o.ok > 0 <=> Posted(t.at)) /\ (o.lost > 0 <=> ~Posted(t.at))
    <3>1. CASE Posted(t.at)
      BY <1>1, <3>1, OutcomeIs
    <3>2. CASE ~Posted(t.at)
      BY <1>1, <3>2, OutcomeIs
    <3> QED BY <3>1, <3>2
  <2>3. Lands(t.at, e, Ids(r), Posted(t.at), ~Posted(t.at), Ids(r) # {})
    BY <1>1, <1>3, PostLands
  <2> HIDE DEF o, e, out
  <2>4. Lands(t.at, e, Ids(r), Posted(t.at), ~Posted(t.at), Solid(r))
    BY <1>2, <2>3, LandsWeaker
  <2>5. Lands(t.at, e, Ids(r), o.ok > 0, o.lost > 0, Solid(r))
    BY <2>2, <2>4 DEF Lands
  <2> QED BY <2>1, <2>5 DEF Delivers, out
<1>4. CASE ~Fits(r) /\ n > 1
  <2> DEFINE h == HeadTask(t)
             a == g[h]
             u == TailTask(t, a.at)
             b == g[u]
             f == FrontHalf(r.assigned)
             k == BackHalf(r.assigned)
             solid == Solid(r)
  <2>1. f # << >> /\ k # << >> /\ Len(f) < n /\ Len(k) < n
    BY <1>1, <1>4, HalvesOfAssigned
  <2>2. /\ AssignedIds(r.assigned) = AssignedIds(f) \cup AssignedIds(k)
        /\ Apart(f) /\ Apart(k) /\ AssignedIds(f) \cap AssignedIds(k) = {}
        /\ NoneEmpty(r.assigned) => NoneEmpty(f) /\ NoneEmpty(k)
    BY <1>1, <1>4, HalvesAssigned DEF Spread
  <2>3. h \in Task /\ h.request.assigned = f /\ h.request.carry = r.carry /\ h.at = t.at /\ h.count > 0
    BY <1>4, HeadTaskIs
  <2> HIDE DEF h, f, k
  <2>4. Spread(h.request) /\ (solid => Solid(h.request))
    BY <2>1, <2>2, <2>3 DEF Spread, Solid
  <2>5. Delivers(h, a) /\ a \in Result
    BY <2>1, <2>3, <2>4
  <2> HIDE DEF a
  <2>6. a.out \in Outcome /\ a.at \in Progress
    BY <2>5 DEF Result
  <2>7. u \in Task /\ u.request.assigned = k /\ u.request.carry = << >> /\ u.at = a.at /\ u.count > 0
    BY <1>4, <2>6, TailTaskIs DEF k
  <2> HIDE DEF u
  <2>8. IdsOf(<< >>) = {}
    BY DEF IdsOf
  <2>9. Spread(u.request) /\ (solid => Solid(u.request))
    BY <2>1, <2>2, <2>7, <2>8 DEF Spread, Solid
  <2>10. Delivers(u, b) /\ b \in Result
    BY <2>1, <2>7, <2>9
  <2> HIDE DEF b
  <2>11. b.out \in Outcome /\ b.at \in Progress
    BY <2>10 DEF Result
  <2> DEFINE o == IF t.count < 2 THEN combine_halves(a.out, b.out, t.count) ELSE MergeDelivered(a.out, b.out)
             ok == a.out.ok > 0 \/ b.out.ok > 0
             lost == a.out.lost > 0 \/ b.out.lost > 0
             I == IdsOf(r.carry) \cup AssignedIds(f)
             J == AssignedIds(k)
  <2>12. out = [out |-> o, at |-> b.at]
    BY <1>4 DEF AggregateStep, a, b, h, u
  <2>13. (o.ok > 0 <=> ok) /\ (t.count < 2 => (o.lost > 0 <=> lost \/ ~ok)) /\ (~(t.count < 2) => (o.lost > 0 <=> lost))
    <3>1. CASE t.count < 2
      BY <1>1, <2>6, <2>11, <3>1, HalvesOutcome
    <3>2. CASE ~(t.count < 2)
      BY <1>1, <2>6, <2>11, <3>2, HalvesOutcome
    <3> QED BY <3>1, <3>2
  <2>14. Ids(h.request) = I /\ Ids(u.request) = J
    BY <2>3, <2>7, <2>8, IdsAre, TaskFields
  <2>15. I \cap J = {} /\ I \cup J = Ids(r)
    BY <1>1, <2>2 DEF Spread
  <2> HIDE DEF o, out, I, J
  <2>16. Lands(t.at, a.at, I, a.out.ok > 0, a.out.lost > 0, solid)
    <3>1. Lands(t.at, a.at, I, a.out.ok > 0, a.out.lost > 0, Solid(h.request))
      BY <2>3, <2>5, <2>14 DEF Delivers
    <3> HIDE DEF solid
    <3> QED BY <2>4, <3>1, LandsWeaker
  <2>17. Lands(a.at, b.at, J, b.out.ok > 0, b.out.lost > 0, solid)
    <3>1. Lands(a.at, b.at, J, b.out.ok > 0, b.out.lost > 0, Solid(u.request))
      BY <2>7, <2>10, <2>14 DEF Delivers
    <3> HIDE DEF solid
    <3> QED BY <2>9, <3>1, LandsWeaker
  <2>18. Lands(t.at, b.at, I \cup J, ok, lost, solid)
    <3> DEFINE ok1 == a.out.ok > 0
               ok2 == b.out.ok > 0
               lost1 == a.out.lost > 0
               lost2 == b.out.lost > 0
    <3>1. Lands(t.at, a.at, I, ok1, lost1, solid) /\ Lands(a.at, b.at, J, ok2, lost2, solid)
      BY <2>16, <2>17
    <3> HIDE DEF ok1, ok2, lost1, lost2, solid
    <3>2. Lands(t.at, b.at, I \cup J, ok1 \/ ok2, lost1 \/ lost2, solid)
      BY <2>15, <3>1, LandsBoth
    <3> QED BY <3>2 DEF ok1, ok2, lost1, lost2
  <2> HIDE DEF ok, lost
  <2>19. Lands(t.at, b.at, Ids(r), ok, lost, solid)
    BY <2>15, <2>18
  <2>20. Lands(t.at, b.at, Ids(r), ok, lost \/ ~ok, solid)
    <3>1. solid => Ids(r) # {}
      BY <1>2
    <3> HIDE DEF solid
    <3> QED BY <2>19, <3>1, LandsReported
  <2>21. Lands(t.at, b.at, Ids(r), o.ok > 0, o.lost > 0, solid)
    <3> HIDE DEF solid
    <3>1. CASE t.count < 2
      <4>1. (ok <=> o.ok > 0) /\ (lost \/ ~ok <=> o.lost > 0)
        BY <2>13, <3>1
      <4> QED BY <2>20, <4>1 DEF Lands
    <3>2. CASE ~(t.count < 2)
      <4>1. (ok <=> o.ok > 0) /\ (lost <=> o.lost > 0)
        BY <2>13, <3>2
      <4> QED BY <2>19, <4>1 DEF Lands
    <3> QED BY <3>1, <3>2
  <2> QED BY <2>12, <2>21 DEF Delivers, out
<1>5. CASE ~Fits(r) /\ n = 1 /\ Len(r.assigned[1]) > 1
  <2> DEFINE d == deliver_by_splitting_flags(r, t.count, t.at)
  <2>1. out = d
    BY <1>5 DEF AggregateStep
  <2>2. Lands(t.at, d.at, Ids(r), d.out.ok > 0, d.out.lost > 0, Solid(r))
    BY <1>1, <1>5, BySplitting
  <2> HIDE DEF d, out
  <2> QED BY <2>1, <2>2 DEF Delivers, out
<1>6. CASE ~Fits(r) /\ ~(n > 1) /\ ~(n = 1 /\ Len(r.assigned[1]) > 1)
  <2>1. out = [out |-> Delivered(0, t.count), at |-> t.at]
    BY <1>6 DEF AggregateStep
  <2>2. Delivered(0, t.count).ok = 0 /\ Delivered(0, t.count).lost = t.count
    BY <1>1, OutcomeIs
  <2>3. Lands(t.at, t.at, Ids(r), FALSE, TRUE, Solid(r))
    BY <1>1, <1>2, LandsNone
  <2> HIDE DEF out
  <2>4. out.at = t.at /\ (FALSE <=> out.out.ok > 0) /\ (TRUE <=> out.out.lost > 0)
    BY <1>1, <2>1, <2>2
  <2>5. Lands(t.at, out.at, Ids(r), out.out.ok > 0, out.out.lost > 0, Solid(r))
    BY <2>3, <2>4, LandsSame
  <2> QED BY <2>5 DEF Delivers, out
<1>7. \/ Fits(r)
      \/ ~Fits(r) /\ n > 1
      \/ ~Fits(r) /\ n = 1 /\ Len(r.assigned[1]) > 1
      \/ ~Fits(r) /\ ~(n > 1) /\ ~(n = 1 /\ Len(r.assigned[1]) > 1)
  BY <1>1
<1> HIDE DEF out, n, r
<1> QED BY <1>3, <1>4, <1>5, <1>6, <1>7 DEF out

LEMMA AggregateCallLaw ==
  \A t \in Task : t.count > 0 /\ Spread(t.request) => Delivers(t, deliver_aggregate[t])
<1> DEFINE law(t) == t.count > 0 /\ Spread(t.request) => Delivers(t, deliver_aggregate[t])
           T == {n \in Nat : \A t \in Task : Len(t.request.assigned) = n => law(t)}
<1>1. ASSUME NEW n \in Nat, \A m \in Nat : m < n => m \in T PROVE n \in T
  <2> SUFFICES ASSUME NEW t \in Task, Len(t.request.assigned) = n, t.count > 0, Spread(t.request)
               PROVE  Delivers(t, deliver_aggregate[t])
    OBVIOUS
  <2>1. ASSUME NEW u \in Task, Len(u.request.assigned) < Len(t.request.assigned), u.count > 0, Spread(u.request)
        PROVE  Delivers(u, deliver_aggregate[u])
    <3>1. Len(u.request.assigned) \in T
      BY <1>1, <2>1, TaskFields
    <3> QED BY <2>1, <3>1
  <2>2. deliver_aggregate \in [Task -> Result] /\ deliver_aggregate[t] = AggregateStep(deliver_aggregate, t)
    BY AggregateCallIs
  <2> HIDE DEF T, law
  <2>3. Delivers(t, AggregateStep(deliver_aggregate, t))
    BY <2>1, <2>2, AggregateStepLaw
  <2> QED BY <2>2, <2>3
<1>2. Nat \subseteq T
  <2> HIDE DEF T
  <2> QED BY <1>1, StrongInduct
<1>3. \A t \in Task : law(t)
  <2> HIDE DEF law
  <2> QED BY <1>2, TaskFields
<1> QED BY <1>3

\* A record as a request of its own, and two requests as one.
CarryOf(r)   == IF r.carry.size > 0 THEN <<r.carry>> ELSE << >>
RequestOf(r) == [carry |-> CarryOf(r), assigned |-> r.assigned]
Join(x, y)   == [carry |-> x.carry \o y.carry, assigned |-> x.assigned \o y.assigned]

LEMMA RequestOfIs ==
  ASSUME NEW r \in Record
  PROVE  RequestOf(r) \in Request /\ RequestOf(r).carry = CarryOf(r) /\ RequestOf(r).assigned = r.assigned
<1>1. r.carry \in Part /\ r.assigned \in Seq(Flags)
  BY DEF Record
<1>2. CarryOf(r) \in Seq(Part)
  BY <1>1 DEF CarryOf
<1> QED BY <1>1, <1>2 DEF RequestOf, Request

\* The elements of a concatenation.
LEMMA ConcatAt ==
  ASSUME NEW X, NEW a \in Seq(X), NEW b \in Seq(X)
  PROVE  /\ a \o b \in Seq(X) /\ DOMAIN (a \o b) = 1 .. Len(a) + Len(b) /\ Len(a) \in Nat /\ Len(b) \in Nat
         /\ DOMAIN a = 1 .. Len(a) /\ DOMAIN b = 1 .. Len(b)
         /\ \A i \in DOMAIN a : i \in DOMAIN (a \o b) /\ (a \o b)[i] = a[i]
         /\ \A i \in DOMAIN b : Len(a) + i \in DOMAIN (a \o b) /\ (a \o b)[Len(a) + i] = b[i]
         /\ \A i \in DOMAIN (a \o b) : i \in DOMAIN a \/ (i - Len(a) \in DOMAIN b /\ Len(a) + (i - Len(a)) = i)
<1> DEFINE m == Len(a)
           n == Len(b)
           c == a \o b
<1>1. m \in Nat /\ n \in Nat /\ DOMAIN a = 1 .. m /\ DOMAIN b = 1 .. n
  OBVIOUS
<1>2. c \in Seq(X) /\ Len(c) = m + n /\ \A i \in 1 .. m + n : c[i] = IF i <= m THEN a[i] ELSE b[i - m]
  BY ConcatProperties
<1>3. DOMAIN c = 1 .. m + n
  <2> HIDE DEF c
  <2> QED BY <1>2
<1> HIDE DEF m, n, c
<1>4. ASSUME NEW i \in 1 .. m PROVE i \in 1 .. m + n /\ c[i] = a[i]
  <2>1. i \in 1 .. m + n /\ i <= m
    BY <1>1
  <2> QED BY <1>2, <2>1
<1>5. ASSUME NEW i \in 1 .. n PROVE m + i \in 1 .. m + n /\ c[m + i] = b[i]
  <2> DEFINE k == m + i
  <2>1. k \in 1 .. m + n /\ ~(k <= m) /\ k - m = i
    BY <1>1
  <2> HIDE DEF k
  <2>2. c[k] = b[i]
    BY <1>2, <2>1
  <2> QED BY <2>1, <2>2 DEF k
<1>6. \A i \in 1 .. m + n : i \in 1 .. m \/ (i - m \in 1 .. n /\ m + (i - m) = i)
  BY <1>1
<1> QED BY <1>1, <1>2, <1>3, <1>4, <1>5, <1>6 DEF m, n, c

LEMMA ConcatSome ==
  ASSUME NEW X, NEW a \in Seq(X), NEW b \in Seq(X), b # << >>
  PROVE  a \o b # << >>
<1>1. Len(a \o b) = Len(a) + Len(b)
  BY ConcatProperties
<1>2. Len(a) \in Nat /\ Len(b) \in Nat /\ Len(b) # 0
  BY EmptySeq
<1> DEFINE c == a \o b
<1> HIDE DEF c
<1>3. Len(c) # 0
  BY <1>1, <1>2 DEF c
<1> QED BY <1>3 DEF c

LEMMA ConcatIds ==
  ASSUME NEW a \in Seq(Part), NEW b \in Seq(Part)
  PROVE  IdsOf(a \o b) = IdsOf(a) \cup IdsOf(b)
<1> DEFINE c == a \o b
           m == Len(a)
<1>1. /\ \A i \in DOMAIN a : i \in DOMAIN c /\ c[i] = a[i]
      /\ \A i \in DOMAIN b : m + i \in DOMAIN c /\ c[m + i] = b[i]
      /\ \A i \in DOMAIN c : i \in DOMAIN a \/ (i - m \in DOMAIN b /\ m + (i - m) = i)
  BY ConcatAt
<1> HIDE DEF c, m
<1>2. ASSUME NEW x \in IdsOf(c) PROVE x \in IdsOf(a) \/ x \in IdsOf(b)
  <2>1. PICK i \in DOMAIN c : x = c[i].id
    BY <1>2 DEF IdsOf
  <2>2. CASE i \in DOMAIN a
    BY <1>1, <2>1, <2>2 DEF IdsOf
  <2>3. CASE i - m \in DOMAIN b /\ m + (i - m) = i
    <3>1. c[m + (i - m)] = b[i - m]
      BY <1>1, <2>3
    <3> QED BY <2>1, <2>3, <3>1 DEF IdsOf
  <2> QED BY <1>1, <2>2, <2>3
<1>3. ASSUME NEW x \in IdsOf(a) PROVE x \in IdsOf(c)
  BY <1>1, <1>3 DEF IdsOf
<1>4. ASSUME NEW x \in IdsOf(b) PROVE x \in IdsOf(c)
  BY <1>1, <1>4 DEF IdsOf
<1>5. IdsOf(c) = IdsOf(a) \cup IdsOf(b)
  BY <1>2, <1>3, <1>4
<1> QED BY <1>5 DEF c

LEMMA ConcatAssigned ==
  ASSUME NEW a \in Seq(Flags), NEW b \in Seq(Flags)
  PROVE  /\ AssignedIds(a \o b) = AssignedIds(a) \cup AssignedIds(b)
         /\ Apart(a) /\ Apart(b) /\ AssignedIds(a) \cap AssignedIds(b) = {} => Apart(a \o b)
         /\ NoneEmpty(a) /\ NoneEmpty(b) => NoneEmpty(a \o b)
<1> DEFINE c == a \o b
           m == Len(a)
<1>1. /\ \A i \in DOMAIN a : i \in DOMAIN c /\ c[i] = a[i]
      /\ \A i \in DOMAIN b : m + i \in DOMAIN c /\ c[m + i] = b[i]
      /\ \A i \in DOMAIN c : i \in DOMAIN a \/ (i - m \in DOMAIN b /\ m + (i - m) = i)
  BY ConcatAt
<1> HIDE DEF c, m
<1>2. \A i \in DOMAIN c : (i \in DOMAIN a /\ c[i] = a[i]) \/ (i - m \in DOMAIN b /\ m + (i - m) = i /\ c[i] = b[i - m])
  <2> SUFFICES ASSUME NEW i \in DOMAIN c, i - m \in DOMAIN b, m + (i - m) = i PROVE c[i] = b[i - m]
    BY <1>1
  <2>1. c[m + (i - m)] = b[i - m]
    BY <1>1
  <2> QED BY <2>1
<1>3. ASSUME NEW x \in AssignedIds(c) PROVE x \in AssignedIds(a) \/ x \in AssignedIds(b)
  <2>1. PICK i \in DOMAIN c : x \in IdsOf(c[i])
    BY <1>3 DEF AssignedIds
  <2> QED BY <1>2, <2>1 DEF AssignedIds
<1>4. ASSUME NEW x \in AssignedIds(a) PROVE x \in AssignedIds(c)
  BY <1>1, <1>4 DEF AssignedIds
<1>5. ASSUME NEW x \in AssignedIds(b) PROVE x \in AssignedIds(c)
  BY <1>1, <1>5 DEF AssignedIds
<1>6. AssignedIds(c) = AssignedIds(a) \cup AssignedIds(b)
  BY <1>3, <1>4, <1>5
<1>7. ASSUME Apart(a), Apart(b), AssignedIds(a) \cap AssignedIds(b) = {} PROVE Apart(c)
  <2>1. ASSUME NEW i \in DOMAIN c PROVE Distinct(c[i])
    BY <1>2, <1>7 DEF Apart
  <2>2. ASSUME NEW i \in DOMAIN c, NEW j \in DOMAIN c, i # j PROVE IdsOf(c[i]) \cap IdsOf(c[j]) = {}
    <3>1. CASE i \in DOMAIN a /\ c[i] = a[i] /\ j \in DOMAIN a /\ c[j] = a[j]
      BY <1>7, <2>2, <3>1 DEF Apart
    <3>2. CASE i - m \in DOMAIN b /\ m + (i - m) = i /\ c[i] = b[i - m] /\ j - m \in DOMAIN b /\ m + (j - m) = j /\ c[j] = b[j - m]
      <4>1. i - m # j - m
        BY <2>2, <3>2
      <4> QED BY <1>7, <3>2, <4>1 DEF Apart
    <3>3. CASE i \in DOMAIN a /\ c[i] = a[i] /\ j - m \in DOMAIN b /\ c[j] = b[j - m]
      <4>1. IdsOf(c[i]) \subseteq AssignedIds(a) /\ IdsOf(c[j]) \subseteq AssignedIds(b)
        BY <3>3 DEF AssignedIds
      <4> QED BY <1>7, <4>1
    <3>4. CASE j \in DOMAIN a /\ c[j] = a[j] /\ i - m \in DOMAIN b /\ c[i] = b[i - m]
      <4>1. IdsOf(c[j]) \subseteq AssignedIds(a) /\ IdsOf(c[i]) \subseteq AssignedIds(b)
        BY <3>4 DEF AssignedIds
      <4> QED BY <1>7, <4>1
    <3> QED BY <1>2, <3>1, <3>2, <3>3, <3>4
  <2> QED BY <2>1, <2>2 DEF Apart
<1>8. NoneEmpty(a) /\ NoneEmpty(b) => NoneEmpty(c)
  BY <1>2 DEF NoneEmpty
<1> QED BY <1>6, <1>7, <1>8 DEF c

LEMMA JoinIs ==
  ASSUME NEW x \in Request, NEW y \in Request
  PROVE  /\ Join(x, y) \in Request
         /\ Ids(Join(x, y)) = Ids(x) \cup Ids(y)
         /\ Spread(x) /\ Spread(y) /\ Ids(x) \cap Ids(y) = {} => Spread(Join(x, y))
         /\ NoneEmpty(x.assigned) /\ Solid(y) => Solid(Join(x, y))
<1> DEFINE z == Join(x, y)
<1>1. /\ x.carry \in Seq(Part) /\ x.assigned \in Seq(Flags) /\ Ids(x) = IdsOf(x.carry) \cup AssignedIds(x.assigned)
      /\ y.carry \in Seq(Part) /\ y.assigned \in Seq(Flags) /\ Ids(y) = IdsOf(y.carry) \cup AssignedIds(y.assigned)
  BY IdsAre
<1>2. z = [carry |-> x.carry \o y.carry, assigned |-> x.assigned \o y.assigned]
  BY DEF Join
<1> HIDE DEF z
<1>3. x.carry \o y.carry \in Seq(Part) /\ x.assigned \o y.assigned \in Seq(Flags)
  BY <1>1, ConcatAt
<1>4. z \in Request /\ z.carry = x.carry \o y.carry /\ z.assigned = x.assigned \o y.assigned
  BY <1>2, <1>3 DEF Request
<1>5. IdsOf(z.carry) = IdsOf(x.carry) \cup IdsOf(y.carry)
  BY <1>1, <1>4, ConcatIds
<1>6. /\ AssignedIds(z.assigned) = AssignedIds(x.assigned) \cup AssignedIds(y.assigned)
      /\ Apart(x.assigned) /\ Apart(y.assigned) /\ AssignedIds(x.assigned) \cap AssignedIds(y.assigned) = {} => Apart(z.assigned)
      /\ NoneEmpty(x.assigned) /\ NoneEmpty(y.assigned) => NoneEmpty(z.assigned)
  BY <1>1, <1>4, ConcatAssigned
<1>7. Ids(z) = Ids(x) \cup Ids(y)
  BY <1>1, <1>4, <1>5, <1>6, IdsAre
<1>8. Spread(x) /\ Spread(y) /\ Ids(x) \cap Ids(y) = {} => Spread(z)
  BY <1>1, <1>5, <1>6 DEF Spread
<1>9. ASSUME Solid(y) PROVE z.carry # << >> \/ z.assigned # << >>
  <2>1. CASE y.carry # << >>
    BY <1>1, <1>4, <2>1, ConcatSome
  <2>2. CASE y.assigned # << >>
    BY <1>1, <1>4, <2>2, ConcatSome
  <2> QED BY <1>9, <2>1, <2>2 DEF Solid
<1>10. NoneEmpty(x.assigned) /\ Solid(y) => Solid(z)
  BY <1>6, <1>9 DEF Solid
<1> QED BY <1>4, <1>7, <1>8, <1>10 DEF z

\* The records of a batch: their ids, all different, none of them empty.
RecordIds(records, n) == UNION {Ids(RequestOf(records[i])) : i \in 1 .. n}
AllIds(records) == RecordIds(records, Len(records))

RecordsSpread(records) ==
  /\ \A i \in DOMAIN records : Spread(RequestOf(records[i]))
  /\ \A i, j \in DOMAIN records : i # j => Ids(RequestOf(records[i])) \cap Ids(RequestOf(records[j])) = {}

RecordsSolid(records) == \A i \in DOMAIN records : Solid(RequestOf(records[i]))

NoRequest == [carry |-> << >>, assigned |-> << >>]

LEMMA NoRequestIs == NoRequest \in Request /\ Ids(NoRequest) = {} /\ Spread(NoRequest) /\ NoneEmpty(NoRequest.assigned)
<1>1. NoRequest \in Request /\ NoRequest.carry = << >> /\ NoRequest.assigned = << >>
  BY DEF NoRequest, Request, Flags
<1>2. DOMAIN << >> = {}
  OBVIOUS
<1> HIDE DEF NoRequest
<1>3. IdsOf(NoRequest.carry) = {} /\ AssignedIds(NoRequest.assigned) = {}
  BY <1>1, <1>2 DEF IdsOf, AssignedIds
<1>4. Apart(NoRequest.assigned) /\ NoneEmpty(NoRequest.assigned)
  BY <1>1, <1>2 DEF Apart, NoneEmpty
<1> QED BY <1>1, <1>3, <1>4, IdsAre DEF Spread

\* The aggregate is the records joined one after the other.
LEMMA AggregateSteps ==
  ASSUME NEW records \in Seq(Record)
  PROVE  \E h \in [0 .. Len(records) -> Request] :
           /\ h[0] = NoRequest /\ Aggregate(records) = h[Len(records)]
           /\ \A i \in 1 .. Len(records) : h[i] = Join(h[i - 1], RequestOf(records[i]))
<1> DEFINE n == Len(records)
           merge(m, i) ==
             [carry    |-> IF records[i].carry.size > 0 THEN Append(m.carry, records[i].carry) ELSE m.carry,
              assigned |-> m.assigned \o records[i].assigned]
           step == [p \in (1 .. n) \X Request |-> merge(p[2], p[1])]
           body(f) == [i \in 0 .. n |-> IF i = 0 THEN NoRequest ELSE merge(f[i - 1], i)]
           the == CHOOSE f : f = body(f)
<1>1. n \in Nat /\ \A i \in 1 .. n : records[i] \in Record
  <2>1. \A i \in 1 .. n : records[i] \in Record
    BY ElementOfSeq
  <2> QED BY <2>1
<1>2. ASSUME NEW m \in Request, NEW i \in 1 .. n
      PROVE  merge(m, i) = Join(m, RequestOf(records[i])) /\ merge(m, i) \in Request
  <2> DEFINE r == records[i]
  <2>1. r \in Record /\ r.carry \in Part
    BY <1>1 DEF Record
  <2>2. m.carry \in Seq(Part)
    BY IdsAre
  <2>3. RequestOf(r) \in Request /\ RequestOf(r).carry = CarryOf(r) /\ RequestOf(r).assigned = r.assigned
    BY <2>1, RequestOfIs
  <2>4. (IF r.carry.size > 0 THEN Append(m.carry, r.carry) ELSE m.carry) = m.carry \o CarryOf(r)
    <3>1. Append(m.carry, r.carry) = m.carry \o <<r.carry>>
      BY <2>1, <2>2, AppendIsConcat
    <3>2. m.carry = m.carry \o << >>
      BY <2>2, ConcatEmptySeq
    <3> QED BY <3>1, <3>2 DEF CarryOf
  <2>5. merge(m, i) = Join(m, RequestOf(r))
    BY <2>3, <2>4 DEF Join
  <2> HIDE DEF merge
  <2> QED BY <2>3, <2>5, JoinIs
<1> HIDE DEF n, merge
<1>3. step \in [(1 .. n) \X Request -> Request]
  BY <1>2
<1>4. ASSUME NEW i \in 1 .. n, NEW m \in Request PROVE step[<<i, m>>] = merge(m, i)
  OBVIOUS
<1> HIDE DEF step
<1>5. PICK h \in [0 .. n -> Request] : \A i \in 0 .. n : h[i] = IF i = 0 THEN NoRequest ELSE step[<<i, h[i - 1]>>]
  <2>1. Iteration(Request, n, NoRequest, step)
    BY <1>1, <1>3, NoRequestIs DEF Iteration
  <2>2. \E f : Iterates(f, Request, n, NoRequest, step)
    BY <2>1, IterationExists
  <2> QED BY <2>2 DEF Iterates
<1>6. h[0] = NoRequest /\ \A i \in 1 .. n : h[i - 1] \in Request /\ h[i] = merge(h[i - 1], i)
  <2>1. ASSUME NEW i \in 1 .. n PROVE h[i - 1] \in Request /\ h[i] = merge(h[i - 1], i)
    <3>1. i \in 0 .. n /\ i # 0 /\ h[i - 1] \in Request
      BY <1>1, <1>5
    <3> QED BY <1>4, <1>5, <3>1
  <2>2. 0 \in 0 .. n
    BY <1>1
  <2> HIDE DEF body, the
  <2> QED BY <1>5, <2>1, <2>2
<1>7. \E f : f = body(f)
  <2>1. \A i \in 0 .. n : h[i] = IF i = 0 THEN NoRequest ELSE merge(h[i - 1], i)
    BY <1>1, <1>6
  <2>2. h = body(h)
    BY <2>1
  <2> QED BY <2>2
<1>8. the = body(the)
  <2> HIDE DEF body
  <2> QED BY <1>7
<1>9. Aggregate(records) = the[n]
  BY DEF Aggregate, n, merge, NoRequest
<1> HIDE DEF the
<1>10. the[0] = NoRequest /\ \A i \in 1 .. n : the[i] = merge(the[i - 1], i)
  <2>1. \A i \in 0 .. n : the[i] = IF i = 0 THEN NoRequest ELSE merge(the[i - 1], i)
    BY <1>8
  <2> QED BY <1>1, <2>1
<1> HIDE DEF body
<1> DEFINE T == {i \in 0 .. n : the[i] = h[i]}
<1>11. ASSUME NEW i \in 0 .. n - 1, i \in T PROVE i + 1 \in T
  <2> DEFINE k == i + 1
  <2>1. k \in 1 .. n /\ k \in 0 .. n /\ k - 1 = i
    BY <1>1
  <2> HIDE DEF k
  <2>2. the[k] = merge(the[k - 1], k) /\ h[k] = merge(h[k - 1], k)
    BY <1>6, <1>10, <2>1
  <2>3. the[k] = h[k]
    BY <1>11, <2>1, <2>2
  <2> QED BY <2>1, <2>3 DEF k
<1>12. 0 .. n \subseteq T
  <2>1. 0 \in T
    BY <1>1, <1>6, <1>10
  <2> HIDE DEF T
  <2> QED BY <1>1, <1>11, <2>1, RangeInduct
<1>13. Aggregate(records) = h[n]
  BY <1>1, <1>9, <1>12
<1>14. \A i \in 1 .. n : h[i] = Join(h[i - 1], RequestOf(records[i]))
  BY <1>2, <1>6
<1> QED BY <1>5, <1>6, <1>13, <1>14 DEF n

LEMMA AggregateIs ==
  ASSUME NEW records \in Seq(Record)
  PROVE  /\ Aggregate(records) \in Request
         /\ Ids(Aggregate(records)) = AllIds(records)
         /\ RecordsSpread(records) => Spread(Aggregate(records))
         /\ RecordsSolid(records) /\ records # << >> => Solid(Aggregate(records))
<1> DEFINE n == Len(records)
           r(i) == RequestOf(records[i])
<1>1. n \in Nat /\ DOMAIN records = 1 .. n /\ (records # << >> => n # 0)
  BY EmptySeq
<1>2. \A i \in 1 .. n : r(i) \in Request
  <2>1. \A i \in 1 .. n : records[i] \in Record
    BY ElementOfSeq
  <2> QED BY <2>1, RequestOfIs
<1>3. PICK h \in [0 .. n -> Request] :
         /\ h[0] = NoRequest /\ Aggregate(records) = h[n]
         /\ \A i \in 1 .. n : h[i] = Join(h[i - 1], r(i))
  BY AggregateSteps
<1> HIDE DEF n
<1> DEFINE sound(i) == /\ Ids(h[i]) = RecordIds(records, i)
                       /\ RecordsSpread(records) => Spread(h[i])
                       /\ RecordsSolid(records) => NoneEmpty(h[i].assigned) /\ (i # 0 => Solid(h[i]))
           T == {i \in 0 .. n : sound(i)}
<1>4. sound(0)
  <2>1. RecordIds(records, 0) = {}
    BY DEF RecordIds
  <2> QED BY <1>3, <2>1, NoRequestIs
<1>5. ASSUME NEW i \in 0 .. n - 1, sound(i) PROVE sound(i + 1)
  <2> DEFINE k == i + 1
             x == h[i]
             y == r(k)
  <2>1. k \in 1 .. n /\ k - 1 = i /\ i \in 0 .. n /\ \A j \in 1 .. i : j \in 1 .. n /\ j # k
    BY <1>1
  <2>2. \A j \in 1 .. k : j \in 1 .. i \/ j = k
    BY <1>1
  <2>3. \A j \in 1 .. i : j \in 1 .. k
    BY <1>1
  <2>4. k \in 1 .. k
    BY <1>1
  <2> HIDE DEF k
  <2>5. h[k] = Join(x, y) /\ x \in Request /\ y \in Request
    BY <1>2, <1>3, <2>1
  <2>6. Ids(x) = RecordIds(records, i) /\ (RecordsSpread(records) => Spread(x)) /\ (RecordsSolid(records) => NoneEmpty(x.assigned))
    BY <1>5
  <2>7. RecordIds(records, k) = RecordIds(records, i) \cup Ids(y)
    <3>1. ASSUME NEW v \in RecordIds(records, k) PROVE v \in RecordIds(records, i) \cup Ids(y)
      BY <2>2, <3>1 DEF RecordIds
    <3>2. ASSUME NEW v \in RecordIds(records, i) PROVE v \in RecordIds(records, k)
      BY <2>3, <3>2 DEF RecordIds
    <3>3. ASSUME NEW v \in Ids(y) PROVE v \in RecordIds(records, k)
      BY <2>4, <3>3 DEF RecordIds
    <3> QED BY <3>1, <3>2, <3>3
  <2>8. RecordsSpread(records) => Spread(y) /\ RecordIds(records, i) \cap Ids(y) = {}
    <3> SUFFICES ASSUME RecordsSpread(records) PROVE Spread(y) /\ RecordIds(records, i) \cap Ids(y) = {}
      OBVIOUS
    <3>1. \A j \in 1 .. i : Ids(RequestOf(records[j])) \cap Ids(y) = {}
      BY <1>1, <2>1 DEF RecordsSpread
    <3>2. Spread(y)
      BY <1>1, <2>1 DEF RecordsSpread
    <3> QED BY <3>1, <3>2 DEF RecordIds
  <2>9. RecordsSolid(records) => Solid(y)
    BY <1>1, <2>1 DEF RecordsSolid
  <2> HIDE DEF x, y, r
  <2>10. /\ Ids(Join(x, y)) = Ids(x) \cup Ids(y)
         /\ Spread(x) /\ Spread(y) /\ Ids(x) \cap Ids(y) = {} => Spread(Join(x, y))
         /\ NoneEmpty(x.assigned) /\ Solid(y) => Solid(Join(x, y))
    BY <2>5, JoinIs
  <2>11. Ids(h[k]) = RecordIds(records, k)
    BY <2>5, <2>6, <2>7, <2>10
  <2>12. RecordsSpread(records) => Spread(h[k])
    BY <2>5, <2>6, <2>8, <2>10
  <2>13. RecordsSolid(records) => NoneEmpty(h[k].assigned) /\ (k # 0 => Solid(h[k]))
    BY <2>5, <2>6, <2>9, <2>10 DEF Solid
  <2> QED BY <2>11, <2>12, <2>13 DEF k
<1>6. sound(n)
  <2> HIDE DEF sound
  <2>1. 0 \in T /\ \A i \in 0 .. n - 1 : i \in T => i + 1 \in T
    BY <1>1, <1>4, <1>5
  <2>2. 0 .. n \subseteq T
    <3> HIDE DEF T
    <3> QED BY <1>1, <2>1, RangeInduct
  <2> QED BY <1>1, <2>2
<1>7. h[n] \in Request
  BY <1>1, <1>3
<1> QED BY <1>1, <1>3, <1>6, <1>7 DEF n, AllIds

LEMMA HalvesRecords ==
  ASSUME NEW s \in Seq(Record), Len(s) > 1
  PROVE  /\ AllIds(s) = AllIds(FrontHalf(s)) \cup AllIds(BackHalf(s))
         /\ RecordsSpread(s) => /\ RecordsSpread(FrontHalf(s)) /\ RecordsSpread(BackHalf(s))
                                /\ AllIds(FrontHalf(s)) \cap AllIds(BackHalf(s)) = {}
         /\ RecordsSolid(s) => RecordsSolid(FrontHalf(s)) /\ RecordsSolid(BackHalf(s))
<1> DEFINE n == Len(s)
           k == Half(s)
           f == FrontHalf(s)
           b == BackHalf(s)
<1>1. n \in Nat /\ DOMAIN s = 1 .. n
  OBVIOUS
<1>2. /\ k \in Nat /\ 1 <= k /\ k < n
      /\ DOMAIN f = 1 .. k /\ Len(f) = k /\ (\A i \in 1 .. k : f[i] = s[i])
      /\ DOMAIN b = 1 .. n - k /\ Len(b) = n - k /\ \A i \in 1 .. n - k : b[i] = s[k + i]
  BY HalvesAre
<1>3. \A x : x \in AllIds(s) <=> \E i \in 1 .. n : x \in Ids(RequestOf(s[i]))
  BY DEF AllIds, RecordIds
<1> HIDE DEF n, k, f, b
<1>4. \A x : x \in AllIds(f) <=> \E i \in 1 .. k : x \in Ids(RequestOf(s[i]))
  BY <1>2 DEF AllIds, RecordIds
<1>5. \A x : x \in AllIds(b) <=> \E i \in 1 .. n - k : x \in Ids(RequestOf(s[k + i]))
  BY <1>2 DEF AllIds, RecordIds
<1>6. \A i \in 1 .. n : i \in 1 .. k \/ (i - k \in 1 .. n - k /\ k + (i - k) = i)
  BY <1>1, <1>2
<1>7. /\ \A i \in 1 .. k : i \in 1 .. n
      /\ \A i \in 1 .. n - k : k + i \in 1 .. n /\ \A j \in 1 .. k : k + i # j
      /\ \A i, j \in 1 .. n - k : i # j => k + i # k + j
  BY <1>1, <1>2
<1>8. \A x : x \in AllIds(s) <=> x \in AllIds(f) \/ x \in AllIds(b)
  <2>1. ASSUME NEW x \in AllIds(s) PROVE x \in AllIds(f) \/ x \in AllIds(b)
    <3>1. PICK i \in 1 .. n : x \in Ids(RequestOf(s[i]))
      BY <1>3, <2>1
    <3>2. CASE i \in 1 .. k
      BY <1>4, <3>1, <3>2
    <3>3. CASE i - k \in 1 .. n - k /\ k + (i - k) = i
      BY <1>5, <3>1, <3>3
    <3> QED BY <1>6, <3>2, <3>3
  <2>2. ASSUME NEW x \in AllIds(f) PROVE x \in AllIds(s)
    BY <1>3, <1>4, <1>7, <2>2
  <2>3. ASSUME NEW x \in AllIds(b) PROVE x \in AllIds(s)
    BY <1>3, <1>5, <1>7, <2>3
  <2> QED BY <2>1, <2>2, <2>3
<1>9. ASSUME RecordsSpread(s) PROVE RecordsSpread(f) /\ RecordsSpread(b) /\ AllIds(f) \cap AllIds(b) = {}
  <2>1. RecordsSpread(f)
    BY <1>1, <1>2, <1>7, <1>9 DEF RecordsSpread
  <2>2. RecordsSpread(b)
    <3>1. ASSUME NEW x \in 1 .. n - k PROVE Spread(RequestOf(b[x]))
      BY <1>1, <1>2, <1>7, <1>9 DEF RecordsSpread
    <3>2. ASSUME NEW x \in 1 .. n - k, NEW y \in 1 .. n - k, x # y
          PROVE  Ids(RequestOf(b[x])) \cap Ids(RequestOf(b[y])) = {}
      <4>1. k + x \in 1 .. n /\ k + y \in 1 .. n /\ k + x # k + y
        BY <1>7, <3>2
      <4>2. Ids(RequestOf(s[k + x])) \cap Ids(RequestOf(s[k + y])) = {}
        BY <1>1, <1>9, <4>1 DEF RecordsSpread
      <4> QED BY <1>2, <4>2
    <3> QED BY <1>2, <3>1, <3>2 DEF RecordsSpread
  <2>3. ASSUME NEW x \in AllIds(f), x \in AllIds(b) PROVE FALSE
    <3>1. PICK i \in 1 .. k : x \in Ids(RequestOf(s[i]))
      BY <1>4, <2>3
    <3>2. PICK j \in 1 .. n - k : x \in Ids(RequestOf(s[k + j]))
      BY <1>5, <2>3
    <3>3. i \in 1 .. n /\ k + j \in 1 .. n /\ k + j # i
      BY <1>7
    <3> QED BY <1>1, <1>9, <3>1, <3>2, <3>3 DEF RecordsSpread
  <2> QED BY <2>1, <2>2, <2>3
<1>10. AllIds(s) = AllIds(f) \cup AllIds(b)
  BY <1>8
<1>11. RecordsSolid(s) => RecordsSolid(f) /\ RecordsSolid(b)
  BY <1>1, <1>2, <1>7 DEF RecordsSolid
<1> QED BY <1>9, <1>10, <1>11 DEF f, b

LEMMA HalvesOfRecords ==
  ASSUME NEW s \in Seq(Record), Len(s) > 1
  PROVE  /\ FrontHalf(s) \in Seq(Record) /\ FrontHalf(s) # << >> /\ Len(FrontHalf(s)) < Len(s)
         /\ BackHalf(s) \in Seq(Record) /\ BackHalf(s) # << >> /\ Len(BackHalf(s)) < Len(s)
<1>1. Len(s) \in Nat
  OBVIOUS
<1>2. /\ Half(s) \in Nat /\ 1 <= Half(s) /\ Half(s) < Len(s)
      /\ FrontHalf(s) \in Seq(Record) /\ Len(FrontHalf(s)) = Half(s)
      /\ BackHalf(s) \in Seq(Record) /\ Len(BackHalf(s)) = Len(s) - Half(s)
  BY HalvesAre
<1>3. Len(FrontHalf(s)) # 0 /\ Len(BackHalf(s)) # 0 /\ Len(BackHalf(s)) < Len(s)
  BY <1>1, <1>2
<1> QED BY <1>2, <1>3, EmptySeq

\* deliver_all_within_limit, one call at a time.
Batch == [records : Seq(Record), at : Progress]

FrontBatch(t)    == [records |-> FrontHalf(t.records), at |-> t.at]
BackBatch(t, at) == [records |-> BackHalf(t.records), at |-> at]
WholeTask(t)     == [request |-> Aggregate(t.records), count |-> Len(t.records), at |-> t.at]
Cut(t)           == SizeOf(t.records) > PROTO_CHUNK_BYTES /\ Len(t.records) > 1

CutStep(g, t) ==
  LET a == g[FrontBatch(t)]
      b == g[BackBatch(t, a.at)]
  IN  IF t.records = << >> THEN [out |-> Delivered(0, 0), at |-> t.at]
      ELSE IF Cut(t) THEN [out |-> MergeDelivered(a.out, b.out), at |-> b.at]
      ELSE deliver_aggregate[WholeTask(t)]

LEMMA BatchFields ==
  ASSUME NEW t \in Batch
  PROVE  t.records \in Seq(Record) /\ Len(t.records) \in Nat /\ t.at \in Progress
BY DEF Batch

LEMMA BatchHalves ==
  ASSUME NEW t \in Batch, Cut(t)
  PROVE  /\ Len(t.records) > 1 /\ t.records # << >>
         /\ FrontBatch(t) \in Batch /\ FrontBatch(t).records = FrontHalf(t.records) /\ FrontBatch(t).at = t.at
         /\ Len(FrontHalf(t.records)) < Len(t.records) /\ FrontHalf(t.records) # << >>
         /\ Len(BackHalf(t.records)) < Len(t.records) /\ BackHalf(t.records) # << >>
         /\ \A at \in Progress : /\ BackBatch(t, at) \in Batch
                                 /\ BackBatch(t, at).records = BackHalf(t.records) /\ BackBatch(t, at).at = at
<1>1. t.records \in Seq(Record) /\ Len(t.records) > 1 /\ t.at \in Progress
  BY BatchFields DEF Cut
<1>2. t.records # << >>
  BY <1>1
<1>3. /\ FrontHalf(t.records) \in Seq(Record) /\ FrontHalf(t.records) # << >> /\ Len(FrontHalf(t.records)) < Len(t.records)
      /\ BackHalf(t.records) \in Seq(Record) /\ BackHalf(t.records) # << >> /\ Len(BackHalf(t.records)) < Len(t.records)
  BY <1>1, HalvesOfRecords
<1> QED BY <1>1, <1>2, <1>3 DEF FrontBatch, BackBatch, Batch

LEMMA WholeTaskIs ==
  ASSUME NEW t \in Batch
  PROVE  /\ WholeTask(t) \in Task /\ WholeTask(t).request = Aggregate(t.records)
         /\ WholeTask(t).count = Len(t.records) /\ WholeTask(t).at = t.at
<1>1. Aggregate(t.records) \in Request /\ Len(t.records) \in Nat /\ t.at \in Progress
  BY BatchFields, AggregateIs
<1> QED BY <1>1 DEF WholeTask, Task

\* Some calls need the result of calls on shorter batches only.
LEMMA CutStepIs ==
  ASSUME NEW g, NEW t \in Batch,
         \A u \in Batch : Len(u.records) < Len(t.records) => g[u] \in Result
  PROVE  CutStep(g, t) \in Result
<1> DEFINE out == CutStep(g, t)
<1>1. t.at \in Progress
  BY BatchFields
<1>2. CASE t.records = << >>
  <2>1. out = [out |-> Delivered(0, 0), at |-> t.at]
    BY <1>2 DEF CutStep
  <2>2. Delivered(0, 0) \in Outcome
    BY OutcomeIs
  <2> HIDE DEF out
  <2>3. out \in Result
    BY <1>1, <2>1, <2>2 DEF Result
  <2> QED BY <2>3 DEF out
<1>3. CASE t.records # << >> /\ Cut(t)
  <2> DEFINE x == FrontBatch(t)
             a == g[x]
             y == BackBatch(t, a.at)
             b == g[y]
  <2>1. x \in Batch /\ Len(x.records) < Len(t.records) /\ Len(BackHalf(t.records)) < Len(t.records)
    BY <1>3, BatchHalves
  <2> HIDE DEF x
  <2>2. a \in Result
    BY <2>1
  <2> HIDE DEF a
  <2>3. a.out \in Outcome /\ a.at \in Progress
    BY <2>2 DEF Result
  <2>4. y \in Batch /\ y.records = BackHalf(t.records)
    BY <1>3, <2>3, BatchHalves
  <2> HIDE DEF y
  <2>5. b \in Result
    BY <2>1, <2>4
  <2> HIDE DEF b
  <2>6. b.out \in Outcome /\ b.at \in Progress
    BY <2>5 DEF Result
  <2> DEFINE o == MergeDelivered(a.out, b.out)
  <2>7. o \in Outcome
    BY <2>3, <2>6, HalvesOutcome
  <2>8. out = [out |-> o, at |-> b.at]
    BY <1>3 DEF CutStep, x, y, a, b
  <2> HIDE DEF out, o
  <2>9. out \in Result
    BY <2>6, <2>7, <2>8 DEF Result
  <2> QED BY <2>9 DEF out
<1>4. CASE t.records # << >> /\ ~Cut(t)
  <2>1. out = deliver_aggregate[WholeTask(t)]
    BY <1>4 DEF CutStep
  <2> HIDE DEF out
  <2>2. out \in Result
    BY <2>1, WholeTaskIs, AggregateCallIs
  <2> QED BY <2>2 DEF out
<1> HIDE DEF out
<1>5. out \in Result
  BY <1>2, <1>3, <1>4 DEF out
<1> QED BY <1>5 DEF out

LEMMA CutStepSame ==
  ASSUME NEW g \in [Batch -> Result], NEW h \in [Batch -> Result], NEW t \in Batch,
         \A u \in Batch : Len(u.records) < Len(t.records) => g[u] = h[u]
  PROVE  CutStep(g, t) = CutStep(h, t)
<1>1. CASE t.records = << >> \/ ~Cut(t)
  BY <1>1 DEF CutStep
<1>2. CASE t.records # << >> /\ Cut(t)
  <2> DEFINE x == FrontBatch(t)
             a == g[x]
             y == BackBatch(t, a.at)
             b == g[y]
  <2>1. x \in Batch /\ Len(x.records) < Len(t.records) /\ Len(BackHalf(t.records)) < Len(t.records)
    BY <1>2, BatchHalves
  <2> HIDE DEF x
  <2>2. a = h[x] /\ a \in Result
    BY <2>1
  <2> HIDE DEF a
  <2>3. a.at \in Progress
    BY <2>2 DEF Result
  <2>4. y \in Batch /\ y.records = BackHalf(t.records)
    BY <1>2, <2>3, BatchHalves
  <2> HIDE DEF y
  <2>5. b = h[y]
    BY <2>1, <2>4
  <2> HIDE DEF b
  <2>6. g[FrontBatch(t)] = a /\ h[FrontBatch(t)] = a /\ g[BackBatch(t, a.at)] = b /\ h[BackBatch(t, a.at)] = b
    BY <2>2, <2>5 DEF x, y, a, b
  <2>7. CutStep(g, t) = [out |-> MergeDelivered(a.out, b.out), at |-> b.at]
    BY <1>2, <2>6 DEF CutStep
  <2>8. CutStep(h, t) = [out |-> MergeDelivered(a.out, b.out), at |-> b.at]
    BY <1>2, <2>6 DEF CutStep
  <2> QED BY <2>7, <2>8
<1> QED BY <1>1, <1>2

LEMMA CutCallIs ==
  /\ deliver_all_within_limit \in [Batch -> Result]
  /\ \A t \in Batch : deliver_all_within_limit[t] = CutStep(deliver_all_within_limit, t)
<1> DEFINE size == [t \in Batch |-> Len(t.records)]
           step == [x \in [Batch -> Result] \X Batch |-> CutStep(x[1], x[2])]
           body(f) == [t \in Batch |-> CutStep(f, t)]
<1>1. \A g \in [Batch -> Result], t \in Batch : step[<<g, t>>] = CutStep(g, t)
  OBVIOUS
<1>2. Recursion(Batch, Result, size, step)
  <2>1. size \in [Batch -> Nat]
    BY BatchFields
  <2>2. step \in [[Batch -> Result] \X Batch -> Result]
    BY CutStepIs
  <2>3. ASSUME NEW g \in [Batch -> Result], NEW h \in [Batch -> Result], NEW t \in Batch,
               \A u \in Batch : size[u] < size[t] => g[u] = h[u]
        PROVE  step[<<g, t>>] = step[<<h, t>>]
    <3>1. \A u \in Batch : Len(u.records) < Len(t.records) => g[u] = h[u]
      BY <2>3
    <3> HIDE DEF step, size
    <3> QED BY <1>1, <3>1, CutStepSame
  <2>4. Result # {}
    <3>1. PICK at : at \in Progress
      BY ProgressSome
    <3>2. [out |-> [ok |-> 0, lost |-> 0], at |-> at] \in Result
      BY <3>1 DEF Result, Outcome
    <3> QED BY <3>2
  <2> HIDE DEF size, step
  <2> QED BY <2>1, <2>2, <2>3, <2>4 DEF Recursion
<1> HIDE DEF size
<1>3. PICK f \in [Batch -> Result] : \A t \in Batch : f[t] = step[<<f, t>>]
  <2> HIDE DEF step
  <2> QED BY <1>2, RecursionExists
<1>4. \E h : h = body(h)
  <2>1. \A t \in Batch : f[t] = CutStep(f, t)
    <3> HIDE DEF step
    <3> QED BY <1>1, <1>3
  <2>2. f = body(f)
    BY <2>1
  <2> QED BY <2>2
<1> DEFINE the == CHOOSE h : h = body(h)
<1>5. the = body(the)
  <2> HIDE DEF body
  <2> QED BY <1>4
<1>6. deliver_all_within_limit = the
  BY DEF deliver_all_within_limit, CutStep, Batch, FrontBatch, BackBatch, WholeTask, Cut, FrontHalf, BackHalf
<1> HIDE DEF the
<1>7. \A t \in Batch : the[t] = CutStep(the, t)
  BY <1>5
<1> HIDE DEF body, step
<1> DEFINE T == {n \in Nat : \A t \in Batch : Len(t.records) = n => the[t] \in Result}
<1>8. ASSUME NEW n \in Nat, \A m \in Nat : m < n => m \in T PROVE n \in T
  <2> SUFFICES ASSUME NEW t \in Batch, Len(t.records) = n PROVE the[t] \in Result
    OBVIOUS
  <2>1. ASSUME NEW u \in Batch, Len(u.records) < Len(t.records) PROVE the[u] \in Result
    <3>1. Len(u.records) \in T
      BY <1>8, <2>1, BatchFields
    <3> QED BY <3>1
  <2>2. CutStep(the, t) \in Result
    <3> HIDE DEF T
    <3> QED BY <2>1, CutStepIs
  <2> QED BY <1>7, <2>2
<1>9. Nat \subseteq T
  <2> HIDE DEF T
  <2> QED BY <1>8, StrongInduct
<1>10. \A t \in Batch : the[t] \in Result
  BY <1>9, BatchFields
<1>11. the \in [Batch -> Result]
  <2>1. the = [t \in Batch |-> the[t]]
    BY <1>5 DEF body
  <2> QED BY <1>10, <2>1
<1> QED BY <1>6, <1>7, <1>11

\* A batch is accounted for.
DeliversAll(t, r) == Lands(t.at, r.at, AllIds(t.records), r.out.ok > 0, r.out.lost > 0, RecordsSolid(t.records))

LEMMA CutStepLaw ==
  ASSUME NEW g \in [Batch -> Result], NEW t \in Batch, t.records # << >>, RecordsSpread(t.records),
         \A u \in Batch : Len(u.records) < Len(t.records) /\ u.records # << >> /\ RecordsSpread(u.records) => DeliversAll(u, g[u])
  PROVE  DeliversAll(t, CutStep(g, t))
<1> DEFINE out == CutStep(g, t)
           solid == RecordsSolid(t.records)
<1>1. t.records \in Seq(Record) /\ Len(t.records) \in Nat /\ t.at \in Progress
  BY BatchFields
<1>2. CASE ~Cut(t)
  <2> DEFINE u == WholeTask(t)
             r == deliver_aggregate[u]
  <2>1. u \in Task /\ u.request = Aggregate(t.records) /\ u.count = Len(t.records) /\ u.at = t.at
    BY WholeTaskIs
  <2>2. Len(t.records) > 0
    BY <1>1, EmptySeq
  <2>3. /\ Ids(u.request) = AllIds(t.records) /\ Spread(u.request)
        /\ solid => Solid(u.request)
    BY <1>1, <2>1, AggregateIs
  <2>4. out = r
    BY <1>2 DEF CutStep
  <2> HIDE DEF u, out
  <2>5. Delivers(u, r)
    BY <2>1, <2>2, <2>3, AggregateCallLaw
  <2> HIDE DEF r
  <2>6. Lands(t.at, r.at, AllIds(t.records), r.out.ok > 0, r.out.lost > 0, Solid(u.request))
    BY <2>1, <2>3, <2>5 DEF Delivers
  <2>7. Lands(t.at, r.at, AllIds(t.records), r.out.ok > 0, r.out.lost > 0, solid)
    <3> HIDE DEF solid
    <3> QED BY <2>3, <2>6, LandsWeaker
  <2> QED BY <2>4, <2>7 DEF DeliversAll, out
<1>3. CASE Cut(t)
  <2> DEFINE x == FrontBatch(t)
             a == g[x]
             y == BackBatch(t, a.at)
             b == g[y]
             f == FrontHalf(t.records)
             k == BackHalf(t.records)
  <2>1. /\ x \in Batch /\ x.records = f /\ x.at = t.at /\ Len(t.records) > 1
        /\ Len(f) < Len(t.records) /\ f # << >> /\ Len(k) < Len(t.records) /\ k # << >>
    BY <1>3, BatchHalves
  <2>2. /\ AllIds(t.records) = AllIds(f) \cup AllIds(k)
        /\ RecordsSpread(f) /\ RecordsSpread(k) /\ AllIds(f) \cap AllIds(k) = {}
        /\ solid => RecordsSolid(f) /\ RecordsSolid(k)
    BY <1>1, <2>1, HalvesRecords
  <2> HIDE DEF x, f, k
  <2>3. DeliversAll(x, a) /\ a \in Result
    BY <2>1, <2>2
  <2> HIDE DEF a
  <2>4. a.out \in Outcome /\ a.at \in Progress
    BY <2>3 DEF Result
  <2>5. y \in Batch /\ y.records = k /\ y.at = a.at
    BY <1>3, <2>4, BatchHalves DEF k
  <2> HIDE DEF y
  <2>6. DeliversAll(y, b) /\ b \in Result
    BY <2>1, <2>2, <2>5
  <2> HIDE DEF b
  <2>7. b.out \in Outcome /\ b.at \in Progress
    BY <2>6 DEF Result
  <2> DEFINE o == MergeDelivered(a.out, b.out)
             ok1 == a.out.ok > 0
             ok2 == b.out.ok > 0
             lost1 == a.out.lost > 0
             lost2 == b.out.lost > 0
  <2>8. out = [out |-> o, at |-> b.at]
    BY <1>3 DEF CutStep, a, b, x, y
  <2>9. (o.ok > 0 <=> ok1 \/ ok2) /\ (o.lost > 0 <=> lost1 \/ lost2)
    <3> HIDE DEF o
    <3> QED BY <2>4, <2>7, HalvesOutcome DEF o
  <2> HIDE DEF o, out
  <2>10. Lands(t.at, a.at, AllIds(f), ok1, lost1, RecordsSolid(f))
    BY <2>1, <2>3 DEF DeliversAll
  <2>11. Lands(a.at, b.at, AllIds(k), ok2, lost2, RecordsSolid(k))
    BY <2>5, <2>6 DEF DeliversAll
  <2> HIDE DEF ok1, ok2, lost1, lost2, solid
  <2>12. Lands(t.at, a.at, AllIds(f), ok1, lost1, solid)
    BY <2>2, <2>10, LandsWeaker
  <2>13. Lands(a.at, b.at, AllIds(k), ok2, lost2, solid)
    BY <2>2, <2>11, LandsWeaker
  <2>14. Lands(t.at, b.at, AllIds(t.records), ok1 \/ ok2, lost1 \/ lost2, solid)
    <3> DEFINE I == AllIds(f)
               J == AllIds(k)
    <3>1. I \cap J = {} /\ AllIds(t.records) = I \cup J
      BY <2>2
    <3>2. Lands(t.at, a.at, I, ok1, lost1, solid) /\ Lands(a.at, b.at, J, ok2, lost2, solid)
      BY <2>12, <2>13
    <3> HIDE DEF I, J
    <3>3. Lands(t.at, b.at, I \cup J, ok1 \/ ok2, lost1 \/ lost2, solid)
      BY <3>1, <3>2, LandsBoth
    <3> QED BY <3>1, <3>3
  <2>15. Lands(t.at, b.at, AllIds(t.records), o.ok > 0, o.lost > 0, solid)
    BY <2>9, <2>14 DEF Lands
  <2> QED BY <2>8, <2>15 DEF DeliversAll, out, solid
<1> QED BY <1>2, <1>3

LEMMA CutCallLaw ==
  \A t \in Batch : t.records # << >> /\ RecordsSpread(t.records) => DeliversAll(t, deliver_all_within_limit[t])
<1> DEFINE law(t) == t.records # << >> /\ RecordsSpread(t.records) => DeliversAll(t, deliver_all_within_limit[t])
           T == {n \in Nat : \A t \in Batch : Len(t.records) = n => law(t)}
<1>1. ASSUME NEW n \in Nat, \A m \in Nat : m < n => m \in T PROVE n \in T
  <2> SUFFICES ASSUME NEW t \in Batch, Len(t.records) = n, t.records # << >>, RecordsSpread(t.records)
               PROVE  DeliversAll(t, deliver_all_within_limit[t])
    OBVIOUS
  <2>1. ASSUME NEW u \in Batch, Len(u.records) < Len(t.records), u.records # << >>, RecordsSpread(u.records)
        PROVE  DeliversAll(u, deliver_all_within_limit[u])
    <3>1. Len(u.records) \in T
      BY <1>1, <2>1, BatchFields
    <3> QED BY <2>1, <3>1
  <2>2. /\ deliver_all_within_limit \in [Batch -> Result]
        /\ deliver_all_within_limit[t] = CutStep(deliver_all_within_limit, t)
    BY CutCallIs
  <2> HIDE DEF T, law
  <2>3. DeliversAll(t, CutStep(deliver_all_within_limit, t))
    BY <2>1, <2>2, CutStepLaw
  <2> QED BY <2>2, <2>3
<1>2. Nat \subseteq T
  <2> HIDE DEF T
  <2> QED BY <1>1, StrongInduct
<1>3. \A t \in Batch : law(t)
  <2> HIDE DEF law
  <2> QED BY <1>2, BatchFields
<1> QED BY <1>3

\* The records of a picked batch: every part has the place it came from as
\* its id.
FlagsAt(shape, i, j) ==
  [k \in DOMAIN shape.assigned[j] |-> [id |-> <<i, j, k>>, size |-> shape.assigned[j][k]]]

RecordAt(shape, i) ==
  [size     |-> shape.size,
   carry    |-> [id |-> <<i, 0, 0>>, size |-> shape.carry],
   assigned |-> [j \in DOMAIN shape.assigned |-> FlagsAt(shape, i, j)]]

LEMMA ShapeFields ==
  ASSUME NEW shape \in Shapes
  PROVE  shape.size \in Nat /\ shape.carry \in Nat /\ shape.assigned \in Seq(Seq(Nat))
<1>1. shape \in [size : Nat, carry : Nat, assigned : Seq(Seq(Nat))]
  BY ShapesAssumption
<1> QED BY <1>1

LEMMA FlagsAtIs ==
  ASSUME NEW shape \in Shapes, NEW i \in Nat, NEW j \in DOMAIN shape.assigned
  PROVE  /\ j \in Nat /\ j # 0
         /\ FlagsAt(shape, i, j) \in Flags /\ Distinct(FlagsAt(shape, i, j))
         /\ \A x \in IdsOf(FlagsAt(shape, i, j)) : x[1] = i /\ x[2] = j
         /\ shape.assigned[j] # << >> => FlagsAt(shape, i, j) # << >>
<1> DEFINE a == shape.assigned[j]
           f == FlagsAt(shape, i, j)
           n == Len(a)
<1>1. shape.assigned \in Seq(Seq(Nat))
  BY ShapeFields
<1>2. j \in Nat /\ j # 0
  <2>1. DOMAIN shape.assigned = 1 .. Len(shape.assigned) /\ Len(shape.assigned) \in Nat
    BY <1>1
  <2> QED BY <2>1
<1>3. a \in Seq(Nat)
  BY <1>1, ElementOfSeq
<1>4. f = [k \in DOMAIN a |-> [id |-> <<i, j, k>>, size |-> a[k]]]
  BY DEF FlagsAt
<1> HIDE DEF a, f
<1>5. n \in Nat /\ DOMAIN a = 1 .. n /\ \A k \in 1 .. n : a[k] \in Nat
  <2>1. n \in Nat /\ DOMAIN a = 1 .. n
    BY <1>3
  <2> HIDE DEF n
  <2> QED BY <1>3, <2>1, ElementOfSeq DEF n
<1> HIDE DEF n
<1>6. DOMAIN f = 1 .. n /\ \A k \in 1 .. n : f[k].id = <<i, j, k>> /\ f[k] = [id |-> <<i, j, k>>, size |-> a[k]]
  BY <1>4, <1>5
<1>7. \A k \in 1 .. n : f[k] \in Part
  <2>1. \A k \in 1 .. n : <<i, j, k>> \in Id
    BY <1>2, <1>5 DEF Id
  <2> QED BY <1>5, <1>6, <2>1 DEF Part
<1>8. f \in Seq(Part)
  <2>1. f = [k \in 1 .. n |-> f[k]]
    BY <1>4, <1>5
  <2>2. f \in [1 .. n -> Part]
    BY <1>7, <2>1
  <2> QED BY <1>5, <2>2
<1>9. Distinct(f)
  BY <1>6 DEF Distinct
<1>10. \A x \in IdsOf(f) : x[1] = i /\ x[2] = j
  BY <1>6 DEF IdsOf
<1>11. a # << >> => f # << >>
  <2>1. a = << >> <=> DOMAIN a = {}
    BY <1>3, EmptySeq
  <2>2. f = << >> <=> DOMAIN f = {}
    BY <1>8, EmptySeq
  <2> QED BY <1>5, <1>6, <2>1, <2>2
<1> QED BY <1>2, <1>8, <1>9, <1>10, <1>11 DEF f, a, Flags

LEMMA RecordAtIs ==
  ASSUME NEW shape \in Shapes, NEW i \in Nat
  PROVE  LET q == RequestOf(RecordAt(shape, i))
         IN  /\ RecordAt(shape, i) \in Record
             /\ Spread(q) /\ \A x \in Ids(q) : x[1] = i
             /\ Filled(shape) => Solid(q)
<1> DEFINE r == RecordAt(shape, i)
           q == RequestOf(r)
           n == Len(shape.assigned)
           c == [id |-> <<i, 0, 0>>, size |-> shape.carry]
           a == [j \in DOMAIN shape.assigned |-> FlagsAt(shape, i, j)]
<1>1. shape.size \in Nat /\ shape.carry \in Nat /\ shape.assigned \in Seq(Seq(Nat))
  BY ShapeFields
<1>2. n \in Nat /\ DOMAIN shape.assigned = 1 .. n
  BY <1>1
<1>3. c \in Part /\ c.id = <<i, 0, 0>> /\ c.size = shape.carry
  <2>1. <<i, 0, 0>> \in Id
    BY DEF Id
  <2> QED BY <1>1, <2>1 DEF Part
<1>4. r = [size |-> shape.size, carry |-> c, assigned |-> a]
  BY DEF RecordAt
<1>5. DOMAIN a = 1 .. n /\ \A j \in 1 .. n : a[j] = FlagsAt(shape, i, j)
  BY <1>2
<1>6. a \in Seq(Flags)
  <2>1. \A j \in DOMAIN shape.assigned : FlagsAt(shape, i, j) \in Flags
    BY FlagsAtIs
  <2>2. a \in [1 .. n -> Flags]
    BY <1>2, <2>1
  <2> HIDE DEF a
  <2> QED BY <1>2, <2>2
<1> HIDE DEF r, c, a, n
<1>7. r \in Record /\ r.carry = c /\ r.assigned = a
  BY <1>1, <1>3, <1>4, <1>6 DEF Record
<1>8. q \in Request /\ q.carry = CarryOf(r) /\ q.assigned = a
  BY <1>7, RequestOfIs
<1> HIDE DEF q
<1>9. \A j \in 1 .. n : /\ j # 0 /\ Distinct(a[j]) /\ (shape.assigned[j] # << >> => a[j] # << >>)
                        /\ \A x \in IdsOf(a[j]) : x[1] = i /\ x[2] = j
  BY <1>2, <1>5, FlagsAtIs
<1>10. Apart(a)
  <2>1. ASSUME NEW j \in 1 .. n, NEW k \in 1 .. n, j # k PROVE IdsOf(a[j]) \cap IdsOf(a[k]) = {}
    BY <1>9, <2>1
  <2> QED BY <1>5, <1>9, <2>1 DEF Apart
<1>11. \A x \in AssignedIds(a) : x[1] = i /\ x[2] # 0
  BY <1>5, <1>9 DEF AssignedIds
<1>12. \A x \in IdsOf(CarryOf(r)) : x[1] = i /\ x[2] = 0
  <2>1. CASE c.size > 0
    <3>1. CarryOf(r) = <<c>>
      BY <1>7, <2>1 DEF CarryOf
    <3>2. \A x \in IdsOf(<<c>>) : x = c.id
      BY DEF IdsOf
    <3> QED BY <1>3, <3>1, <3>2
  <2>2. CASE ~(c.size > 0)
    <3>1. CarryOf(r) = << >>
      BY <1>7, <2>2 DEF CarryOf
    <3> QED BY <3>1 DEF IdsOf
  <2> QED BY <2>1, <2>2
<1>13. Spread(q)
  <2>1. AssignedIds(a) \cap IdsOf(CarryOf(r)) = {}
    BY <1>11, <1>12
  <2> QED BY <1>8, <1>10, <2>1 DEF Spread
<1>14. \A x \in Ids(q) : x[1] = i
  <2>1. Ids(q) = IdsOf(CarryOf(r)) \cup AssignedIds(a)
    BY <1>8, IdsAre
  <2> QED BY <1>11, <1>12, <2>1
<1>15. ASSUME Filled(shape) PROVE Solid(q)
  <2>1. NoneEmpty(a)
    BY <1>2, <1>5, <1>9, <1>15 DEF Filled, NoneEmpty
  <2>2. CASE shape.carry > 0
    <3>1. CarryOf(r) = <<c>>
      BY <1>3, <1>7, <2>2 DEF CarryOf
    <3>2. <<c>> # << >>
      OBVIOUS
    <3> QED BY <1>8, <2>1, <3>1, <3>2 DEF Solid
  <2>3. CASE shape.assigned # << >>
    <3>1. DOMAIN shape.assigned # {}
      <4> DEFINE w == shape.assigned
                 X == Seq(Nat)
      <4>1. w \in Seq(X) /\ w # << >>
        BY <1>1, <2>3
      <4> HIDE DEF w, X
      <4>2. Len(w) # 0
        BY <4>1, EmptySeq
      <4>3. Len(w) \in Nat /\ DOMAIN w = 1 .. Len(w)
        BY <4>1
      <4>4. 1 \in DOMAIN w
        BY <4>2, <4>3
      <4> QED BY <4>4 DEF w
    <3>2. a # << >>
      BY <1>2, <1>5, <1>6, <3>1, EmptySeq
    <3> QED BY <1>8, <2>1, <3>2 DEF Solid
  <2> QED BY <1>15, <2>2, <2>3 DEF Filled
<1> QED BY <1>7, <1>13, <1>14, <1>15 DEF r, q

LEMMA TaggedIs ==
  ASSUME NEW n \in Nat, n # 0, NEW s \in [1 .. n -> Shapes]
  PROVE  /\ Tagged(s) \in Seq(Record) /\ Tagged(s) # << >>
         /\ RecordsSpread(Tagged(s))
         /\ (\A i \in DOMAIN s : Filled(s[i])) => RecordsSolid(Tagged(s))
<1> DEFINE r == Tagged(s)
<1>1. r = [i \in 1 .. n |-> RecordAt(s[i], i)]
  BY DEF Tagged, RecordAt, FlagsAt
<1> HIDE DEF r
<1>2. DOMAIN r = 1 .. n /\ \A i \in 1 .. n : r[i] = RecordAt(s[i], i)
  BY <1>1
<1>3. \A i \in 1 .. n : s[i] \in Shapes /\ i \in Nat
  OBVIOUS
<1>4. \A i \in 1 .. n : /\ r[i] \in Record
                        /\ Spread(RequestOf(r[i])) /\ (\A x \in Ids(RequestOf(r[i])) : x[1] = i)
                        /\ Filled(s[i]) => Solid(RequestOf(r[i]))
  BY <1>2, <1>3, RecordAtIs
<1>5. r \in Seq(Record) /\ r # << >>
  <2>1. r \in [1 .. n -> Record]
    BY <1>1, <1>2, <1>4
  <2>2. r \in Seq(Record)
    BY <2>1
  <2>3. 1 \in DOMAIN r
    BY <1>2
  <2> QED BY <2>2, <2>3, EmptySeq
<1>6. RecordsSpread(r)
  BY <1>2, <1>4 DEF RecordsSpread
<1>7. (\A i \in DOMAIN s : Filled(s[i])) => RecordsSolid(r)
  BY <1>2, <1>4 DEF RecordsSolid
<1> QED BY <1>5, <1>6, <1>7 DEF r

LEMMA SplitLaw == Picked => SplitAccounts
<1> SUFFICES ASSUME Picked, input.law = "split" PROVE SplitAccounts
  BY DEF SplitAccounts
<1> DEFINE s == input.of[1]
           records == Tagged(s)
           at == Unsent(input.of[2])
           t == [records |-> records, at |-> at]
           d == deliver_all_within_limit[t]
           filled == \A i \in DOMAIN s : Filled(s[i])
           ids == Ids(Aggregate(records))
<1>1. s \in Batches /\ input.of[2] \in SUBSET (1 .. MaxPosts)
  BY DEF Picked
<1>2. PICK n \in 1 .. MaxRecords : s \in [1 .. n -> Shapes]
  BY <1>1 DEF Batches
<1>3. n \in Nat /\ n # 0
  BY ShapesAssumption
<1>4. /\ records \in Seq(Record) /\ records # << >> /\ RecordsSpread(records)
      /\ filled => RecordsSolid(records)
  <2> HIDE DEF s
  <2> QED BY <1>2, <1>3, TaggedIs
<1>5. at \in Progress /\ at.landed = {} /\ at.twice = FALSE /\ at.refused = FALSE
  <2>1. input.of[2] \in SUBSET Nat
    <3>1. 1 .. MaxPosts \subseteq Nat
      BY ShapesAssumption
    <3> QED BY <1>1, <3>1
  <2> QED BY <2>1 DEF Unsent, Progress
<1>6. ids = AllIds(records)
  <2> HIDE DEF records
  <2> QED BY <1>4, AggregateIs
<1> HIDE DEF s, records, at, filled, ids
<1>7. t \in Batch /\ t.records = records /\ t.at = at
  BY <1>4, <1>5 DEF Batch
<1> HIDE DEF t
<1>8. DeliversAll(t, d) /\ d \in Result
  BY <1>4, <1>7, CutCallLaw, CutCallIs
<1> HIDE DEF d
<1>9. d.out \in Outcome /\ d.out.ok \in Nat /\ d.out.lost \in Nat
  BY <1>8 DEF Result, Outcome
<1>10. Lands(at, d.at, ids, d.out.ok > 0, d.out.lost > 0, RecordsSolid(records))
  BY <1>6, <1>7, <1>8 DEF DeliversAll
<1>11. PICK S \in SUBSET ids :
         /\ d.at.landed = at.landed \cup S
         /\ at.landed \cap S = {} => d.at.twice = at.twice
         /\ (S # ids => d.out.lost > 0) /\ (S # {} => d.out.ok > 0)
         /\ RecordsSolid(records) => (d.out.lost > 0 => S # ids) /\ (d.out.ok > 0 => S # {})
  BY <1>10 DEF Lands
<1>12. d.at.landed = S /\ d.at.twice = FALSE /\ d.at.refused = FALSE
  <2>1. d.at.refused = at.refused
    BY <1>10 DEF Lands
  <2> QED BY <1>5, <1>11, <2>1
<1>13. /\ d.at.landed # ids => d.out.lost > 0
       /\ d.at.landed # {} => d.out.ok > 0
  BY <1>11, <1>12
<1>14. filled => (d.at.landed = ids => d.out.lost = 0) /\ (d.at.landed = {} => d.out.ok = 0)
  <2>1. filled => RecordsSolid(records)
    BY <1>4
  <2> QED BY <1>9, <1>11, <1>12, <2>1
<1> QED BY <1>12, <1>13, <1>14 DEF SplitAccounts, s, records, at, t, d, filled, ids

(* No assignment is dropped for being one of many or like another: however *)
(* a batch of records is cut and whichever posts fail, what it reports     *)
(* lost or delivered is what did not land or did, no part lands twice and  *)
(* no body is too large (deliver_all_within_limit); a queue is found       *)
(* whenever a shard is up (send_to_any); two assignments have one dedup    *)
(* key only if they are equal (compute_applied_flag_dedup_hash); a mask of *)
(* any length keeps what was marked (DedupResult).  Records, flags,        *)
(* strings, shards and masks may be of any number and length.              *)
THEOREM NothingDroppedCorrect == DataSpec => []NothingDropped
<1>1. Picked => NothingDropped
  BY SplitLaw, ShardsLaw, IdentityLaw, MaskLaw DEF NothingDropped
<1> QED BY <1>1, PickedAlways, PTL

=============================================================================
