---------------------------- MODULE StateLoading ----------------------------
(***************************************************************************)
(* Building the resolver state from what the control plane publishes       *)
(* (confidence-resolver/src: ResolverState in lib.rs, gzip.rs,             *)
(* bloom_filter.rs).                                                       *)
(*                                                                         *)
(* A name is a sequence of characters.  A gzip member is [magic, method,   *)
(* flags, body, crc, isize, size]: body is what inflates, << >> if it does *)
(* not, and the checksum of data is the data.  The long of a bloom filter  *)
(* has LONG bytes of BYTE bits, and a hash HASH values.                    *)
(***************************************************************************)
EXTENDS Integers, Sequences, FiniteSets, SequencesExt

CONSTANTS LONG, BYTE, HASH

ASSUME StateLoadingAssumption == LONG \in Nat \ {0} /\ BYTE \in Nat \ {0} /\ HASH \in Nat /\ HASH > 1

\* Of a member the header is four bytes, then six, and the trailer eight.
\* FHCRC, FEXTRA, FNAME, FCOMMENT and the reserved flags are refused.
decompress_gz(m) ==
  IF /\ m.size >= 18 /\ m.magic /\ m.method = 8
     /\ m.flags \cap {"reserved", "extra", "name", "comment", "crc"} = {}
     /\ m.body # << >>
     /\ m.isize = Len(m.body[1]) /\ m.crc = m.body[1]
  THEN m.body ELSE << >>

-----------------------------------------------------------------------------
\* The bytes (sets of bits) of each whole long are reversed.
BloomFilter_from_proto(packed) ==
  LET whole == Len(packed.data) - (Len(packed.data) % LONG)
  IN  [packed EXCEPT !.data =
         [i \in DOMAIN packed.data |->
            IF i > whole THEN packed.data[i]
            ELSE packed.data[((i - 1) \div LONG) * LONG + LONG - ((i - 1) % LONG)]]]

\* The i-th bit (from 0) of a key: the sum of the hashes wraps around, and
\* its sign is masked away.
BitIndex(key, i, bits) == (((key.h1 + i * key.h2) % HASH) % (HASH \div 2)) % bits

Set(data, bit) ==
  /\ bit \div BYTE < Len(data)
  /\ bit % BYTE \in data[bit \div BYTE + 1]

\* Mutant: the first probe is that of the paper.
might_contain_FromOne(filter, key) ==
  \A i \in 1 .. filter.hashes : Set(filter.data, BitIndex(key, i, filter.bits))

might_contain(filter, key) ==
  \A i \in 0 .. filter.hashes - 1 : Set(filter.data, BitIndex(key, i, filter.bits))

\* External: how Guava sets the bits of keys and writes its longs, the most
\* significant byte first.
GuavaPacked(keys, hashes, bits) ==
  LET on == {BitIndex(k, i, bits) : k \in keys, i \in 0 .. hashes - 1}
  IN  [data |-> [b \in 1 .. bits \div BYTE |->
                   LET long == (b - 1) \div LONG
                       byte == LONG - 1 - ((b - 1) % LONG)
                   IN  {i \in 0 .. BYTE - 1 : (long * LONG + byte) * BYTE + i \in on}],
       hashes |-> hashes, bits |-> bits]

-----------------------------------------------------------------------------
StartsWith(name, prefix) == Len(prefix) <= Len(name) /\ SubSeq(name, 1, Len(prefix)) = prefix

\* Mutant: a credential that is not a secret is entered too.
Owns_Any(client, credential) == TRUE

\* The credentials of a client are the secrets whose name starts with its.
Owns(client, credential) == StartsWith(credential.name, client.name) /\ credential.kind = "secret"

\* The secrets: a credential of several clients goes to the last.
Secrets(clients, credentials) ==
  LET owner(c) == {i \in DOMAIN clients : Owns(clients[i], c)}
      last(c)  == CHOOSE i \in owner(c) : \A j \in owner(c) : j <= i
      owned    == {c \in credentials : owner(c) # {}}
  IN  [s \in {c.secret : c \in owned} |->
         LET c == CHOOSE x \in owned : x.secret = s
         IN  [client |-> clients[last(c)].name, credential |-> c.name, environments |-> c.environments,
              managed |-> clients[last(c)].managed]]

\* Bitsets are [segment, kind, member]: "gz", "full", "empty" (a full one that
\* is false) or "none".  A segment without bitset is allocated in full.
Bitsets(packed) ==
  LET gz == {b \in packed : b.kind = "gz"}
  IN  IF \E b \in packed : b.kind = "empty" \/ (b.kind = "gz" /\ decompress_gz(b.member) = << >>) THEN << >>
      ELSE <<[s \in {b.segment : b \in gz} |-> decompress_gz((CHOOSE b \in gz : b.segment = s).member)[1]]>>

\* Filters of another strategy are left out; one bad bitset fails the whole state.
from_proto(pb) ==
  LET bitsets == Bitsets(pb.bitsets)
      blooms  == {f \in pb.blooms : f.strategy = 1}
  IN  IF bitsets = << >> THEN << >>
      ELSE <<[secrets |-> Secrets(pb.clients, pb.credentials), bitsets |-> bitsets[1],
              blooms |-> [n \in {f.name : f \in blooms} |->
                            BloomFilter_from_proto((CHOOSE f \in blooms : f.name = n).packed)]]>>

\* The client of a secret, << >> if the secret is not known.
get_resolver(state, secret) == IF secret \in DOMAIN state.secrets THEN <<state.secrets[secret]>> ELSE << >>

=============================================================================
