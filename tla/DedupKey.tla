------------------------------ MODULE DedupKey ------------------------------
(***************************************************************************)
(* The identity under which apply events are deduplicated, and the mask of *)
(* those that are kept (confidence-resolver/src/apply_dedup.rs).  A worker *)
(* computes it from the assignment it makes, the queue consumer from the   *)
(* event that assign_logger.rs built of it.                                *)
(*                                                                         *)
(* A key is the sequence of words that enters the hash: mixing 64-bit      *)
(* words is taken to lose nothing.  A string is a sequence of bytes.       *)
(***************************************************************************)
EXTENDS Integers, Sequences, SequencesExt

CONSTANTS
  WORD_BYTES,  \* bytes of a word, 8
  BYTE_BASE,   \* values of a byte, 256
  MASK_BITS    \* bits of a word of the mask, 64

ASSUME DedupKeyAssumption ==
  /\ WORD_BYTES \in Nat \ {0} /\ BYTE_BASE \in Nat \ {0} /\ MASK_BITS \in Nat \ {0}

\* The first byte is the least significant.
LeWord(bytes) ==
  LET word[i \in 0 .. Len(bytes)] ==
        IF i = 0 THEN 0 ELSE word[i - 1] * BYTE_BASE + bytes[Len(bytes) - i + 1]
  IN  word[Len(bytes)]

\* Whole words, and a last one filled up with zeros.
Chunked(bytes) ==
  [i \in 1 .. (Len(bytes) + WORD_BYTES - 1) \div WORD_BYTES |->
     LeWord(SubSeq(bytes, (i - 1) * WORD_BYTES + 1,
                   IF i * WORD_BYTES < Len(bytes) THEN i * WORD_BYTES ELSE Len(bytes)))]

\* Mutant: fields are written one after the other without their lengths.
write_NoLength(bytes) == Chunked(bytes)

\* DedupHasher::write
write(bytes) == <<Len(bytes)>> \o Chunked(bytes)

\* compute_applied_flag_dedup_hash: every field but the apply time.
compute_applied_flag_dedup_hash(a) ==
  FlattenSeq(<<write(a.flag), write(a.targeting_key), write(a.targeting_key_selector), write(a.assignment_id),
               write(a.variant), write(a.segment), write(a.rule), write(<<a.reason>>), <<Len(a.fell)>>>>)
    \o FlattenSeq([i \in DOMAIN a.fell |->
         write(a.fell[i].rule) \o write(a.fell[i].assignment_id) \o write(a.fell[i].targeting_key)
           \o write(a.fell[i].targeting_key_selector)])

-----------------------------------------------------------------------------
\* Values of ResolveReason.
Unspecified == 0
Match == 1
EventReasons == {2, 3, 4} \* NoSegmentMatch, NoTreatmentMatch, FlagArchived

\* build_flag_assigned: a variant with its segment, or the reason of a
\* default, as far as the event has a word for it.
AppliedFlag(a) ==
  [flag |-> a.flag, targeting_key |-> a.targeting_key, targeting_key_selector |-> a.targeting_key_selector,
   assignment_id |-> a.assignment_id, rule |-> a.rule, fell |-> a.fell,
   assignment |-> IF a.variant # << >> THEN [kind |-> "info", variant |-> a.variant, segment |-> a.segment]
                  ELSE [kind |-> "default",
                        reason |-> IF a.reason \in EventReasons THEN a.reason ELSE Unspecified]]

\* AppliedFlagRef of an event.
EventView(e) ==
  LET info == e.assignment.kind = "info"
  IN  [flag |-> e.flag, targeting_key |-> e.targeting_key, targeting_key_selector |-> e.targeting_key_selector,
       assignment_id |-> e.assignment_id, rule |-> e.rule, fell |-> e.fell,
       variant |-> IF info THEN e.assignment.variant ELSE << >>,
       segment |-> IF info THEN e.assignment.segment ELSE << >>,
       reason |-> IF info THEN Match ELSE e.assignment.reason]

-----------------------------------------------------------------------------
\* Mutant: no word for the flags behind the last full one.
DedupResult_Short(len) ==
  [words |-> IF len > MASK_BITS THEN [i \in 1 .. len \div MASK_BITS |-> {}] ELSE << >>,
   small |-> {}, count |-> 0]

\* DedupResult::new: one word, or as many as the flags need; a word is the
\* set of its bits.
DedupResult(len) ==
  [words |-> IF len > MASK_BITS THEN [i \in 1 .. len \div MASK_BITS + 1 |-> {}] ELSE << >>,
   small |-> {}, count |-> 0]

mark(m, idx) ==
  LET w == idx \div MASK_BITS + 1
      bit == idx % MASK_BITS
      counted == [m EXCEPT !.count = @ + 1]
  IN  IF m.words = << >>
      THEN IF idx < MASK_BITS THEN [counted EXCEPT !.small = @ \cup {bit}] ELSE counted
      ELSE IF w <= Len(m.words) THEN [counted EXCEPT !.words[w] = @ \cup {bit}] ELSE counted

is_kept(m, idx) ==
  LET w == idx \div MASK_BITS + 1
      bit == idx % MASK_BITS
  IN  IF m.words = << >> THEN idx < MASK_BITS /\ bit \in m.small
                         ELSE w <= Len(m.words) /\ bit \in m.words[w]

collect(m, flags) ==
  IF m.count = Len(flags) THEN flags
  ELSE LET pick[i \in 0 .. Len(flags)] ==
             IF i = 0 THEN << >>
             ELSE IF is_kept(m, i - 1) THEN Append(pick[i - 1], flags[i]) ELSE pick[i - 1]
       IN  pick[Len(flags)]

=============================================================================
