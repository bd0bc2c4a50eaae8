----------------------------- MODULE ApplyDedup -----------------------------
(***************************************************************************)
(* Deduplication of apply events (confidence-resolver/src/apply_dedup.rs)  *)
(* as the WASM guest runs it (wasm/rust-guest/src/lib.rs): log_assign      *)
(* drops an exposure whose identity is in the `seen` map, the flushes      *)
(* sweep the map by the host's clock, and the log flush reports the        *)
(* counters as deltas against the last snapshot it reported.               *)
(*                                                                         *)
(* The time an entry is stamped with comes from the client: the apply time *)
(* of the request's first flag, corrected for clock skew, which may be     *)
(* long past (a deferred apply) or ahead of the host's clock.  The flags   *)
(* of one request share that time and nothing else, so Apply is the body   *)
(* of the loop over them.  A dedup hash is modelled as the identity it     *)
(* stands for.  While dedup is disabled log_assign leaves this state alone *)
(* and logs everything (module BatchLogger).                               *)
(***************************************************************************)
EXTENDS Integers, FiniteSets

CONSTANTS
  Hashes,        \* identities of apply events
  TTL,           \* ttl_seconds
  MAX_ENTRIES,   \* max_entries
  INTERVAL,      \* SWEEP_MIN_INTERVAL_SECONDS
  U32_MAX,       \* u32::MAX, where a reported delta saturates
  START,         \* the host's clock when the guest is loaded
  BEHIND, AHEAD, \* how far an apply time may be from the host's clock
  CADENCE,       \* seconds within which the host flushes again
  MaxClock,      \* bound: the clock
  MaxApplies     \* bound: applies while dedup is enabled

ASSUME DedupAssumption ==
  /\ IsFiniteSet(Hashes)
  /\ TTL \in Nat \ {0} /\ MAX_ENTRIES \in Nat /\ INTERVAL \in Nat \ {0}
  /\ U32_MAX \in Nat
  /\ START \in Nat /\ INTERVAL <= START /\ BEHIND \in 0 .. START /\ AHEAD \in Nat
  /\ CADENCE \in Nat \ {0}
  /\ MaxClock \in Nat /\ MaxApplies \in Nat

VARIABLES
  enabled,       \* APPLY_DEDUP_ENABLED
  seen,          \* ApplyDedup.seen: the timestamp of each identity, or Absent
  last_sweep,    \* last_sweep_seconds
  count,         \* applies_total, applies_deduped, apply_dedup_overflow, sweeps
  baseline,      \* LAST_DEDUP_SNAPSHOT: counters and map size
  summed,        \* history: the sum of the deltas reported
  clock,         \* the host's clock
  flushed,       \* history: when the host last flushed
  logged         \* history: when an identity last passed the filter, or Absent

dedupVars == <<enabled, seen, last_sweep, count, baseline, summed, clock, flushed, logged>>

Absent   == -1
Counters == {"total", "deduped", "overflow", "sweeps"}
Zero     == [c \in Counters |-> 0]

Size(map) == Cardinality({h \in Hashes : map[h] # Absent})

Later(a, b) == IF a < b THEN b ELSE a

DedupInit ==
  /\ enabled = FALSE
  /\ seen = [h \in Hashes |-> Absent]
  /\ last_sweep = 0
  /\ count = Zero
  /\ baseline = [counters |-> Zero, size |-> 0]
  /\ summed = Zero
  /\ clock = START /\ flushed = START
  /\ logged = [h \in Hashes |-> Absent]

\* set_resolver_state: the provider's option, sent with every state update.
SetResolverState(on) ==
  /\ enabled' = on
  /\ UNCHANGED <<seen, last_sweep, count, baseline, summed, clock, flushed, logged>>

\* Mutant: the client's time is used as it is.
Stamp_NotClamped(applied) == applied

\* An entry is never stamped earlier than the last sweep.
Stamp(applied) == Later(applied, last_sweep)

\* Mutant: the capacity check is off by one.
Apply_OneTooMany(h, applied) ==
  /\ enabled /\ count["total"] < MaxApplies
  /\ \/ /\ seen[h] # Absent
        /\ count' = [count EXCEPT !["total"] = @ + 1, !["deduped"] = @ + 1]
        /\ UNCHANGED <<seen, logged>>
     \/ /\ seen[h] = Absent /\ Size(seen) <= MAX_ENTRIES
        /\ count' = [count EXCEPT !["total"] = @ + 1]
        /\ seen' = [seen EXCEPT ![h] = Stamp(applied)]
        /\ logged' = [logged EXCEPT ![h] = clock]
  /\ UNCHANGED <<enabled, last_sweep, baseline, summed, clock, flushed>>

\* filter_duplicates, check_hash: a known identity is dropped; a new one is
\* remembered if there is room, and logged in any case.
Apply(h, applied) ==
  /\ enabled /\ count["total"] < MaxApplies
  /\ \/ /\ seen[h] # Absent
        /\ count' = [count EXCEPT !["total"] = @ + 1, !["deduped"] = @ + 1]
        /\ UNCHANGED <<seen, logged>>
     \/ /\ seen[h] = Absent /\ Size(seen) < MAX_ENTRIES
        /\ count' = [count EXCEPT !["total"] = @ + 1]
        /\ seen' = [seen EXCEPT ![h] = Stamp(applied)]
        /\ logged' = [logged EXCEPT ![h] = clock]
     \/ /\ seen[h] = Absent /\ Size(seen) >= MAX_ENTRIES
        /\ count' = [count EXCEPT !["total"] = @ + 1, !["overflow"] = @ + 1]
        /\ logged' = [logged EXCEPT ![h] = clock]
        /\ UNCHANGED seen
  /\ UNCHANGED <<enabled, last_sweep, baseline, summed, clock, flushed>>

\* Mutant: sweeps find nothing to drop.
Expired_Never(ts) == FALSE

Expired(ts) == clock - ts >= TTL

\* sweep: at most once per INTERVAL, drop what is older than the TTL.
Sweep ==
  \/ /\ clock - last_sweep < INTERVAL
     /\ UNCHANGED <<seen, last_sweep, count>>
  \/ /\ clock - last_sweep >= INTERVAL
     /\ last_sweep' = clock
     /\ count' = [count EXCEPT !["sweeps"] = @ + 1]
     /\ seen' = [h \in Hashes |->
                  IF seen[h] # Absent /\ Expired(seen[h]) THEN Absent ELSE seen[h]]

\* bounded_flush_assign
FlushAssign ==
  /\ Sweep
  /\ flushed' = clock
  /\ UNCHANGED <<enabled, baseline, summed, clock, logged>>

\* to_proto_delta: counters are 64 bits wide, the delta that is sent 32.
Narrow(d) == IF d <= U32_MAX THEN d ELSE U32_MAX

Delta == [c \in Counters |-> Narrow(count'[c] - baseline.counters[c])]

\* Mutant: sweeps and gauges alone are no reason to report, yet the baseline
\* advances.
Report_OnlyApplies ==
  \/ ~enabled /\ UNCHANGED <<baseline, summed>>
  \/ /\ enabled
     /\ baseline' = [counters |-> count', size |-> Size(seen')]
     /\ summed' = IF Delta["total"] > 0
                    THEN [c \in Counters |-> summed[c] + Delta[c]] ELSE summed

\* delta_to_report after the sweep: the baseline advances with the delta.
Report ==
  \/ ~enabled /\ UNCHANGED <<baseline, summed>>
  \/ /\ enabled
     /\ Size(seen') = baseline.size /\ \A c \in Counters : Delta[c] = 0
     /\ UNCHANGED <<baseline, summed>>
  \/ /\ enabled
     /\ Size(seen') # baseline.size \/ \E c \in Counters : Delta[c] > 0
     /\ baseline' = [counters |-> count', size |-> Size(seen')]
     /\ summed' = [c \in Counters |-> summed[c] + Delta[c]]

\* bounded_flush_logs
FlushLogs ==
  /\ Sweep
  /\ Report
  /\ flushed' = clock
  /\ UNCHANGED <<enabled, clock, logged>>

\* Time passes; the host does not miss its flush interval.
Tick ==
  /\ clock < MaxClock /\ clock < flushed + CADENCE
  /\ clock' = clock + 1
  /\ UNCHANGED <<enabled, seen, last_sweep, count, baseline, summed, flushed, logged>>

DedupNext ==
  \/ \E on \in BOOLEAN : SetResolverState(on)
  \/ \E h \in Hashes, applied \in clock - BEHIND .. clock + AHEAD : Apply(h, applied)
  \/ FlushAssign \/ FlushLogs
  \/ Tick

DedupSpec == DedupInit /\ [][DedupNext]_dedupVars

-----------------------------------------------------------------------------
(* Every variable keeps its type, and the map its capacity.                *)
DedupTypeOK ==
  /\ enabled \in BOOLEAN
  /\ seen \in [Hashes -> Int]
  /\ Size(seen) <= MAX_ENTRIES
  /\ last_sweep \in Nat
  /\ count \in [Counters -> Nat]
  /\ baseline \in [counters : [Counters -> Nat], size : Nat]
  /\ summed \in [Counters -> Nat]
  /\ clock \in Nat /\ flushed \in Nat
  /\ logged \in [Hashes -> Nat \cup {Absent}]

(* An identity is suppressed only if it was logged, and not for long: the  *)
(* TTL, plus the gap that throttled sweeps at the host's flush cadence     *)
(* leave, plus what a client's clock was ahead.  After that its next       *)
(* exposure is logged again.                                               *)
SuppressionBounded ==
  \A h \in Hashes : seen[h] # Absent =>
    /\ logged[h] # Absent
    /\ clock - logged[h] < TTL + INTERVAL + CADENCE + AHEAD

(* The map stays within its capacity, and suppresses only what was logged  *)
(* lately.                                                                 *)
MapSound == DedupTypeOK /\ SuppressionBounded

(* An identity is forgotten no earlier than the TTL less one sweep gap     *)
(* after it was logged, however old the apply time its client sent: the    *)
(* clamp to the last sweep keeps deferred applies deduplicated.  It holds  *)
(* of what is logged once the first sweep has run.                         *)
RememberedLongEnough ==
  [][ \A h \in Hashes :
        seen[h] # Absent /\ seen'[h] = Absent /\ logged[h] > START + CADENCE
          => clock - logged[h] > TTL - INTERVAL - CADENCE ]_dedupVars

(* Counter deltas add up across flushes, whatever is switched on or off    *)
(* and whatever is swept between them: every counter was reported in full, *)
(* or by a delta that shows the largest value the field can carry.         *)
ReportedInFull ==
  \A c \in Counters :
    \/ summed[c] = baseline.counters[c]
    \/ summed[c] < baseline.counters[c] /\ summed[c] >= U32_MAX

=============================================================================
