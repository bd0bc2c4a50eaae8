---------------------------- MODULE MCApplyDedup ----------------------------
(***************************************************************************)
(* ApplyDedup for TLC.  The constants of the guest are scaled down but keep *)
(* their order: INTERVAL + CADENCE < TTL (10 s, about 10 s, 120 s), applies *)
(* older than the TTL, more identities than the map holds, and a delta     *)
(* field that saturates before the counters stop.                          *)
(***************************************************************************)
EXTENDS ApplyDedup, TLC

Symmetry == Permutations(Hashes)

=============================================================================
