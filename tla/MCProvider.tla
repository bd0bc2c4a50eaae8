----------------------------- MODULE MCProvider -----------------------------
(***************************************************************************)
(* The Rust provider for TLC: what each version of the state names as its  *)
(* log destinations, so that an update adds one and the next swaps them.   *)
(***************************************************************************)
EXTENDS Provider

MCDestinations(v) ==
  IF v = 0 THEN <<"Edge">> ELSE IF v = 1 THEN <<"Cloudflare", "Edge">> ELSE <<"Edge", "Cloudflare">>

=============================================================================
