-------------------------- MODULE MCFlagLogBuffer --------------------------
(* TLC instances of FlagLogBuffer. *)
EXTENDS FlagLogBuffer, TLC

CONSTANTS i1, i2, i3

InvSymmetry == Permutations(Invs)

=============================================================================
