-------------------------- MODULE MCResolveLogger ---------------------------
(* ResolveLogger on a small instance.  No symmetry: the run also checks    *)
(* that calls return.                                                      *)
EXTENDS ResolveLogger, TLC

CONSTANTS l1, l2, f1, f2, k1, k2
=============================================================================
