--------------------------- MODULE MCBatchLogger ----------------------------
(* BatchLogger on a small instance: lengths on both sides of the limit.    *)
EXTENDS BatchLogger, TLC
=============================================================================
