--------------------------- MODULE MCTokenBucket ---------------------------
(***************************************************************************)
(* Instances of TokenBucket for TLC: a handful of bytes per second and a   *)
(* second of three units.                                                  *)
(***************************************************************************)
EXTENDS TokenBucket, TLC

=============================================================================
