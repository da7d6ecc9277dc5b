--------------------------- MODULE MCXrayRuntime ---------------------------
(***************************************************************************)
(* The instance of XrayRuntime for TLC: three handlers at once, and clients *)
(* of both inbounds.                                                       *)
(***************************************************************************)
EXTENDS XrayRuntime, TLC
=============================================================================
