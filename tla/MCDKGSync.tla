----------------------------- MODULE MCDKGSync -----------------------------
(***************************************************************************)
(* Two nodes, of which one may not fit, with one reset of a stream and one *)
(* node that fails.                                                        *)
(***************************************************************************)
EXTENDS DKGSync
=============================================================================
