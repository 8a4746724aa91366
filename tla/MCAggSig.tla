------------------------------ MODULE MCAggSig ------------------------------
(***************************************************************************)
(* Values of the constants for model checking both implementations of      *)
(* AggSigDB.                                                               *)
(***************************************************************************)
EXTENDS AggSigImpl, TLC

CONSTANTS d1, a, b, x, y, r1, w1, w2

\* Two sets that differ on the key they have in common.
MCStoreSets == {a :> x @@ b :> x, a :> y}
=============================================================================
