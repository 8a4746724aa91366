---------------------------- MODULE MCConsensus ----------------------------
(***************************************************************************)
(* One duty for which Propose is called twice, by the fetcher and by a     *)
(* retry of it, and Participate once, with messages of two peers.          *)
(***************************************************************************)
EXTENDS Consensus

MCMessages == {{"a"}, {"b"}}
=============================================================================
