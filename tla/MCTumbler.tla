------------------------------ MODULE MCTumbler ------------------------------
(* A plan of a CoinJoin and a maker session. *)
EXTENDS Tumbler

MCKinds == <<"taker_coinjoin", "maker_session">>
=============================================================================
