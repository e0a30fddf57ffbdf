---------------------------- MODULE MCTxDetails ----------------------------
(* Four transactions; contact c is in the first three, d in two of them. *)
EXTENDS TxDetails

MCContactsOf == <<{"c"}, {"c", "d"}, {"c"}, {"d"}>>
=============================================================================
