----------------------------- MODULE MCPayment -----------------------------
(***************************************************************************)
(* A small chain for Payment: g-a1-a2-a3.                                  *)
(*   t0 (in a1)  pays n0 and n1 to alice                                   *)
(*   t1 (in a2)  pays n2 to alice and y to a stranger                      *)
(*   t2 (in a3)  spends n0 and returns n3 to alice                         *)
(***************************************************************************)
EXTENDS Payment

MCBlock == {"g", "a1", "a2", "a3"}
MCParent == [g |-> "g", a1 |-> "g", a2 |-> "a1", a3 |-> "a2"]
MCHeight == [g |-> 1, a1 |-> 2, a2 |-> 3, a3 |-> 4]
MCOut == {"n0", "n1", "n2", "n3", "y"}
MCTx == {"t0", "t1", "t2"}
MCOuts == [g |-> << >>, a1 |-> <<"n0", "n1">>, a2 |-> <<"y", "n2">>, a3 |-> <<"n3">>]
MCSpends ==
  [g |-> << >>, a1 |-> << >>, a2 |-> << >>, a3 |-> <<[tx |-> "t2", nf |-> <<"n0", 0>>]>>]
MCIndex == [b \in MCBlock |-> [t \in MCTx |-> 0]]
MCTxOf == [n0 |-> "t0", n1 |-> "t0", n2 |-> "t1", y |-> "t1", n3 |-> "t2"]
MCValue == [n0 |-> 3, n1 |-> 1, n2 |-> 2, n3 |-> 1, y |-> 1]
MCOwner ==
  [n0 |-> "alice", n1 |-> "alice", n2 |-> "alice", n3 |-> "alice", y |-> "nobody"]
MCAnc ==
  [g |-> {"g"}, a1 |-> {"g", "a1"}, a2 |-> {"g", "a1", "a2"}, a3 |-> {"g", "a1", "a2", "a3"}]
MCLeaves ==
  [g |-> << >>, a1 |-> <<"n0", "n1">>, a2 |-> <<"n0", "n1", "y", "n2">>,
   a3 |-> <<"n0", "n1", "y", "n2", "n3">>]
=============================================================================
