----------------------------- MODULE MCWarpSync -----------------------------
(***************************************************************************)
(* A small ledger for WarpSync: a chain g-a1-a2-a3-a4, a fork g-a1-b2-b3.  *)
(*   t0, t1 (in a1)    pay n0 and n1 to alice                              *)
(*   t2 (in a2 and b3) spends n0 and n1, returns the change n2 to alice    *)
(*                     and pays n3 to bob; n2 and n3 have other positions, *)
(*                     so other nullifiers, on each chain                  *)
(*   t3 (in a3)        spends the n2 of that chain and pays x to a         *)
(*                     stranger                                            *)
(*   t4 (in b2)        pays y to a stranger                                *)
(*   t5 (in a4)        spends the n3 of that chain and has no output       *)
(***************************************************************************)
EXTENDS WarpSync

MCBlock == {"g", "a1", "a2", "a3", "a4", "b2", "b3"}
MCParent ==
  [g |-> "g", a1 |-> "g", a2 |-> "a1", a3 |-> "a2", a4 |-> "a3", b2 |-> "a1", b3 |-> "b2"]
MCHeight == [g |-> 1, a1 |-> 2, a2 |-> 3, a3 |-> 4, a4 |-> 5, b2 |-> 3, b3 |-> 4]
MCOut == {"n0", "n1", "n2", "n3", "x", "y"}
MCTx == {"t0", "t1", "t2", "t3", "t4", "t5"}
MCOuts ==
  [g |-> << >>, a1 |-> <<"n0", "n1">>, a2 |-> <<"n2", "n3">>, a3 |-> <<"x">>,
   a4 |-> << >>, b2 |-> <<"y">>, b3 |-> <<"n2", "n3">>]
MCSpendOf(t, o, p) == [tx |-> t, nf |-> <<o, p>>]
MCSpends ==
  [g |-> << >>, a1 |-> << >>, b2 |-> << >>,
   a2 |-> <<MCSpendOf("t2", "n0", 0), MCSpendOf("t2", "n1", 1)>>,
   a3 |-> <<MCSpendOf("t3", "n2", 2)>>,
   a4 |-> <<MCSpendOf("t5", "n3", 3)>>,
   b3 |-> <<MCSpendOf("t2", "n0", 0), MCSpendOf("t2", "n1", 1)>>]
MCIndex == [b \in MCBlock |-> [t \in MCTx |-> IF t = "t1" THEN 1 ELSE 0]]
MCTxOf ==
  [n0 |-> "t0", n1 |-> "t1", n2 |-> "t2", n3 |-> "t2", x |-> "t3", y |-> "t4"]
MCValue == [n0 |-> 1, n1 |-> 5, n2 |-> 3, n3 |-> 2, x |-> 2, y |-> 1]
MCAccount == {"alice", "bob"}
MCOwner ==
  [n0 |-> "alice", n1 |-> "alice", n2 |-> "alice", n3 |-> "bob",
   x |-> "nobody", y |-> "nobody"]
MCAnc ==
  [g |-> {"g"}, a1 |-> {"g", "a1"}, a2 |-> {"g", "a1", "a2"},
   a3 |-> {"g", "a1", "a2", "a3"}, a4 |-> {"g", "a1", "a2", "a3", "a4"},
   b2 |-> {"g", "a1", "b2"}, b3 |-> {"g", "a1", "b2", "b3"}]
MCLeaves ==
  [g |-> << >>, a1 |-> <<"n0", "n1">>, a2 |-> <<"n0", "n1", "n2", "n3">>,
   a3 |-> <<"n0", "n1", "n2", "n3", "x">>, a4 |-> <<"n0", "n1", "n2", "n3", "x">>,
   b2 |-> <<"n0", "n1", "y">>, b3 |-> <<"n0", "n1", "y", "n2", "n3">>]
=============================================================================
