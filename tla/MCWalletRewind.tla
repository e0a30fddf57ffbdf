--------------------------- MODULE MCWalletRewind ---------------------------
(***************************************************************************)
(* A small ledger for WalletRewind: a chain g-a1-a2-a3, a fork g-a1-b2.    *)
(*   a1 pays n0 and n1 to alice                                            *)
(*   a2 spends n0 and returns the change n2 to alice                       *)
(*   a3 spends n2                                                          *)
(*   b2 pays y to a stranger, spends n1 and pays n3 to bob                 *)
(***************************************************************************)
EXTENDS WalletRewind

MCBlock == {"g", "a1", "a2", "a3", "b2"}
MCParent == [g |-> "g", a1 |-> "g", a2 |-> "a1", a3 |-> "a2", b2 |-> "a1"]
MCHeight == [g |-> 1, a1 |-> 2, a2 |-> 3, a3 |-> 4, b2 |-> 3]
MCOut == {"n0", "n1", "n2", "n3", "y"}
MCTx == {"t1", "t2", "t3", "t4"}
MCOuts ==
  [g |-> << >>, a1 |-> <<"n0", "n1">>, a2 |-> <<"n2">>, a3 |-> << >>, b2 |-> <<"y", "n3">>]
MCSpends ==
  [g |-> << >>, a1 |-> << >>,
   a2 |-> <<[tx |-> "t2", nf |-> <<"n0", 0>>]>>,
   a3 |-> <<[tx |-> "t3", nf |-> <<"n2", 2>>]>>,
   b2 |-> <<[tx |-> "t4", nf |-> <<"n1", 1>>]>>]
MCIndex == [b \in MCBlock |-> [t \in MCTx |-> 0]]
MCTxOf == [n0 |-> "t1", n1 |-> "t1", n2 |-> "t2", n3 |-> "t4", y |-> "t4"]
MCValue == [n0 |-> 1, n1 |-> 5, n2 |-> 3, n3 |-> 2, y |-> 2]
MCAccount == {"alice", "bob"}
MCOwner == [n0 |-> "alice", n1 |-> "alice", n2 |-> "alice", n3 |-> "bob", y |-> "nobody"]
MCAnc ==
  [g |-> {"g"}, a1 |-> {"g", "a1"}, a2 |-> {"g", "a1", "a2"},
   a3 |-> {"g", "a1", "a2", "a3"}, b2 |-> {"g", "a1", "b2"}]
MCLeaves ==
  [g |-> << >>, a1 |-> <<"n0", "n1">>, a2 |-> <<"n0", "n1", "n2">>,
   a3 |-> <<"n0", "n1", "n2">>, b2 |-> <<"n0", "n1", "y", "n3">>]

(* mixed stays TRUE once it is, and the invariants say nothing then. *)
Unmixed == ~mixed
=============================================================================
