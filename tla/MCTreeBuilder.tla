---------------------------- MODULE MCTreeBuilder ----------------------------
(***************************************************************************)
(* Hashes are terms, so two of them are equal only when they hash the same *)
(* nodes at the same depth.  The root of a complete subtree is named by    *)
(* its depth and its index, <<0, i>> being leaf i; any other combination,  *)
(* which a correct builder never makes, stays a triple.                    *)
(***************************************************************************)
EXTENDS TreeBuilder

MCSiblings(d, l, r) ==
  Len(l) = 2 /\ Len(r) = 2 /\ l[1] = d /\ r[1] = d /\ l[2] % 2 = 0 /\ r[2] = l[2] + 1
MCHash(d, l, r) ==
  IF MCSiblings(d, l, r) THEN <<d + 1, l[2] \div 2>> ELSE <<d, l, r>>
MCFull == [d \in 0..MaxDepth |-> [i \in Nat |-> <<d, i>>]]
MCNone == << >>
MCTracked == 0..(MaxLeaves - 1)
=============================================================================
