--------------------------- MODULE CommitmentTree ---------------------------
(***************************************************************************)
(* The note commitment tree and the witnesses of commitment.rs, and the    *)
(* closed form of both that the tree builder must arrive at: the ones      *)
(* librustzcash obtains by appending the leaves one at a time.  Payments   *)
(* read them back with librustzcash (db.rs, get_spendable_notes), so they  *)
(* must agree field by field, not only have the same root.                 *)
(*                                                                         *)
(* The Pedersen hash is the uninterpreted operator Hash; Full[d][i] is the *)
(* root of the complete subtree of depth d over the leaves i * 2^d up to   *)
(* (i+1) * 2^d - 1, and Full[0][i] is leaf i itself.                       *)
(***************************************************************************)
EXTENDS Integers, Sequences, SequencesExt, FiniteSetsExt

CONSTANTS
  Hash(_, _, _),  \* pedersen_hash(depth, left, right)
  Full,
  None,           \* Option::None
  MaxDepth,       \* bound: the depth of the tree
  MaxLeaves       \* bound: the number of leaves ever appended

ASSUME TreeBounds == MaxDepth \in Nat /\ MaxLeaves \in 0..(2 ^ MaxDepth)

ASSUME FullSubtrees ==
  /\ \A d \in 0..(MaxDepth - 1) : \A i \in 0..MaxLeaves :
       Full[d + 1][i] = Hash(d, Full[d][2 * i], Full[d][2 * i + 1])
  /\ \A d \in 0..MaxDepth : \A i \in 0..MaxLeaves : Full[d][i] # None

IsSome(x) == x # None
CTree(l, r, ps) == [left |-> l, right |-> r, parents |-> ps]
EmptyTree == CTree(None, None, << >>)

Bit(n, i) == (n \div 2^i) % 2
Ones(S) == MapThenSumSet(LAMBDA i : 2^i, S)

(* CTree::get_position: the number of leaves the tree stands for *)
GetPosition(t) ==
  (IF IsSome(t.left) THEN 1 ELSE 0) + (IF IsSome(t.right) THEN 1 ELSE 0)
    + Ones({i \in 1..Len(t.parents) : IsSome(t.parents[i])})

(* CTree::clone_trimmed: at most one trailing None is removed *)
CloneTrimmed(t, depth) ==
  LET ps == SubSeq(t.parents, 1, Min({depth, Len(t.parents)}))
  IN IF ps # << >> /\ Last(ps) = None
       THEN [t EXCEPT !.parents = SubSeq(ps, 1, Min({depth - 1, Len(ps)}))]
       ELSE [t EXCEPT !.parents = ps]

NewWitness(p) == [position |-> p, tree |-> EmptyTree, filled |-> << >>, cursor |-> EmptyTree]

(* Witness::write, then Witness::read: the position is not stored. *)
Reload(w) == [w EXCEPT !.position = GetPosition(w.tree) - 1]

-----------------------------------------------------------------------------
(* The closed form. *)

BitLength(n) == Min({k \in 0..(MaxDepth + 1) : n < 2^k})

(* The tree of the leaves from `from' up to `to' - 1, when `from' starts a *)
(* complete subtree: the last one or two leaves, and the roots of the      *)
(* complete subtrees before them, one for each one-bit of their number.    *)
TreeOf(from, to) ==
  LET n == to - from
      pairs == (n - 1) \div 2
  IN IF n <= 0 THEN EmptyTree
     ELSE CTree(
       Full[0][from + 2 * pairs],
       IF n % 2 = 0 THEN Full[0][to - 1] ELSE None,
       [k \in 1..BitLength(pairs) |->
          IF Bit(pairs, k - 1) = 1
            THEN Full[k][from \div 2^k + pairs \div 2^(k - 1) - 1]
            ELSE None])

(* The witness of leaf p in the tree of n leaves.  Its Merkle path lacks a *)
(* right sibling at each zero-bit d of p: the complete ones are `filled',  *)
(* the first that is not is the `cursor'.                                  *)
SiblingStart(p, d) == (p \div 2^d + 1) * 2^d
FilledAt(p, n) == {d \in 0..MaxDepth : Bit(p, d) = 0 /\ SiblingStart(p, d) + 2^d <= n}
Growing(p, n) == {d \in 0..MaxDepth : Bit(p, d) = 0 /\ SiblingStart(p, d) < n} \ FilledAt(p, n)

WitnessOf(p, n) ==
  LET levels == SelectSeq([k \in 1..(MaxDepth + 1) |-> k - 1], LAMBDA d : d \in FilledAt(p, n))
  IN [position |-> p,
      tree |-> TreeOf(0, p + 1),
      filled |-> [k \in 1..Len(levels) |-> Full[levels[k]][p \div 2^levels[k] + 1]],
      cursor |-> IF Growing(p, n) = {} THEN EmptyTree
                 ELSE TreeOf(SiblingStart(p, Min(Growing(p, n))), n)]
=============================================================================
