---------------------------- MODULE TreeBuilder ----------------------------
(***************************************************************************)
(* BlockProcessor and advance_tree (builder.rs): a batch of leaves is      *)
(* merged into the commitment tree, and into the witnesses of all tracked  *)
(* notes, one layer of the tree at a time.  A step of the loop of          *)
(* advance_tree is one action: it collects what the tree and the witnesses *)
(* need of the layer, and combines the layer into the one above it.        *)
(***************************************************************************)
EXTENDS CommitmentTree

CONSTANTS
  Tracked,   \* the positions of the notes of the wallet
  MaxBatch   \* bound: the leaves of one call of add_nodes

ASSUME TreeBuilderConstants == Tracked \subseteq Nat /\ MaxBatch \in Nat \ {0}

VARIABLES
  count,  \* the number of leaves appended so far
  pc,     \* "ready" between calls, "layer" in advance_tree
  bp,     \* BlockProcessor: tree, wits, first
  bld,    \* CTreeBuilder
  row,    \* commitments: the nodes of the current layer
  ws      \* WitnessBuilder, one per witness

vars == <<count, pc, bp, bld, row, ws>>

NewProcessor(t, w) == [tree |-> t, wits |-> w, first |-> TRUE]

NewBuilder(t, len, first) ==
  [left |-> t.left, right |-> t.right, prev |-> t, next |-> EmptyTree,
   start |-> GetPosition(t), total |-> len, depth |-> 0, offset |-> None, first |-> first]

NewWitnessBuilder(b, w, len) ==
  [w |-> w, p |-> w.position,
   inside |-> w.position >= b.start /\ w.position < b.start + len]

Init ==
  /\ count = 0 /\ pc = "ready"
  /\ bp = NewProcessor(EmptyTree, << >>)
  /\ bld = NewBuilder(EmptyTree, 0, TRUE) /\ row = << >> /\ ws = << >>

(* The head of advance_tree *)
Advance(wits, nodes, first) ==
  LET b == NewBuilder(bp.tree, Len(nodes), first)
  IN /\ bld' = b
     /\ row' = nodes
     /\ ws' = [i \in 1..Len(wits) |-> NewWitnessBuilder(b, wits[i], Len(nodes))]
     /\ pc' = "layer"

(* BlockProcessor::add_nodes: k more leaves, and the notes among them.     *)
(* scan.rs calls it once with the leaves of a batch, if there are any.     *)
AddNodes(k) ==
  /\ pc = "ready"
  /\ count + k <= MaxLeaves
  /\ count' = count + k
  /\ LET notes == SelectSeq([i \in 1..k |-> count + i - 1], LAMBDA p : p \in Tracked)
         wits == bp.wits \o [i \in 1..Len(notes) |-> NewWitness(notes[i])]
     IN /\ Advance(wits, [i \in 1..k |-> Full[0][count + i - 1]], bp.first)
        /\ bp' = [bp EXCEPT !.wits = wits]

(* BlockProcessor::finalize: an empty batch moves the cursors, unless no   *)
(* leaf has been added.                                                    *)
Finalize ==
  /\ pc = "ready" /\ ~bp.first
  /\ Advance(bp.wits, << >>, FALSE)
  /\ UNCHANGED <<count, bp>>

-----------------------------------------------------------------------------
(* CTreeBuilder *)

(* CTreeBuilder::get reads a layer behind the node that was left over. *)
Behind(node, nodes) == IF IsSome(node) THEN <<node>> \o nodes ELSE nodes
AdjustedStartAtRow(b, node) == b.start
AdjustedStart(b, node) == IF IsSome(node) THEN b.start - 1 ELSE b.start

LeftOverAlways(b) == b.left
LeftOver(b) == IF IsSome(b.left) /\ ~IsSome(b.right) THEN b.left ELSE None

(* CTreeBuilder::collect: what the new tree keeps of this layer, and the   *)
(* number of nodes that are combined.                                      *)
NextTree(b, nodes) ==
  LET m == Len(nodes) IN
  IF b.total = 0 THEN b.next
  ELSE IF b.depth = 0 THEN
    IF m % 2 = 0 THEN CTree(nodes[m - 1], nodes[m], b.next.parents)
                 ELSE CTree(nodes[m], None, b.next.parents)
  ELSE [b.next EXCEPT !.parents =
          Append(@, IF m % 2 = 0 THEN None ELSE nodes[m])]

CombinedAll(b, m) == IF b.total = 0 THEN 0 ELSE IF m % 2 = 1 THEN m - 1 ELSE m
Combined(b, m) ==
  IF b.total = 0 THEN 0
  ELSE IF m % 2 = 1 THEN m - 1
  ELSE IF b.depth = 0 THEN m - 2 ELSE m

Collect(b, nodes) ==
  [b EXCEPT !.next = NextTree(b, Behind(LeftOver(b), nodes)), !.offset = LeftOver(b)]

CombineLevel(b, nodes, n) ==
  [i \in 1..(n \div 2) |-> Hash(b.depth, nodes[2 * i - 1], nodes[2 * i])]

ParentAt(t, depth) == IF depth < Len(t.parents) THEN t.parents[depth + 1] ELSE None

(* CTreeBuilder::up *)
Up(b) ==
  LET h == IF IsSome(b.left) /\ IsSome(b.right) THEN Hash(b.depth, b.left, b.right) ELSE None
      p == ParentAt(b.prev, b.depth)
  IN [b EXCEPT !.left = IF IsSome(p) THEN p ELSE h,
               !.right = IF IsSome(p) THEN h ELSE None,
               !.start = @ \div 2,
               !.depth = @ + 1]

FinishedAtTop(b) ==
  b.depth = Len(b.prev.parents) /\ ~IsSome(b.left) /\ ~IsSome(b.right)
Finished(b) ==
  b.depth >= Len(b.prev.parents) /\ ~IsSome(b.left) /\ ~IsSome(b.right)

-----------------------------------------------------------------------------
(* WitnessBuilder; b is the tree builder after its collect.                *)

PathNodes(x, b, nodes) ==
  LET line == Behind(b.offset, nodes)
      rp == x.p - AdjustedStart(b, b.offset) + 1
      t == x.w.tree
  IN IF ~x.inside THEN t
     ELSE IF b.depth = 0 THEN
       IF x.p % 2 = 1 THEN CTree(line[rp - 1], line[rp], t.parents)
                      ELSE CTree(line[rp], None, t.parents)
     ELSE IF x.p % 2 = 1 THEN [t EXCEPT !.parents = Append(@, line[rp - 1])]
     ELSE IF x.p # 0 THEN [t EXCEPT !.parents = Append(@, None)]
     ELSE t

BesideAlways(b) == IF b.depth # 0 THEN b.right ELSE None
Beside(b) == IF b.depth # 0 /\ ~b.first THEN b.right ELSE None
HasSibling(x, b, nodes) ==
  x.p + 1 \in AdjustedStart(b, Beside(b))..(b.start + Len(nodes) - 1)
SiblingMissing(t, depth) ==
  IF depth = 0 THEN ~IsSome(t.right)
  ELSE depth > Len(t.parents) \/ ~IsSome(t.parents[depth])

WitnessCollect(x, b, nodes) ==
  LET t == PathNodes(x, b, nodes)
      sibling == Behind(Beside(b), nodes)[x.p + 1 - AdjustedStart(b, Beside(b)) + 1]
      filled == IF HasSibling(x, b, nodes) /\ SiblingMissing(t, b.depth)
                  THEN Append(x.w.filled, sibling) ELSE x.w.filled
  IN [x EXCEPT !.w.tree = t, !.w.filled = filled]

WitnessUp(x) == [x EXCEPT !.p = @ \div 2]

(* WitnessBuilder::finalize: the cursor is the part of the tree below the  *)
(* first bit in which the two positions differ.  (The code reverses 32     *)
(* bits and shifts; the bits above MaxDepth are zero in both.)             *)
CursorBit(final, p) ==
  LET differ == {i \in 0..MaxDepth : Bit(final, i) # Bit(p, i)}
      below == {i \in 0..MaxDepth : i < Max(differ) /\ Bit(final, i) = 1}
  IN IF differ = {} \/ below = {} THEN -1 ELSE Max(below)
Cursor(b, w) ==
  LET bit == CursorBit(GetPosition(b.prev), GetPosition(w.tree) - 1)
  IN IF bit >= 0 THEN CloneTrimmed(b.prev, bit) ELSE EmptyTree

WitnessFinalize(x, b) == IF b.total = 0 THEN [x.w EXCEPT !.cursor = Cursor(b, x.w)] ELSE x.w

-----------------------------------------------------------------------------
(* The loop of advance_tree *)

Layer ==
  /\ pc = "layer" /\ bld.depth <= MaxDepth
  /\ row # << >> \/ ~Finished(bld)
  /\ LET b == Collect(bld, row)
         line == Behind(b.offset, row)
     IN /\ row' = CombineLevel(b, line, Combined(b, Len(line)))
        /\ ws' = [i \in 1..Len(ws) |-> WitnessUp(WitnessCollect(ws[i], b, row))]
        /\ bld' = Up(b)
  /\ UNCHANGED <<count, pc, bp>>

Result == IF bld.total > 0 THEN bld.next ELSE bld.prev
Witnesses == [i \in 1..Len(ws) |-> WitnessFinalize(ws[i], bld)]

(* The tail of advance_tree; after finalize, scan.rs stores the results    *)
(* and the next batch loads them again.  (It loads no spent notes; the     *)
(* witnesses do not depend on each other, so the model keeps them all.)    *)
Return(wits) ==
  /\ pc = "layer"
  /\ row = << >> /\ Finished(bld)
  /\ pc' = "ready"
  /\ bp' = IF bld.total > 0
             THEN [tree |-> Result, wits |-> wits, first |-> FALSE]
             ELSE NewProcessor(Result, [i \in 1..Len(wits) |-> Reload(wits[i])])
  /\ UNCHANGED <<count, bld, row, ws>>

Done == Return(Witnesses)

Next == (\E k \in 1..MaxBatch : AddNodes(k)) \/ Finalize \/ Layer \/ Done

Spec == Init /\ [][Next]_vars

-----------------------------------------------------------------------------
(* Properties *)

(* The assertions of builder.rs hold, no index is out of range and no      *)
(* unsigned subtraction is negative: the code would panic.                 *)
CollectSafe(b, line) ==
  /\ IsSome(b.right) => IsSome(b.left)
  /\ Combined(b, Len(line)) % 2 = 0
  /\ b.start % 2 = 0 \/ IsSome(b.offset)
  /\ IsSome(b.offset) \/ IsSome(Beside(b)) => b.start > 0
PathSafe(x, b, line) ==
  x.inside =>
    LET rp == x.p - AdjustedStart(b, b.offset) + 1
    IN /\ rp >= 1
       /\ b.depth = 0 => rp <= Len(line)
       /\ x.p % 2 = 1 => rp - 1 \in 1..Len(line)
AssertionsHold ==
  pc = "layer" =>
    LET b == Collect(bld, row)
        line == Behind(b.offset, row)
    IN IF row # << >> \/ ~Finished(bld)
         THEN /\ CollectSafe(b, line)
              /\ \A i \in 1..Len(ws) : PathSafe(ws[i], b, line)
         ELSE bld.total = 0 => \A i \in 1..Len(ws) : GetPosition(ws[i].w.tree) # 0

(* Every node of a layer is the root of the complete subtree at its place: *)
(* no node is combined with a neighbour that is not its sibling.           *)
RowExact ==
  pc = "layer" => \A j \in 1..Len(row) : row[j] = Full[bld.depth][bld.start + j - 1]

(* Between calls the tree is the one of all leaves appended so far,        *)
(* however they were cut into batches.                                     *)
TreeExact == pc = "ready" => bp.tree = TreeOf(0, count)

(* After finalize each tracked note has the witness that appending the     *)
(* leaves one at a time gives it.                                          *)
NoteWitnessesExact ==
  pc = "ready" /\ bp.first =>
    /\ {bp.wits[i].position : i \in 1..Len(bp.wits)} = Tracked \cap 0..(count - 1)
    /\ \A i \in 1..Len(bp.wits) : bp.wits[i] = WitnessOf(bp.wits[i].position, count)

(* The loop of advance_tree ends within the height of the tree: MaxDepth   *)
(* layers above the leaves hold all MaxLeaves of them.                     *)
AdvanceReturns ==
  pc = "layer" /\ bld.depth > MaxDepth => row = << >> /\ Finished(bld)
=============================================================================
