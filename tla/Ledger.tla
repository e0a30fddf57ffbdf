------------------------------- MODULE Ledger -------------------------------
(***************************************************************************)
(* The block chain as lightwalletd shows it to the wallet: a tree of       *)
(* blocks rooted at the Sapling activation block.  Every constant here is  *)
(* external data; the wallet reads it through the gRPC calls of chain.rs   *)
(* (get_latest_height, get_block_range) and scan.rs, and never writes it.  *)
(*                                                                         *)
(* A compact block is abstracted to what the wallet tells apart: its       *)
(* parent (prev_hash), its height, the outputs of its transactions in the  *)
(* order in which they enter the note commitment tree, and the nullifiers  *)
(* its transactions reveal.  A nullifier depends on the note AND on its    *)
(* position in the commitment tree, so it is the pair <<note, position>>.  *)
(***************************************************************************)
EXTENDS Integers, Sequences

CONSTANTS
  Block,    \* block hashes, of the best chain and of its forks
  Genesis,  \* the block at the Sapling activation height
  Parent,   \* Parent[b]: CompactBlock.prev_hash
  Height,   \* Height[b]: CompactBlock.height
  Out,      \* note commitments (Sapling outputs)
  Tx,       \* transaction ids
  Outs,     \* Outs[b]: the outputs of block b, in tree order
  Spends,   \* Spends[b]: the spends of block b, in block order
  Index,    \* Index[b][t]: the position of transaction t in block b
  TxOf,     \* TxOf[o]: the transaction that creates output o
  Value,    \* Value[o]: the amount of output o
  Account,  \* the accounts of the wallet
  Owner,    \* Owner[o]: the account that can decrypt o, or Nobody
  Nobody,
  Anc,      \* Anc[b]: b and its ancestors
  Leaves    \* Leaves[b]: the leaves of the commitment tree after block b

(* A Sapling nullifier: rho is derived from the position in the tree. *)
Nf == Out \X Nat

Spend == [tx : Tx, nf : Nf]

ASSUME LedgerTypes ==
  /\ Genesis \in Block
  /\ Parent \in [Block -> Block]
  /\ Height \in [Block -> Nat]
  /\ Outs \in [Block -> Seq(Out)]
  /\ Spends \in [Block -> Seq(Spend)]
  /\ Index \in [Block -> [Tx -> Nat]]
  /\ TxOf \in [Out -> Tx]
  /\ Value \in [Out -> Nat]
  /\ Nobody \notin Account
  /\ Owner \in [Out -> Account \cup {Nobody}]
  /\ Anc \in [Block -> SUBSET Block]
  /\ Leaves \in [Block -> Seq(Out)]

(* The commitment tree is empty up to the activation block, and a block    *)
(* appends its outputs to the tree of its parent.                          *)
ASSUME LedgerTree ==
  /\ Leaves[Genesis] = << >> /\ Outs[Genesis] = << >>
  /\ \A b \in Block \ {Genesis} : Leaves[b] = Leaves[Parent[b]] \o Outs[b]

(* Parent links form a tree rooted at Genesis, graded by the height. *)
ASSUME LedgerAncestry ==
  /\ Anc[Genesis] = {Genesis}
  /\ \A b \in Block \ {Genesis} :
       /\ Height[b] = Height[Parent[b]] + 1
       /\ Anc[b] = Anc[Parent[b]] \cup {b}
  /\ \A b \in Block : Genesis \in Anc[b]
  /\ \A b \in Block : b \in Anc[b]
  /\ \A b \in Block : \A a \in Anc[b] :
       /\ Anc[a] \subseteq Anc[b]
       /\ Height[a] <= Height[b]
       /\ Height[a] = Height[b] => a = b
       /\ \A c \in Anc[b] : a \in Anc[c] \/ c \in Anc[a]

(* The tree only grows along a chain, and an output is created once on it. *)
ASSUME LedgerLeaves ==
  \A b \in Block :
    /\ \A a \in Anc[b] :
         /\ Len(Leaves[a]) <= Len(Leaves[b])
         /\ \A i \in 1..Len(Leaves[a]) : Leaves[b][i] = Leaves[a][i]
    /\ \A i, j \in 1..Len(Leaves[b]) : Leaves[b][i] = Leaves[b][j] => i = j

(* The consensus rules: a note of the chain is spent after the block that  *)
(* creates it (the anchor of a spend is the tree of an earlier block), and *)
(* a chain reveals a nullifier once.  A spend may reveal the nullifier of  *)
(* no note of the chain at all, a dummy.                                   *)
SpendsIn(a) == {Spends[a][i] : i \in 1..Len(Spends[a])}

ASSUME LedgerSpends ==
  /\ Spends[Genesis] = << >>
  /\ \A b \in Block : \A a \in Anc[b] \ {Genesis} : \A s \in SpendsIn(a) :
       s.nf[2] < Len(Leaves[b]) /\ Leaves[b][s.nf[2] + 1] = s.nf[1] =>
         s.nf[2] < Len(Leaves[Parent[a]])
  /\ \A b \in Block : \A a, c \in Anc[b] : \A s \in SpendsIn(a), t \in SpendsIn(c) :
       s.nf = t.nf => a = c

(* A block reveals a nullifier once, and a chain has a transaction in one  *)
(* block: the transactions that create an output of it or spend a note.    *)
TxsIn(a) == {TxOf[Outs[a][i]] : i \in 1..Len(Outs[a])} \cup {s.tx : s \in SpendsIn(a)}

ASSUME LedgerTransactions ==
  /\ \A b \in Block : \A i, j \in 1..Len(Spends[b]) : Spends[b][i].nf = Spends[b][j].nf => i = j
  /\ \A b \in Block : \A a, c \in Anc[b] : TxsIn(a) \cap TxsIn(c) # {} => a = c

(* The blocks after a and up to b, for a \in Anc[b]. *)
Path(a, b) == Anc[b] \ Anc[a]

(* What trial decryption of block b finds: the outputs some account owns. *)
Received(b) ==
  {Outs[b][i] : i \in {j \in 1..Len(Outs[b]) : Owner[Outs[b][j]] \in Account}}

(* The position of output o in the tree of a chain that contains it. *)
Position(o, b) == (CHOOSE i \in 1..Len(Leaves[b]) : Leaves[b][i] = o) - 1
=============================================================================
