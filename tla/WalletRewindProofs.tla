------------------------- MODULE WalletRewindProofs -------------------------
(***************************************************************************)
(* The wallet recovers by a rewind, for every ledger and every bound.      *)
(*                                                                         *)
(* Between a reorganization or a torn batch and the rewind that recovers   *)
(* from it the rows of the database are of two branches, and an id may     *)
(* stand for a note of either.  The invariant therefore says what the rows *)
(* below a height are, for the heights up to which all scanned blocks are  *)
(* on one chain (OneChain): they know of no spend but those the scanned    *)
(* blocks make (SpentInside), the notes of the scanned blocks are among    *)
(* them, and the spends that the scanned blocks make of each other's notes *)
(* are recorded (Holds).  A rewind to such a height cuts the rest off.     *)
(* The witnesses are there for notes above the heights that a rewind or a  *)
(* skip has left out (Witnessed, Carried).                                 *)
(***************************************************************************)
EXTENDS WalletRewind, WarpSyncNotes, WellFoundedInduction

(* Leaf p is one that block a adds. *)
Adds(a, p) == Len(Leaves[Parent[a]]) <= p /\ p < Len(Leaves[a])

(* The row of note n is what the scan of block a stores. *)
MadeIn(n, row, a) ==
  /\ row.height = Height[a] /\ row.nf[1] = OutOf(n) /\ Owner[OutOf(n)] \in Account
  /\ Adds(a, row.nf[2]) /\ Leaves[a][row.nf[2] + 1] = OutOf(n)
Made(table, B) == \A n \in DOMAIN table : \E a \in B : MadeIn(n, table[n], a)

(* Leaf p is one that block a adds and that one of our accounts owns. *)
OwnLeaf(a, p) == Adds(a, p) /\ Owner[Leaves[a][p + 1]] \in Account
IsRowOf(row, a, p) == row.nf = <<Leaves[a][p + 1], p>> /\ row.height = Height[a]

(* Below h the table knows of no spend but of those that blocks of B make, *)
(* has the notes of the blocks of B, and the spends of them in B.          *)
SpentInside(table, B, h) ==
  \A n \in DOMAIN table : table[n].height < h =>
    \/ table[n].spent \in Unspoken
    \/ \E a \in B : table[n].spent = Height[a] /\ table[n].nf \in NfsIn(a)
NotesHeld(table, B, h) ==
  \A a \in B : Height[a] < h =>
    \A p \in Nat : OwnLeaf(a, p) => \E n \in DOMAIN table : IsRowOf(table[n], a, p)
SpendsHeld(table, B, h) ==
  \A n \in DOMAIN table, a \in B, c \in B :
    /\ table[n].height < h /\ Height[a] < h
    /\ MadeIn(n, table[n], c) /\ table[n].nf \in NfsIn(a)
    => table[n].spent \notin Unspoken
Holds(table, B, h) == SpentInside(table, B, h) /\ NotesHeld(table, B, h) /\ SpendsHeld(table, B, h)

(* The same of the part of the blocks of a batch that the scan has passed: *)
(* the first f leaves of the chain, and the nullifiers in seen.            *)
NotesSoFar(table, new, C, h, f) ==
  \A a \in C : Height[a] < h =>
    \A p \in Nat : OwnLeaf(a, p) /\ p < f =>
      \E n \in DOMAIN table : n \in DOMAIN new /\ IsRowOf(table[n], a, p)
SpendsSoFar(table, C, h, seen) ==
  \A n \in DOMAIN table, a \in C :
    /\ table[n].height < h /\ Height[a] < h
    /\ table[n].nf \in NfsIn(a) /\ table[n].nf \in seen
    => table[n].spent \notin Unspoken

(* Below h, known has the nullifiers of the unspent notes. *)
Looks(known, table, h) ==
  /\ \A nf \in DOMAIN known :
       known[nf] \in DOMAIN table /\ (table[known[nf]].height < h => table[known[nf]].nf = nf)
  /\ \A n \in DOMAIN table :
       table[n].height < h /\ table[n].spent \in Unspoken =>
         table[n].nf \in DOMAIN known /\ known[table[n].nf] = n

(* The rows of table are among those of larger; the others are above the   *)
(* synced height.                                                          *)
Grown(table, larger) ==
  /\ \A n \in DOMAIN table :
       n \in DOMAIN larger /\ larger[n].nf = table[n].nf /\ larger[n].height = table[n].height
  /\ \A n \in DOMAIN larger \ DOMAIN table : larger[n].height > SyncedHeight

(* No height up to g that was left out or laid is at or above x. *)
Above(x, g) == \A y \in Gaps \cup laid : y <= g => x > y
Carried(table) ==
  \A n \in DOMAIN table :
    /\ table[n].height <= SyncedHeight /\ Above(table[n].height, SyncedHeight)
    /\ table[n].spent \in Unspoken
    => n \in DOMAIN bwits

-----------------------------------------------------------------------------
(* The inductive invariant *)
Comparable(a, b) == a \in Anc[b] \/ b \in Anc[a]
Chained ==
  /\ laid \subseteq Nat
  /\ \A b \in scanned : b \in Block \ {Genesis} /\ Comparable(b, Synced)
DbRows ==
  /\ Made(notes, scanned) /\ OnePerNf(notes)
  /\ \A h \in Nat : OneChain(scanned, h) => Holds(notes, scanned, h)
DbWatch ==
  Looking => \A h \in Nat : OneChain(scanned, h) => Looks(nfs, notes, h)
Both == scanned \cup BatchBlocks
(* What the rows t, the new notes and the nullifiers of the scan know when *)
(* it has passed f leaves and seen the nullifiers in seen.                 *)
ScanKnows(t, new, known, f, seen) ==
  /\ Made(t, Both) /\ OnePerNf(t) /\ Grown(notes, t) /\ Carried(t)
  /\ \A h \in Nat : OneChain(Both, h) =>
       /\ SpentInside(t, Both, h) /\ NotesHeld(t, scanned, h) /\ SpendsHeld(t, scanned, h)
       /\ NotesSoFar(t, new, BatchBlocks, h, f) /\ SpendsSoFar(t, BatchBlocks, h, seen)
       /\ Looks(known, t, h)
ScanDb == ppc = "scan" => ScanKnows(scan.notes, scan.new, nfs, Passed, Seen)
WrittenDb ==
  Written =>
    /\ BatchBlocks \subseteq scanned /\ Carried(notes)
    /\ \A h \in Nat : OneChain(scanned, h) =>
         NotesSoFar(notes, scan.new, BatchBlocks, h, Len(Leaves[BatchEnd]))
Witnessed ==
  \A g \in DOMAIN blocks, n \in DOMAIN notes :
    /\ notes[n].height <= g /\ Above(notes[n].height, g)
    /\ \A a \in scanned : Height[a] <= g => notes[n].nf \notin NfsIn(a)
    => <<n, g>> \in DOMAIN wits

(* A rewind or a skip runs between two syncs, and what it has fetched is   *)
(* the block of its height.                                                *)
Between ==
  /\ tip \in Block
  /\ pass = 0 => dpc = "none"
  /\ rpc # "idle" => pass = 0
  /\ rheight \in Nat /\ rblock \in Block
  /\ rpc = "tree" => Height[rblock] = rheight

Good ==
  /\ Placing /\ Bounded(DOMAIN blocks) /\ Inside
  /\ Chained /\ DbRows /\ DbWatch /\ ScanDb /\ WrittenDb /\ Witnessed
GInv == Between /\ (mixed \/ Good)

-----------------------------------------------------------------------------
(* The ledger *)

(* A set of numbers has a least one. *)
LEMMA LeastOf ==
  ASSUME NEW S, S \subseteq Nat, S # {}
  PROVE  \E m \in S : \A k \in S : m <= k
<1> DEFINE R == OpToRel(<, Nat)
<1>1. PICK x \in S : TRUE
  OBVIOUS
<1>2. PICK m \in S : \A k \in S : ~ (<<k, m>> \in R)
  <2>1. IsWellFoundedOn(R, Nat)
    BY NatLessThanWellFounded
  <2> HIDE DEF R
  <2> QED BY <1>1, <2>1, WFMin
<1>3. ASSUME NEW k \in S PROVE m <= k
  <2>1. k \in Nat /\ m \in Nat
    OBVIOUS
  <2>2. ~(k < m)
    BY <1>2, <2>1 DEF OpToRel
  <2> QED BY <2>1, <2>2
<1> QED BY <1>3

(* A chain has a block at every height up to that of its end. *)
LEMMA AncestorAt ==
  ASSUME NEW b \in Block, NEW h \in Nat, Height[Genesis] <= h, h <= Height[b]
  PROVE  \E x \in Anc[b] : Height[x] = h
<1> DEFINE S == {Height[x] : x \in {y \in Anc[b] : Height[y] >= h}}
<1>1. S \subseteq Nat /\ S # {}
  <2>1. b \in Anc[b] /\ \A x \in Anc[b] : Height[x] \in Nat
    BY Ancestor, LedgerAncestry
  <2> QED BY <2>1
<1>2. PICK m \in S : \A k \in S : m <= k
  <2> HIDE DEF S
  <2> QED BY <1>1, LeastOf
<1>3. PICK x \in Anc[b] : Height[x] >= h /\ Height[x] = m
  OBVIOUS
<1>4. x \in Block /\ Height[x] \in Nat /\ Height[Genesis] \in Nat
  BY Ancestor, LedgerTypes
<1>5. ASSUME Height[x] # h PROVE FALSE
  <2>1. x # Genesis
    BY <1>3, <1>4, <1>5
  <2>2. Parent[x] \in Anc[b] /\ Parent[x] \in Block /\ Height[x] = Height[Parent[x]] + 1
    BY <1>3, <1>4, <2>1, ParentIsAncestor, Child, Ancestor
  <2>3. Height[Parent[x]] \in Nat
    BY <2>2, LedgerTypes
  <2>4. Height[Parent[x]] >= h
    BY <1>3, <1>4, <1>5, <2>2, <2>3
  <2>5. Height[Parent[x]] \in S
    BY <2>2, <2>4
  <2>6. m <= Height[Parent[x]]
    <3> HIDE DEF S
    <3> QED BY <1>2, <2>5
  <2> QED BY <1>3, <2>2, <2>3, <2>6
<1> QED BY <1>3, <1>5

(* Heights grow from the activation block on. *)
LEMMA HeightTyped ==
  ASSUME NEW b \in Block
  PROVE  /\ Height[b] \in Nat /\ Height[Genesis] \in Nat /\ Height[Genesis] <= Height[b]
         /\ b # Genesis => Height[b] > Height[Genesis]
<1>1. Genesis \in Anc[b] /\ Height[Genesis] \in Nat /\ Height[b] \in Nat
  BY LedgerAncestry, LedgerTypes
<1>2. Height[Genesis] <= Height[b] /\ (Height[Genesis] = Height[b] => Genesis = b)
  BY <1>1, Ancestor
<1> QED BY <1>1, <1>2

(* Two ancestors of a block are comparable. *)
LEMMA OfOneChain ==
  ASSUME NEW c \in Block, NEW a \in Anc[c], NEW b \in Anc[c]
  PROVE  /\ Comparable(a, b) /\ Comparable(b, a)
         /\ Height[a] = Height[b] => a = b
<1>1. Comparable(a, b) /\ Comparable(b, a)
  BY LedgerAncestry DEF Comparable
<1>2. a \in Block /\ b \in Block
  BY Ancestor
<1> QED BY <1>1, <1>2, Ancestor DEF Comparable

(* Comparable blocks have a chain in common. *)
LEMMA CommonChain ==
  ASSUME NEW a \in Block, NEW b \in Block, Comparable(a, b)
  PROVE  \E c \in Block : a \in Anc[c] /\ b \in Anc[c]
  BY LedgerAncestry DEF Comparable

(* A chain creates a leaf in one block and at one place. *)
LEMMA SamePlace ==
  ASSUME NEW a \in Block \ {Genesis}, NEW b \in Block \ {Genesis}, Comparable(a, b),
         NEW p \in Nat, Adds(a, p), NEW q \in Nat, Adds(b, q),
         p = q \/ Leaves[a][p + 1] = Leaves[b][q + 1]
  PROVE  a = b /\ p = q
<1>1. PICK c \in Block : a \in Anc[c] /\ b \in Anc[c]
  BY CommonChain
<1>2. /\ p < Len(Leaves[c]) /\ Leaves[c][p + 1] = Leaves[a][p + 1]
      /\ q < Len(Leaves[c]) /\ Leaves[c][q + 1] = Leaves[b][q + 1]
  BY <1>1, LeafKept DEF Adds
<1>3. p = q
  <2>1. Len(Leaves[c]) \in Nat
    BY CountsTyped
  <2>2. p + 1 \in 1..Len(Leaves[c]) /\ q + 1 \in 1..Len(Leaves[c])
    BY <1>2, <2>1
  <2>3. CASE Leaves[a][p + 1] = Leaves[b][q + 1]
    <3>1. p + 1 = q + 1
      BY <1>2, <2>2, <2>3, LedgerLeaves
    <3> QED BY <3>1
  <2> QED BY <2>3
<1>4. a = b
  BY <1>1, <1>3, OneBlock DEF Adds
<1> QED BY <1>3, <1>4

(* A chain reveals a nullifier in one block. *)
LEMMA RevealedOnce ==
  ASSUME NEW a \in Block, NEW b \in Block, Comparable(a, b), NEW nf, nf \in NfsIn(a), nf \in NfsIn(b)
  PROVE  a = b
<1>1. PICK c \in Block : a \in Anc[c] /\ b \in Anc[c]
  BY CommonChain
<1>2. PICK s \in SpendsIn(a) : nf = s.nf
  BY DEF NfsIn
<1>3. PICK t \in SpendsIn(b) : nf = t.nf
  BY DEF NfsIn
<1> QED BY <1>1, <1>2, <1>3, LedgerSpends

(* A note is spent in a block after the one that creates it. *)
LEMMA SpentLater ==
  ASSUME NEW a \in Block, NEW c \in Block \ {Genesis}, Comparable(a, c), NEW nf, nf \in NfsIn(a),
         nf[2] \in Nat, Adds(c, nf[2]), Leaves[c][nf[2] + 1] = nf[1]
  PROVE  a # Genesis /\ c \in Anc[a] /\ a # c
<1>1. PICK b \in Block : a \in Anc[b] /\ c \in Anc[b]
  BY CommonChain
<1>2. PICK s \in SpendsIn(a) : nf = s.nf
  BY DEF NfsIn
<1>3. a # Genesis
  BY <1>2, LedgerSpends DEF SpendsIn
<1>4. nf[2] < Len(Leaves[b]) /\ Leaves[b][nf[2] + 1] = nf[1]
  BY <1>1, LeafKept DEF Adds
<1>5. nf[2] < Len(Leaves[Parent[a]])
  BY <1>1, <1>2, <1>3, <1>4, LedgerSpends
<1>6. ASSUME a \in Anc[c] PROVE FALSE
  <2>1. Parent[a] \in Block /\ Parent[c] \in Block /\ Parent[a] \in Anc[Parent[c]]
    <3>1. Parent[a] \in Block /\ Parent[a] \in Anc[a] /\ Parent[c] \in Block
          /\ Anc[c] = Anc[Parent[c]] \cup {c} /\ Parent[c] \in Anc[Parent[c]]
      BY <1>3, ParentIsAncestor, Child, LedgerAncestry
    <3>2. CASE a = c
      BY <3>1, <3>2
    <3>3. CASE a # c
      <4>1. a \in Anc[Parent[c]]
        BY <1>6, <3>1, <3>3
      <4> QED BY <3>1, <4>1, Ancestor
    <3> QED BY <3>2, <3>3
  <2>2. Len(Leaves[Parent[a]]) <= Len(Leaves[Parent[c]])
    BY <2>1, LedgerLeaves
  <2>3. Len(Leaves[Parent[a]]) \in Nat /\ Len(Leaves[Parent[c]]) \in Nat
    BY <2>1, CountsTyped
  <2> QED BY <1>5, <2>2, <2>3 DEF Adds
<1> QED BY <1>3, <1>6, LedgerAncestry DEF Comparable

-----------------------------------------------------------------------------
(* Blocks on one chain *)

\* Fewer blocks, and up to a lower height.
LEMMA ChainSmaller ==
  ASSUME NEW B, B \subseteq Block, NEW h \in Nat, OneChain(B, h),
         NEW C, C \subseteq B, NEW k \in Nat, k <= h
  PROVE  OneChain(C, k)
<1> SUFFICES ASSUME NEW a \in C, NEW b \in C, NEW x \in Anc[a], NEW y \in Anc[b],
                    Height[x] = Height[y], Height[x] < k
             PROVE x = y
  BY DEF OneChain
<1>1. a \in B /\ b \in B /\ Height[x] \in Nat
  BY Ancestor
<1>2. Height[x] < h
  BY <1>1
<1> QED BY <1>1, <1>2 DEF OneChain

\* Up to a height above all of them it is up to any height.
LEMMA ChainWhole ==
  ASSUME NEW B, B \subseteq Block, NEW h \in Nat, OneChain(B, h), \A b \in B : Height[b] < h,
         NEW k \in Nat
  PROVE  OneChain(B, k)
<1> SUFFICES ASSUME NEW a \in B, NEW b \in B, NEW x \in Anc[a], NEW y \in Anc[b],
                    Height[x] = Height[y]
             PROVE x = y
  BY DEF OneChain
<1>1. Height[x] <= Height[a] /\ Height[x] \in Nat /\ Height[a] \in Nat /\ Height[a] < h
  BY Ancestor
<1>2. Height[x] < h
  BY <1>1
<1> QED BY <1>2 DEF OneChain

(* Blocks comparable with s are on one chain up to s. *)
LEMMA Straddle ==
  ASSUME NEW B, NEW s \in Block, \A b \in B : b \in Block /\ Comparable(b, s)
  PROVE  OneChain(B, Height[s] + 1)
<1>1. ASSUME NEW b \in B, NEW x \in Anc[b], Height[x] < Height[s] + 1 PROVE x \in Anc[s]
  <2>1. b \in Block /\ Comparable(b, s) /\ x \in Block /\ Height[x] \in Nat /\ Height[s] \in Nat
    BY Ancestor, LedgerTypes
  <2>2. CASE b \in Anc[s]
    BY <2>1, <2>2, Ancestor
  <2>3. CASE s \in Anc[b]
    <3>1. Height[x] <= Height[s]
      BY <1>1, <2>1
    <3> QED BY <2>1, <2>3, <3>1, BelowIsAncestor
  <2> QED BY <2>1, <2>2, <2>3 DEF Comparable
<1> SUFFICES ASSUME NEW a \in B, NEW b \in B, NEW x \in Anc[a], NEW y \in Anc[b],
                    Height[x] = Height[y], Height[x] < Height[s] + 1
             PROVE x = y
  BY DEF OneChain
<1>2. x \in Anc[s] /\ y \in Anc[s]
  BY <1>1
<1> QED BY <1>2, OfOneChain

\* Of two blocks of one chain one is an ancestor of the other.
LEMMA OnOneBranch ==
  ASSUME NEW B, B \subseteq Block, NEW h \in Nat, OneChain(B, h),
         NEW a \in B, NEW b \in B, Height[a] < h \/ Height[b] < h
  PROVE  Comparable(a, b)
<1>1. ASSUME NEW x \in B, NEW y \in B, Height[x] < h, Height[x] <= Height[y]
      PROVE x \in Anc[y]
  <2>1. x \in Block /\ y \in Block /\ Height[x] \in Nat /\ Height[Genesis] <= Height[x]
    BY HeightTyped
  <2>2. PICK z \in Anc[y] : Height[z] = Height[x]
    BY <1>1, <2>1, AncestorAt
  <2>3. x \in Anc[x]
    BY <2>1, LedgerAncestry
  <2>4. x = z
    BY <1>1, <2>2, <2>3 DEF OneChain
  <2> QED BY <2>2, <2>4
<1>2. Height[a] \in Nat /\ Height[b] \in Nat
  BY LedgerTypes
<1>3. CASE Height[a] <= Height[b]
  <2>1. Height[a] < h
    BY <1>2, <1>3
  <2> QED BY <1>1, <1>3, <2>1 DEF Comparable
<1>4. CASE Height[b] <= Height[a]
  <2>1. Height[b] < h
    BY <1>2, <1>4
  <2> QED BY <1>1, <1>4, <2>1 DEF Comparable
<1> QED BY <1>2, <1>3, <1>4

-----------------------------------------------------------------------------
(* The tables *)

(* A scanned block is above the activation block: its height marks a spend. *)
LEMMA HeightSpoken ==
  ASSUME NEW b \in Block \ {Genesis}
  PROVE  Height[b] \notin Unspoken /\ Height[b] \in Nat \ {0}
<1>1. Height[b] \in Nat /\ Height[Genesis] \in Nat /\ Height[b] > Height[Genesis]
  BY HeightTyped
<1>2. Height[b] # 0
  BY <1>1
<1> QED BY <1>1, <1>2, WarpSyncConstants DEF Unspoken

\* The fields of a row.
LEMMA RowTyped ==
  ASSUME NEW t, IsTable(t, NoteId, NoteRow), NEW n \in DOMAIN t
  PROVE  /\ n \in NoteId /\ t[n] \in NoteRow /\ t[n].height \in Nat
         /\ t[n].nf = <<t[n].nf[1], t[n].nf[2]>> /\ t[n].nf[2] \in Nat /\ t[n].nf[1] \in Out
  BY DEF IsTable, NoteRow, Nf

(* Below h, a row of the output or of the position of a leaf is the row of *)
(* that leaf.                                                              *)
LEMMA RowIs ==
  ASSUME NEW t, IsTable(t, NoteId, NoteRow), NEW B, B \subseteq Block \ {Genesis}, Made(t, B),
         NEW h \in Nat, OneChain(B, h), NEW b \in B, NEW p \in Nat, Adds(b, p),
         NEW n \in DOMAIN t, OutOf(n) = Leaves[b][p + 1] \/ t[n].nf[2] = p,
         t[n].height < h \/ Height[b] < h
  PROVE  IsRowOf(t[n], b, p)
<1>1. PICK c \in B : MadeIn(n, t[n], c)
  BY DEF Made
<1>2. t[n].nf = <<t[n].nf[1], t[n].nf[2]>> /\ t[n].nf[2] \in Nat
  BY RowTyped
<1>3. t[n].height = Height[c] /\ Comparable(c, b)
  BY <1>1, OnOneBranch DEF MadeIn
<1>4. Adds(c, t[n].nf[2]) /\ Leaves[c][t[n].nf[2] + 1] = OutOf(n) /\ t[n].nf[1] = OutOf(n)
  BY <1>1 DEF MadeIn
<1>5. c = b /\ t[n].nf[2] = p
  BY <1>2, <1>3, <1>4, SamePlace
<1> QED BY <1>2, <1>3, <1>4, <1>5 DEF IsRowOf

(* u has the rows of t, perhaps with more spends. *)
SameRows(t, u) ==
  /\ DOMAIN u = DOMAIN t
  /\ \A n \in DOMAIN t :
       /\ u[n].nf = t[n].nf /\ u[n].height = t[n].height
       /\ u[n].spent \in Unspoken => t[n].spent \in Unspoken

\* What holds of the rows holds of rows that are the same but for marks taken away.
LEMMA RowsSame ==
  ASSUME NEW t, NEW u, SameRows(t, u)
  PROVE  /\ \A B : Made(t, B) => Made(u, B)
         /\ OnePerNf(t) => OnePerNf(u)
         /\ \A s : Grown(s, t) => Grown(s, u)
         /\ Carried(t) => Carried(u)
         /\ \A B, h : NotesHeld(t, B, h) => NotesHeld(u, B, h)
         /\ \A B, h : SpendsHeld(t, B, h) => SpendsHeld(u, B, h)
         /\ \A new, B, h, f : NotesSoFar(t, new, B, h, f) => NotesSoFar(u, new, B, h, f)
         /\ \A B, h, seen : SpendsSoFar(t, B, h, seen) => SpendsSoFar(u, B, h, seen)
<1>1. \A n \in DOMAIN t : u[n].nf = t[n].nf /\ u[n].height = t[n].height
  BY DEF SameRows
<1>2. DOMAIN u = DOMAIN t
  BY DEF SameRows
<1>3. \A a : \A n \in DOMAIN t : MadeIn(n, u[n], a) <=> MadeIn(n, t[n], a)
  BY <1>1 DEF MadeIn
<1>4. \A a, p : \A n \in DOMAIN t : IsRowOf(u[n], a, p) <=> IsRowOf(t[n], a, p)
  BY <1>1 DEF IsRowOf
<1>5. \A B : Made(t, B) => Made(u, B)
  BY <1>2, <1>3 DEF Made
<1>6. OnePerNf(t) => OnePerNf(u)
  BY <1>1, <1>2 DEF OnePerNf
<1>7. \A s : Grown(s, t) => Grown(s, u)
  BY <1>1, <1>2 DEF Grown
<1>8. Carried(t) => Carried(u)
  BY DEF Carried, SameRows
<1>9. \A B, h : NotesHeld(t, B, h) => NotesHeld(u, B, h)
  BY <1>2, <1>4 DEF NotesHeld
<1>10. \A B, h : SpendsHeld(t, B, h) => SpendsHeld(u, B, h)
  BY <1>3 DEF SpendsHeld, SameRows
<1>11. \A new, B, h, f : NotesSoFar(t, new, B, h, f) => NotesSoFar(u, new, B, h, f)
  BY <1>2, <1>4 DEF NotesSoFar
<1>12. \A B, h, seen : SpendsSoFar(t, B, h, seen) => SpendsSoFar(u, B, h, seen)
  BY DEF SpendsSoFar, SameRows
<1> QED BY <1>5, <1>6, <1>7, <1>8, <1>9, <1>10, <1>11, <1>12

(* A spend that the scan finds among the nullifiers it looks for. *)
LEMMA SpendFound ==
  ASSUME NEW t, NEW u, NEW known, NEW nf, nf \in DOMAIN known, known[nf] \in DOMAIN t,
         NEW b \in Block \ {Genesis}, nf \in NfsIn(b),
         Marked(u, t, known[nf], Height[b]),
         NEW left, left = Restrict(known, DOMAIN known \ {nf})
  PROVE  /\ SameRows(t, u)
         /\ \A h \in Nat : Looks(known, t, h) =>
              /\ Looks(left, u, h)
              /\ \A B : b \in B /\ SpentInside(t, B, h) => SpentInside(u, B, h)
              /\ \A C, seen : SpendsSoFar(t, C, h, seen) => SpendsSoFar(u, C, h, seen \cup {nf})
<1> DEFINE m == known[nf]
<1>1. /\ DOMAIN u = DOMAIN t /\ m \in DOMAIN t
      /\ \A n \in DOMAIN t : u[n].nf = t[n].nf /\ u[n].height = t[n].height
      /\ \A n \in DOMAIN t \ {m} : u[n] = t[n]
      /\ u[m].spent = Height[b]
  BY DEF Marked
<1>2. Height[b] \notin Unspoken
  BY HeightSpoken
<1>3. SameRows(t, u)
  BY <1>1, <1>2 DEF SameRows
<1>4. DOMAIN left = DOMAIN known \ {nf} /\ \A k \in DOMAIN left : left[k] = known[k]
  BY DEF Restrict
<1> HIDE DEF m
<1>5. ASSUME NEW h \in Nat, Looks(known, t, h)
      PROVE  /\ Looks(left, u, h)
             /\ \A B : b \in B /\ SpentInside(t, B, h) => SpentInside(u, B, h)
             /\ \A C, seen : SpendsSoFar(t, C, h, seen) => SpendsSoFar(u, C, h, seen \cup {nf})
  <2>1. /\ \A k \in DOMAIN known :
             known[k] \in DOMAIN t /\ (t[known[k]].height < h => t[known[k]].nf = k)
        /\ \A n \in DOMAIN t : t[n].height < h /\ t[n].spent \in Unspoken =>
             t[n].nf \in DOMAIN known /\ known[t[n].nf] = n
    BY <1>5 DEF Looks
  <2>2. ASSUME NEW n \in DOMAIN t, t[n].height < h, t[n].spent \in Unspoken, t[n].nf = nf
        PROVE n = m
    BY <2>1, <2>2 DEF m
  <2>3. Looks(left, u, h)
    <3>1. ASSUME NEW k \in DOMAIN left
          PROVE left[k] \in DOMAIN u /\ (u[left[k]].height < h => u[left[k]].nf = k)
      BY <1>1, <1>4, <2>1
    <3>2. ASSUME NEW n \in DOMAIN u, u[n].height < h, u[n].spent \in Unspoken
          PROVE u[n].nf \in DOMAIN left /\ left[u[n].nf] = n
      <4>1. n # m /\ n \in DOMAIN t /\ u[n] = t[n]
        BY <1>1, <1>2, <3>2
      <4>2. t[n].nf # nf
        BY <2>2, <3>2, <4>1
      <4> QED BY <1>4, <2>1, <3>2, <4>1, <4>2
    <3> QED BY <3>1, <3>2 DEF Looks
  <2>4. ASSUME NEW B, b \in B, SpentInside(t, B, h) PROVE SpentInside(u, B, h)
    <3> SUFFICES ASSUME NEW n \in DOMAIN u, u[n].height < h
                 PROVE \/ u[n].spent \in Unspoken
                       \/ \E a \in B : u[n].spent = Height[a] /\ u[n].nf \in NfsIn(a)
      BY DEF SpentInside
    <3>1. CASE n = m
      <4>1. u[n].nf = nf
        BY <1>1, <2>1, <3>1 DEF m
      <4> QED BY <1>1, <2>4, <3>1, <4>1
    <3>2. CASE n # m
      BY <1>1, <2>4, <3>2 DEF SpentInside
    <3> QED BY <3>1, <3>2
  <2>5. ASSUME NEW C, NEW seen, SpendsSoFar(t, C, h, seen)
        PROVE SpendsSoFar(u, C, h, seen \cup {nf})
    <3> SUFFICES ASSUME NEW n \in DOMAIN u, NEW a \in C, u[n].height < h, Height[a] < h,
                        u[n].nf \in NfsIn(a), u[n].nf \in seen \cup {nf}, u[n].spent \in Unspoken
                 PROVE FALSE
      BY DEF SpendsSoFar
    <3>1. n # m /\ n \in DOMAIN t /\ u[n] = t[n]
      BY <1>1, <1>2
    <3>2. t[n].nf # nf
      BY <2>2, <3>1
    <3> QED BY <2>5, <3>1, <3>2 DEF SpendsSoFar
  <2> QED BY <2>3, <2>4, <2>5
<1> QED BY <1>3, <1>5

(* A spend that the scan does not look for is of no unspent note.          *)
LEMMA SpendUnknown ==
  ASSUME NEW t, NEW known, NEW nf, nf \notin DOMAIN known, NEW h, Looks(known, t, h),
         NEW C, NEW seen, SpendsSoFar(t, C, h, seen)
  PROVE  SpendsSoFar(t, C, h, seen \cup {nf})
  BY DEF SpendsSoFar, Looks

(* The scan finds the note r of leaf p in block b: u, more and newer are   *)
(* the rows, the nullifiers and the new notes afterwards.                  *)
AddsNote(t, B, b, p, id, r, known, u, more, new, newer) ==
  /\ IsTable(t, NoteId, NoteRow) /\ B \subseteq Block \ {Genesis}
  /\ Made(t, B) /\ OnePerNf(t) /\ b \in B /\ p \in Nat /\ OwnLeaf(b, p)
  /\ OutOf(id) = Leaves[b][p + 1]
  /\ r.nf = <<Leaves[b][p + 1], p>> /\ r.height = Height[b] /\ r.spent = Null
  /\ (\E n \in DOMAIN t : t[n].nf = r.nf) => id \in DOMAIN t
  /\ u = Insert(t, id, r) /\ more = Put(known, r.nf, id)
  /\ DOMAIN newer = DOMAIN new \cup {id}

(* A note that the scan finds: its row is there afterwards.                *)
LEMMA NoteAdded ==
  ASSUME NEW t, NEW B, NEW b, NEW p, NEW id, NEW r, NEW known, NEW u, NEW more, NEW new, NEW newer,
         AddsNote(t, B, b, p, id, r, known, u, more, new, newer)
  PROVE  /\ DOMAIN u = DOMAIN t \cup {id} /\ \A n \in DOMAIN t : u[n] = t[n]
         /\ id \notin DOMAIN t => u[id] = r
         /\ Made(u, B) /\ OnePerNf(u)
         /\ \A h \in Nat : OneChain(B, h) =>
              /\ SpentInside(t, B, h) => SpentInside(u, B, h)
              /\ \A C \in SUBSET B : NotesHeld(t, C, h) =>
                   NotesHeld(u, C, h) /\ (SpendsHeld(t, C, h) => SpendsHeld(u, C, h))
              /\ \A D \in SUBSET B :
                   (\A a \in D : Adds(a, p) => a = b) /\ NotesSoFar(t, new, D, h, p) =>
                     NotesSoFar(u, newer, D, h, p + 1)
              /\ \A D, seen : r.nf \notin seen /\ SpendsSoFar(t, D, h, seen) =>
                   SpendsSoFar(u, D, h, seen)
              /\ Looks(known, t, h) => Looks(more, u, h)
<1>0. /\ IsTable(t, NoteId, NoteRow) /\ B \subseteq Block \ {Genesis}
      /\ Made(t, B) /\ OnePerNf(t) /\ b \in B /\ p \in Nat /\ OwnLeaf(b, p)
      /\ OutOf(id) = Leaves[b][p + 1]
      /\ r.nf = <<Leaves[b][p + 1], p>> /\ r.height = Height[b] /\ r.spent = Null
      /\ (\E n \in DOMAIN t : t[n].nf = r.nf) => id \in DOMAIN t
      /\ u = Insert(t, id, r) /\ more = Put(known, r.nf, id)
      /\ DOMAIN newer = DOMAIN new \cup {id}
  BY DEF AddsNote
<1> USE <1>0
<1>1. /\ DOMAIN u = DOMAIN t \cup {id} /\ \A n \in DOMAIN t : u[n] = t[n]
      /\ id \notin DOMAIN t => u[id] = r
  BY DEF Insert, InsertAll
<1>2. /\ DOMAIN more = DOMAIN known \cup {r.nf} /\ more[r.nf] = id
      /\ \A k \in DOMAIN known \ {r.nf} : more[k] = known[k]
  BY DEF Put, InsertAll
<1>3. r.nf[1] = OutOf(id) /\ r.nf[2] = p /\ Null \in Unspoken /\ Adds(b, p)
      /\ Owner[OutOf(id)] \in Account
  BY DEF Unspoken, OwnLeaf
<1>4. MadeIn(id, r, b) /\ IsRowOf(r, b, p)
  BY <1>3 DEF MadeIn, IsRowOf
<1>5. Made(u, B)
  BY <1>1, <1>4 DEF Made
<1>6. OnePerNf(u)
  BY <1>1 DEF OnePerNf
<1>7. ASSUME NEW h \in Nat, OneChain(B, h), NEW n \in DOMAIN t,
             n = id \/ t[n].nf = r.nf, t[n].height < h \/ Height[b] < h
      PROVE IsRowOf(t[n], b, p)
  <2>1. OutOf(n) = Leaves[b][p + 1] \/ t[n].nf[2] = p
    BY <1>3, <1>7
  <2> QED BY <1>3, <1>7, <2>1, RowIs
<1>8. ASSUME NEW h \in Nat, OneChain(B, h), SpentInside(t, B, h) PROVE SpentInside(u, B, h)
  BY <1>1, <1>3, <1>8 DEF SpentInside
<1>9. ASSUME NEW C, NEW h \in Nat, NotesHeld(t, C, h) PROVE NotesHeld(u, C, h)
  <2> SUFFICES ASSUME NEW a \in C, Height[a] < h, NEW q \in Nat, OwnLeaf(a, q)
               PROVE \E n \in DOMAIN u : IsRowOf(u[n], a, q)
    BY DEF NotesHeld
  <2>1. PICK n \in DOMAIN t : IsRowOf(t[n], a, q)
    BY <1>9 DEF NotesHeld
  <2> QED BY <1>1, <2>1
<1>10. ASSUME NEW h \in Nat, OneChain(B, h), NEW C \in SUBSET B, NotesHeld(t, C, h),
              SpendsHeld(t, C, h)
       PROVE SpendsHeld(u, C, h)
  <2> SUFFICES ASSUME NEW n \in DOMAIN u, NEW a \in C, NEW c \in C, u[n].height < h,
                      Height[a] < h, MadeIn(n, u[n], c), u[n].nf \in NfsIn(a)
               PROVE u[n].spent \notin Unspoken
    BY DEF SpendsHeld
  <2>1. CASE n \in DOMAIN t
    BY <1>1, <1>10, <2>1 DEF SpendsHeld
  <2>2. CASE n \notin DOMAIN t
    <3>1. n = id /\ u[n] = r /\ id \notin DOMAIN t
      BY <1>1, <2>2
    <3>2. Height[c] = Height[b] /\ Height[b] < h
      BY <3>1 DEF MadeIn
    <3>3. c = b
      <4>1. Comparable(c, b)
        BY <1>10, <3>2, OnOneBranch
      <4>2. Adds(c, p)
        BY <1>3, <3>1 DEF MadeIn
      <4> QED BY <1>3, <4>1, <4>2, SamePlace
    <3>4. PICK m \in DOMAIN t : IsRowOf(t[m], b, p)
      BY <1>10, <3>2, <3>3 DEF NotesHeld
    <3>5. t[m].nf = r.nf
      BY <3>4 DEF IsRowOf
    <3> QED BY <3>1, <3>5
  <2> QED BY <2>1, <2>2
<1>11. ASSUME NEW h \in Nat, OneChain(B, h), NEW D \in SUBSET B,
              \A a \in D : Adds(a, p) => a = b, NotesSoFar(t, new, D, h, p)
       PROVE NotesSoFar(u, newer, D, h, p + 1)
  <2> SUFFICES ASSUME NEW a \in D, Height[a] < h, NEW q \in Nat, OwnLeaf(a, q), q < p + 1
               PROVE \E n \in DOMAIN u : n \in DOMAIN newer /\ IsRowOf(u[n], a, q)
    BY DEF NotesSoFar
  <2>1. CASE q < p
    <3>1. PICK n \in DOMAIN t : n \in DOMAIN new /\ IsRowOf(t[n], a, q)
      BY <1>11, <2>1 DEF NotesSoFar
    <3> QED BY <1>1, <3>1
  <2>2. CASE q = p
    <3>1. a = b
      BY <1>11, <2>2 DEF OwnLeaf
    <3>2. IsRowOf(u[id], b, p)
      <4>1. CASE id \in DOMAIN t
        BY <1>1, <1>7, <1>11, <3>1, <4>1
      <4>2. CASE id \notin DOMAIN t
        BY <1>1, <1>4, <4>2
      <4> QED BY <4>1, <4>2
    <3> QED BY <1>1, <2>2, <3>1, <3>2
  <2> QED BY <2>1, <2>2
<1>12. ASSUME NEW h \in Nat, NEW D, NEW seen, r.nf \notin seen, SpendsSoFar(t, D, h, seen)
       PROVE SpendsSoFar(u, D, h, seen)
  BY <1>1, <1>12 DEF SpendsSoFar
<1>13. ASSUME NEW h \in Nat, OneChain(B, h), Looks(known, t, h) PROVE Looks(more, u, h)
  <2>1. ASSUME NEW k \in DOMAIN more
        PROVE more[k] \in DOMAIN u /\ (u[more[k]].height < h => u[more[k]].nf = k)
    <3>1. CASE k = r.nf
      <4>1. CASE id \in DOMAIN t
        <5>1. t[id].height < h => t[id].nf = r.nf
          BY <1>7, <1>13, <4>1 DEF IsRowOf
        <5> QED BY <1>1, <1>2, <3>1, <4>1, <5>1
      <4>2. CASE id \notin DOMAIN t
        BY <1>1, <1>2, <3>1, <4>2
      <4> QED BY <4>1, <4>2
    <3>2. CASE k # r.nf
      BY <1>1, <1>2, <1>13, <3>2 DEF Looks
    <3> QED BY <3>1, <3>2
  <2>2. ASSUME NEW n \in DOMAIN u, u[n].height < h, u[n].spent \in Unspoken
        PROVE u[n].nf \in DOMAIN more /\ more[u[n].nf] = n
    <3>1. CASE n \notin DOMAIN t
      BY <1>1, <1>2, <3>1
    <3>2. CASE n \in DOMAIN t /\ t[n].nf # r.nf
      BY <1>1, <1>2, <1>13, <2>2, <3>2 DEF Looks
    <3>3. CASE n \in DOMAIN t /\ t[n].nf = r.nf
      <4>1. IsRowOf(t[n], b, p)
        BY <1>1, <1>7, <1>13, <2>2, <3>3
      <4>2. Height[b] < h
        BY <1>1, <2>2, <3>3, <4>1 DEF IsRowOf
      <4>3. id \in DOMAIN t
        BY <3>3
      <4>4. IsRowOf(t[id], b, p)
        BY <1>7, <1>13, <4>2, <4>3
      <4>5. n = id
        BY <3>3, <4>1, <4>3, <4>4 DEF IsRowOf, OnePerNf
      <4> QED BY <1>1, <1>2, <3>3, <4>5
    <3> QED BY <3>1, <3>2, <3>3
  <2> QED BY <2>1, <2>2 DEF Looks
<1>14. ASSUME NEW h \in Nat, OneChain(B, h)
       PROVE
              /\ SpentInside(t, B, h) => SpentInside(u, B, h)
              /\ \A C \in SUBSET B : NotesHeld(t, C, h) =>
                   NotesHeld(u, C, h) /\ (SpendsHeld(t, C, h) => SpendsHeld(u, C, h))
              /\ \A D \in SUBSET B :
                   (\A a \in D : Adds(a, p) => a = b) /\ NotesSoFar(t, new, D, h, p) =>
                     NotesSoFar(u, newer, D, h, p + 1)
              /\ \A D, seen : r.nf \notin seen /\ SpendsSoFar(t, D, h, seen) =>
                   SpendsSoFar(u, D, h, seen)
              /\ Looks(known, t, h) => Looks(more, u, h)
  BY <1>8, <1>9, <1>10, <1>11, <1>12, <1>13, <1>14
<1> QED BY <1>1, <1>5, <1>6, <1>14


-----------------------------------------------------------------------------
(* The blocks of the batch *)

(* The blocks of a batch are above the synced block, on one chain with it. *)
LEMMA BatchPlaces ==
  ASSUME IInv, ppc \in {"load", "scan", "details", "store"}
  PROVE  /\ Synced \in Block /\ Height[Synced] = SyncedHeight /\ SyncedHeight \in Nat
         /\ BatchEnd \in Block /\ Synced \in Anc[BatchEnd] /\ BatchEnd \in BatchBlocks
         /\ \A b \in BatchBlocks :
              /\ b \in Block \ {Genesis} /\ b \in Anc[BatchEnd] /\ Comparable(b, Synced)
              /\ Synced \in Anc[b] /\ Synced \in Anc[Parent[b]] /\ Height[b] > SyncedHeight
<1> DEFINE s == batch.blocks
           n == Len(s)
<1>1. /\ Follows(batch, Synced) /\ batch \in Batch /\ s # << >>
      /\ Synced \in Block /\ BatchEnd \in Block
      /\ Height[Synced] = SyncedHeight /\ SyncedHeight \in Nat
  <2>1. TInv /\ CheckpointsExact /\ PipelineLinked
    BY DEF IInv
  <2>2. Synced \in Block /\ Height[Synced] = SyncedHeight /\ SyncedHeight \in Nat
    BY <2>1, SyncedExact, SyncedTyped DEF TInv
  <2> QED BY <2>1, <2>2, AllEndsTyped DEF TInv, BatchShape, InBatch, PipelineLinked
<1>2. s \in Seq(Block)
  BY <1>1 DEF Batch
<1>3. n \in Nat \ {0} /\ \A i \in 1..n : s[i] \in Block
  BY <1>1, <1>2
<1>4. /\ BatchEnd = s[n] /\ Synced \in Anc[BatchEnd]
      /\ \A i \in 1..n : /\ Parent[s[i]] = IF i = 1 THEN Synced ELSE s[i - 1]
                         /\ s[i] # Genesis /\ s[i] \in Anc[BatchEnd]
  BY <1>1 DEF Follows, BatchEnd, EndOf, LastOf
<1> HIDE DEF s, n
<1>5. ASSUME NEW i \in 1..n PROVE Synced \in Anc[Parent[s[i]]]
  <2> DEFINE S == {j \in 1..n : Synced \notin Anc[Parent[s[j]]]}
  <2> SUFFICES ASSUME S # {} PROVE FALSE
    OBVIOUS
  <2>1. S \subseteq Nat
    BY <1>3
  <2>2. PICK m \in S : \A k \in S : m <= k
    <3> HIDE DEF S
    <3> QED BY <2>1, LeastOf
  <2>3. m \in 1..n /\ m \in Nat
    BY <2>1
  <2>4. m # 1
    BY <1>1, <1>4, <2>3, LedgerAncestry
  <2>5. m - 1 \in 1..n /\ ~(m <= m - 1)
    BY <1>3, <2>3, <2>4
  <2>6. Synced \in Anc[Parent[s[m - 1]]]
    <3>1. m - 1 \notin S
      <4> HIDE DEF S
      <4> QED BY <2>2, <2>5
    <3> QED BY <2>5, <3>1
  <2>7. Synced \in Anc[s[m - 1]]
    BY <1>3, <1>4, <2>5, <2>6, ParentIsAncestor
  <2>8. Parent[s[m]] = s[m - 1]
    BY <1>4, <2>3, <2>4
  <2> QED BY <2>2, <2>7, <2>8
<1>6. BatchBlocks = {s[i] : i \in 1..n}
  BY DEF BatchBlocks, s, n
<1>7. n \in 1..n
  BY <1>3
<1>8. ASSUME NEW b \in BatchBlocks
      PROVE /\ b \in Block \ {Genesis} /\ b \in Anc[BatchEnd] /\ Synced \in Anc[Parent[b]]
            /\ Synced \in Anc[b] /\ Height[b] > SyncedHeight /\ Comparable(b, Synced)
  <2>1. PICK i \in 1..n : b = s[i]
    BY <1>6
  <2>2. b \in Block \ {Genesis} /\ b \in Anc[BatchEnd] /\ Synced \in Anc[Parent[b]]
    BY <1>3, <1>4, <1>5, <2>1
  <2>3. Parent[b] \in Block /\ Height[b] = Height[Parent[b]] + 1 /\ Anc[Parent[b]] \subseteq Anc[b]
    BY <2>2, ParentIsAncestor, Child
  <2>4. Height[Parent[b]] \in Nat /\ Height[Synced] <= Height[Parent[b]]
    BY <2>2, <2>3, Ancestor
  <2>5. Height[b] > SyncedHeight
    BY <1>1, <2>3, <2>4
  <2> QED BY <2>2, <2>3, <2>5 DEF Comparable
<1> QED BY <1>1, <1>4, <1>6, <1>7, <1>8

(* No height is below 0. *)
LEMMA NoneBelow ==
  ASSUME NEW B, B \subseteq Block
  PROVE  OneChain(B, 0)
<1> SUFFICES ASSUME NEW a \in B, NEW x \in Anc[a], Height[x] < 0 PROVE FALSE
  BY DEF OneChain
<1>1. Height[x] \in Nat
  BY Ancestor
<1> QED BY <1>1

\* Where the wallet stands.
LEMMA SyncedPlace ==
  ASSUME IInv
  PROVE  Synced \in Block /\ Height[Synced] = SyncedHeight /\ SyncedHeight \in Nat
  BY SyncedExact, SyncedTyped DEF IInv, TInv

(* What the scan works on. *)
LEMMA ScanBase ==
  ASSUME Good, ppc = "scan"
  PROVE  /\ IInv /\ ScanPlace /\ Placing
         /\ ScanKnows(scan.notes, scan.new, nfs, Passed, Seen)
         /\ Both \subseteq Block \ {Genesis} /\ \A b \in Both : Comparable(b, Synced)
         /\ scanned \subseteq Both /\ BatchBlocks \subseteq Both
         /\ IsTable(scan.notes, NoteId, NoteRow)
<1>1. IInv /\ ScanPlace /\ Placing
  BY DEF Good, Placing
<1>2. ScanKnows(scan.notes, scan.new, nfs, Passed, Seen)
  BY DEF Good, ScanDb
<1>3. Both \subseteq Block \ {Genesis} /\ \A b \in Both : Comparable(b, Synced)
  BY <1>1, BatchPlaces DEF Both, Good, Chained
<1>4. IsTable(scan.notes, NoteId, NoteRow)
  BY <1>1 DEF IInv, TInv, TypeOK, ScanTypes
<1> QED BY <1>1, <1>2, <1>3, <1>4 DEF Both

(* The scan is in a block of the batch. *)
LEMMA AtInBatch ==
  ASSUME IInv, ppc = "scan", ScanPlace, InBlock
  PROVE  At \in BatchBlocks /\ NSpends(At) \in Nat /\ NOuts(At) \in Nat /\ scan.cur \in Nat \ {0}
<1>1. scan.blk \in 1..(Len(batch.blocks) + 1) /\ Len(batch.blocks) \in Nat
  <2>1. batch \in Batch
    BY AllEndsTyped
  <2> QED BY <2>1 DEF ScanPlace, Batch
<1>2. scan.blk \in 1..Len(batch.blocks)
  BY <1>1 DEF InBlock
<1>3. At \in BatchBlocks
  BY <1>2 DEF At, BatchBlocks
<1> QED BY <1>3, ScanIsAt, CountsTyped DEF ScanPlace

(* What a step of the scan brings about. *)
LEMMA ScanKnowsAfter ==
  ASSUME UNCHANGED <<blocks, notes, batch, bwits, scanned, laid>>,
         NEW f, NEW seen, ScanKnows(scan'.notes, scan'.new, nfs', f, seen),
         Passed' = f, Seen' = seen
  PROVE  ScanDb'
<1>1. SyncedHeight' = SyncedHeight
  BY SyncedKept
<1>2. BatchBlocks' = BatchBlocks
  BY DEF BatchBlocks
<1>3. Both' = Both /\ Gaps' = Gaps
  BY <1>1, <1>2 DEF Both, Gaps
<1>4. Carried(scan'.notes) => Carried(scan.notes)'
  BY <1>1, <1>3 DEF Carried, Above
<1>5. Grown(notes, scan'.notes) => Grown(notes, scan.notes)'
  BY <1>1 DEF Grown
<1>6. Made(scan'.notes, Both) => Made(scan.notes, Both)'
  BY <1>3 DEF Made
<1> QED BY <1>2, <1>3, <1>4, <1>5, <1>6 DEF ScanDb, ScanKnows

-----------------------------------------------------------------------------
(* The steps of the scan *)

(* A spend of a block: of a note that the scan looks for, or of none.      *)
LEMMA SpendScanned ==
  ASSUME Good, ScanSpend, UNCHANGED <<scanned, laid>>
  PROVE  ScanDb'
<1>0. PICK b \in Block :
        /\ Scanning(b) /\ scan.cur \in 1..NSpends(b)
        /\ LET nf == Spends[b][scan.cur].nf IN
           IF nf \in DOMAIN nfs
             THEN /\ scan' = [scan EXCEPT !.cur = @ + 1, !.mine = @ \cup {nf},
                        !.notes = [n \in DOMAIN @ |->
                           IF n = nfs[nf] THEN [@[n] EXCEPT !.spent = Height[b]] ELSE @[n]]]
                  /\ nfs' = Restrict(nfs, DOMAIN nfs \ {nf})
             ELSE scan' = [scan EXCEPT !.cur = @ + 1] /\ UNCHANGED nfs
  BY DEF ScanSpend
<1> DEFINE nf == Spends[b][scan.cur].nf
           t == scan.notes
           u == [n \in DOMAIN t |-> IF n = nfs[nf] THEN [t[n] EXCEPT !.spent = Height[b]] ELSE t[n]]
<1>1. ppc = "scan" /\ InBlock /\ b = At /\ Placing /\ ScanItem
  BY <1>0 DEF Scanning, InBlock, At, Good, ScanItem
<1>2. /\ IInv /\ ScanPlace /\ ScanKnows(t, scan.new, nfs, Passed, Seen)
      /\ Both \subseteq Block \ {Genesis} /\ BatchBlocks \subseteq Both /\ scanned \subseteq Both
      /\ IsTable(t, NoteId, NoteRow)
  BY <1>1, ScanBase
<1>3. At \in BatchBlocks /\ NSpends(At) \in Nat /\ NOuts(At) \in Nat
  BY <1>1, <1>2, AtInBatch
<1>4. /\ UNCHANGED <<blocks, notes, batch, bwits>> /\ Passed' = Passed /\ Seen' = Seen \cup {nf}
      /\ scan = [blk |-> scan.blk, cur |-> scan.cur, pos |-> scan.pos, mine |-> scan.mine,
                 found |-> scan.found, new |-> scan.new, notes |-> scan.notes,
                 txs |-> scan.txs]
  <2>1. ~AtOutput(At) /\ ~AtDebit(At)
    BY <1>0, <1>1, <1>3 DEF AtOutput, AtDebit
  <2> QED BY <1>1, <2>1, ScanMoves
<1>5. b \in Both /\ b \in Block \ {Genesis} /\ nf \in NfsIn(b)
  <2>1. Spends[b][scan.cur] \in SpendsIn(b)
    BY <1>0 DEF SpendsIn, NSpends
  <2> QED BY <1>1, <1>2, <1>3, <2>1 DEF NfsIn
<1>6. CASE nf \in DOMAIN nfs
  <2> DEFINE left == Restrict(nfs, DOMAIN nfs \ {nf})
  <2>1. scan'.notes = u /\ scan'.new = scan.new /\ nfs' = left
    BY <1>0, <1>4, <1>6
  <2>2. nfs[nf] \in DOMAIN t
    <3>1. OneChain(Both, 0)
      BY <1>2, NoneBelow
    <3>2. Looks(nfs, t, 0)
      BY <1>2, <3>1 DEF ScanKnows
    <3> QED BY <1>6, <3>2 DEF Looks
  <2>3. Marked(u, t, nfs[nf], Height[b])
    <3>1. \A n \in DOMAIN t : t[n] \in NoteRow
      BY <1>2 DEF IsTable
    <3> HIDE DEF nf
    <3> QED BY <3>1 DEF Marked, NoteRow
  <2> HIDE DEF u, t, nf, left
  <2>4. /\ SameRows(t, u)
        /\ \A h \in Nat : Looks(nfs, t, h) =>
             /\ Looks(left, u, h)
             /\ \A B : b \in B /\ SpentInside(t, B, h) => SpentInside(u, B, h)
             /\ \A C, seen : SpendsSoFar(t, C, h, seen) => SpendsSoFar(u, C, h, seen \cup {nf})
    BY <1>5, <1>6, <2>2, <2>3, SpendFound DEF left
  <2>5. /\ Made(u, Both) /\ OnePerNf(u) /\ Grown(notes, u) /\ Carried(u)
    BY <1>2, <2>4, RowsSame DEF ScanKnows
  <2>6. ASSUME NEW h \in Nat, OneChain(Both, h)
        PROVE /\ SpentInside(u, Both, h) /\ NotesHeld(u, scanned, h) /\ SpendsHeld(u, scanned, h)
              /\ NotesSoFar(u, scan.new, BatchBlocks, h, Passed)
              /\ SpendsSoFar(u, BatchBlocks, h, Seen \cup {nf})
              /\ Looks(left, u, h)
    <3>1. /\ SpentInside(t, Both, h) /\ NotesHeld(t, scanned, h) /\ SpendsHeld(t, scanned, h)
          /\ NotesSoFar(t, scan.new, BatchBlocks, h, Passed) /\ SpendsSoFar(t, BatchBlocks, h, Seen)
          /\ Looks(nfs, t, h)
      BY <1>2, <2>6 DEF ScanKnows
    <3>2. /\ NotesHeld(u, scanned, h) /\ SpendsHeld(u, scanned, h)
          /\ NotesSoFar(u, scan.new, BatchBlocks, h, Passed)
      BY <2>4, <3>1, RowsSame
    <3> QED BY <1>5, <2>4, <3>1, <3>2
  <2>7. ScanKnows(u, scan.new, left, Passed, Seen \cup {nf})
    BY <2>5, <2>6 DEF ScanKnows
  <2> QED BY <1>4, <2>1, <2>7, ScanKnowsAfter
<1>7. CASE nf \notin DOMAIN nfs
  <2>1. scan'.notes = t /\ scan'.new = scan.new /\ nfs' = nfs
    BY <1>0, <1>4, <1>7
  <2> HIDE DEF t, nf
  <2>2. ASSUME NEW h \in Nat, OneChain(Both, h)
        PROVE  SpendsSoFar(t, BatchBlocks, h, Seen \cup {nf})
    BY <1>2, <1>7, <2>2, SpendUnknown DEF ScanKnows
  <2>3. ScanKnows(t, scan.new, nfs, Passed, Seen \cup {nf})
    BY <1>2, <2>2 DEF ScanKnows
  <2> QED BY <1>4, <2>1, <2>3, ScanKnowsAfter
<1> QED BY <1>6, <1>7

(* The second pass over the spends, and the end of a block. *)
LEMMA DebitScanned ==
  ASSUME Good, ScanDebit \/ SkipSpend \/ EndBlock, UNCHANGED <<scanned, laid>>
  PROVE  ScanDb'
<1>1. ppc = "scan" /\ Placing
  BY DEF ScanDebit, SkipSpend, EndBlock, AtDebit, Scanning, Good
<1>2. IInv /\ ScanPlace /\ ScanKnows(scan.notes, scan.new, nfs, Passed, Seen)
  BY <1>1, ScanBase
<1>3. CASE ScanDebit \/ SkipSpend
  <2>1. /\ InBlock /\ AtDebit(At) /\ nfs' = nfs
    BY <1>3 DEF ScanDebit, SkipSpend, AtDebit, Scanning, InBlock, At
  <2>2. ScanItem
    BY <1>3 DEF ScanItem
  <2>3. NSpends(At) \in Nat /\ NOuts(At) \in Nat /\ scan.cur \in Nat
    BY <1>1, <1>2, <2>1, AtInBatch
  <2>4. ~AtOutput(At) /\ scan.cur \notin 1..NSpends(At)
    BY <2>1, <2>3 DEF AtOutput, AtDebit
  <2>5. /\ UNCHANGED <<blocks, notes, batch, bwits>> /\ Passed' = Passed /\ Seen' = Seen
        /\ scan = [blk |-> scan.blk, cur |-> scan.cur, pos |-> scan.pos, mine |-> scan.mine,
                   found |-> scan.found, new |-> scan.new, notes |-> scan.notes,
                   txs |-> scan.txs]
    BY <1>1, <2>2, <2>4, ScanMoves
  <2>6. scan'.notes = scan.notes /\ scan'.new = scan.new
    BY <1>3, <2>5 DEF ScanDebit, SkipSpend
  <2> QED BY <1>2, <2>1, <2>5, <2>6, ScanKnowsAfter
<1>4. CASE EndBlock
  <2>1. /\ UNCHANGED <<blocks, notes, nfs, batch, bwits>> /\ Passed' = Passed /\ Seen' = Seen
        /\ scan'.new = scan.new /\ scan'.notes = scan.notes
    BY <1>1, <1>4, BlockLeft
  <2> QED BY <1>2, <2>1, ScanKnowsAfter
<1> QED BY <1>3, <1>4

(* Where the scan is at an output of a block. *)
LEMMA AtLeaf ==
  ASSUME IInv, ppc = "scan", ScanPlace, InBlock, AtOutput(At)
  PROVE  /\ NewNf(At) = <<Leaves[At][Passed + 1], Passed>> /\ NewNf(At) \notin Seen
         /\ Passed \in Nat /\ Adds(At, Passed) /\ Leaves[At][Passed + 1] \in Out
         /\ NewNf(At)[1] = Leaves[At][Passed + 1] /\ NewNf(At)[2] = Passed
         /\ \A a \in BatchBlocks : Adds(a, Passed) => a = At
<1>1. /\ NewNf(At) = <<Leaves[BatchEnd][Passed + 1], Passed>> /\ NewNf(At) \in Nf
      /\ Passed \in Nat /\ Len(Leaves[Parent[At]]) <= Passed /\ Passed < Len(Leaves[At])
      /\ Leaves[At][Passed + 1] = NewNf(At)[1] /\ NewNf(At) \notin Seen
  BY NewNotePlace
<1>2. /\ NewNf(At) = <<Leaves[At][Passed + 1], Passed>> /\ Leaves[At][Passed + 1] \in Out
      /\ NewNf(At)[1] = Leaves[At][Passed + 1] /\ NewNf(At)[2] = Passed
  BY <1>1 DEF Nf
<1>3. Adds(At, Passed)
  BY <1>1 DEF Adds
<1>4. ASSUME NEW a \in BatchBlocks, Adds(a, Passed) PROVE a = At
  <2>1. /\ BatchEnd \in Block /\ a \in Anc[BatchEnd] /\ a # Genesis
        /\ At \in Anc[BatchEnd] /\ At # Genesis
    BY ScanIsAt, BatchPlaces
  <2> QED BY <1>1, <1>4, <2>1, OneBlock DEF Adds
<1> QED BY <1>1, <1>2, <1>3, <1>4

(* An output of a block that one of our accounts owns. *)
LEMMA NoteScanned ==
  ASSUME Good, ScanNote, UNCHANGED <<scanned, laid>>
  PROVE  ScanDb'
<1>a. PICK b \in Block :
        /\ AtOutput(b) /\ Mine(NewNf(b)[1])
        /\ LET nf == NewNf(b)
               o == nf[1]
               table == StoreTransaction(b, TxOf[o], Owner[o])
           IN \E row \in TxRows(table, TxOf[o], Owner[o]) :
                LET id == <<row, o>> IN
                /\ NoteFound(id, nf)
                /\ scan' = [scan EXCEPT !.cur = @ + 1, !.found = TRUE,
                      !.notes = Insert(@, id, [nf |-> nf, height |-> Height[b], spent |-> Null]),
                      !.txs = [table EXCEPT ![row].value = @ + Value[o]],
                      !.new = Put(@, id, nf[2])]
                /\ nfs' = Learn(nf, id)
  BY DEF ScanNote
<1> DEFINE nf == NewNf(b)
           o == nf[1]
           table == StoreTransaction(b, TxOf[o], Owner[o])
           t == scan.notes
           r == [nf |-> nf, height |-> Height[b], spent |-> Null]
<1>b. PICK row \in TxRows(table, TxOf[o], Owner[o]) :
        /\ NoteFound(<<row, o>>, nf)
        /\ scan' = [scan EXCEPT !.cur = @ + 1, !.found = TRUE,
              !.notes = Insert(@, <<row, o>>, [nf |-> nf, height |-> Height[b], spent |-> Null]),
              !.txs = [table EXCEPT ![row].value = @ + Value[o]],
              !.new = Put(@, <<row, o>>, nf[2])]
        /\ nfs' = Learn(nf, <<row, o>>)
  BY <1>a
<1> DEFINE id == <<row, o>>
           u == Insert(t, id, r)
           more == Put(nfs, nf, id)
           newer == Put(scan.new, id, nf[2])
<1>1. ppc = "scan" /\ InBlock /\ b = At /\ Placing /\ ScanItem
  BY <1>a DEF AtOutput, Scanning, InBlock, At, Good, ScanItem
<1>2. /\ IInv /\ ScanPlace /\ ScanKnows(t, scan.new, nfs, Passed, Seen)
      /\ Both \subseteq Block \ {Genesis} /\ BatchBlocks \subseteq Both /\ scanned \subseteq Both
      /\ IsTable(t, NoteId, NoteRow)
  BY <1>1, ScanBase
<1>3. At \in BatchBlocks /\ NSpends(At) \in Nat /\ NOuts(At) \in Nat /\ Height[At] > SyncedHeight
  BY <1>1, <1>2, AtInBatch, BatchPlaces
<1>4. /\ UNCHANGED <<blocks, notes, batch, bwits>> /\ Passed' = Passed + 1 /\ Seen' = Seen
      /\ scan = [blk |-> scan.blk, cur |-> scan.cur, pos |-> scan.pos, mine |-> scan.mine,
                 found |-> scan.found, new |-> scan.new, notes |-> scan.notes,
                 txs |-> scan.txs]
  <2>1. scan.cur \notin 1..NSpends(At) /\ ~AtDebit(At)
    BY <1>a, <1>1, <1>3 DEF AtOutput, AtDebit
  <2> QED BY <1>1, <2>1, ScanMoves
<1>5. scan'.notes = u /\ scan'.new = newer /\ nfs' = more
  BY <1>b, <1>4 DEF Learn
<1>6. /\ nf = <<Leaves[b][Passed + 1], Passed>> /\ nf \notin Seen
      /\ Passed \in Nat /\ Adds(b, Passed) /\ o = Leaves[b][Passed + 1]
      /\ \A a \in BatchBlocks : Adds(a, Passed) => a = b
  BY <1>a, <1>1, <1>2, AtLeaf
<1>7. OwnLeaf(b, Passed) /\ OutOf(id) = Leaves[b][Passed + 1]
  BY <1>a, <1>6 DEF OwnLeaf, Mine, OutOf
<1>8. (\E n \in DOMAIN t : t[n].nf = nf) => id \in DOMAIN t
  BY <1>b DEF NoteFound, NoteTaken
<1>9. r.nf = nf /\ r.height = Height[b] /\ r.spent = Null
  OBVIOUS
<1>10. DOMAIN newer = DOMAIN scan.new \cup {id}
  BY DEF Put, InsertAll
<1>11. b \in Both
  BY <1>1, <1>2, <1>3
<1> HIDE DEF r, nf, id, u, more, newer, o, t
<1>12. /\ DOMAIN u = DOMAIN t \cup {id} /\ \A n \in DOMAIN t : u[n] = t[n]
       /\ id \notin DOMAIN t => u[id] = r
       /\ Made(u, Both) /\ OnePerNf(u)
       /\ \A h \in Nat : OneChain(Both, h) =>
            /\ SpentInside(t, Both, h) => SpentInside(u, Both, h)
            /\ \A C \in SUBSET Both : NotesHeld(t, C, h) =>
                 NotesHeld(u, C, h) /\ (SpendsHeld(t, C, h) => SpendsHeld(u, C, h))
            /\ \A D \in SUBSET Both :
                 (\A a \in D : Adds(a, Passed) => a = b) /\ NotesSoFar(t, scan.new, D, h, Passed) =>
                   NotesSoFar(u, newer, D, h, Passed + 1)
            /\ \A D, seen : r.nf \notin seen /\ SpendsSoFar(t, D, h, seen) =>
                 SpendsSoFar(u, D, h, seen)
            /\ Looks(nfs, t, h) => Looks(more, u, h)
  <2>1. Made(t, Both) /\ OnePerNf(t)
    BY <1>2 DEF ScanKnows
  <2>2. r.nf = <<Leaves[b][Passed + 1], Passed>>
    BY <1>6, <1>9
  <2>3. more = Put(nfs, r.nf, id)
    BY <1>9 DEF more
  <2>4. AddsNote(t, Both, b, Passed, id, r, nfs, u, more, scan.new, newer)
    BY <1>2, <1>6, <1>7, <1>8, <1>9, <1>10, <1>11, <2>1, <2>2, <2>3 DEF u, AddsNote
  <2> QED BY <2>4, NoteAdded
<1>13. Grown(notes, u)
  <2>1. Grown(notes, t)
    BY <1>2 DEF ScanKnows
  <2>2. ASSUME NEW n \in DOMAIN u \ DOMAIN notes PROVE u[n].height > SyncedHeight
    <3>1. CASE n \in DOMAIN t
      BY <1>12, <2>1, <3>1 DEF Grown
    <3>2. CASE n \notin DOMAIN t
      BY <1>1, <1>3, <1>9, <1>12, <3>2
    <3> QED BY <3>1, <3>2
  <2> QED BY <1>12, <2>1, <2>2 DEF Grown
<1>14. Carried(u)
  <2> SUFFICES ASSUME NEW n \in DOMAIN u, u[n].height <= SyncedHeight,
                      Above(u[n].height, SyncedHeight), u[n].spent \in Unspoken
               PROVE n \in DOMAIN bwits
    BY DEF Carried
  <2>1. CASE n \in DOMAIN t
    BY <1>2, <1>12, <2>1 DEF Carried, ScanKnows
  <2>2. CASE n \notin DOMAIN t
    <3>1. u[n].height = Height[b] /\ Height[b] > SyncedHeight
      BY <1>1, <1>3, <1>9, <1>12, <2>2
    <3>2. Height[b] \in Nat /\ SyncedHeight \in Nat
      BY <1>2, SyncedPlace, LedgerTypes
    <3> QED BY <3>1, <3>2
  <2> QED BY <2>1, <2>2
<1>15. ASSUME NEW h \in Nat, OneChain(Both, h)
       PROVE /\ SpentInside(u, Both, h) /\ NotesHeld(u, scanned, h) /\ SpendsHeld(u, scanned, h)
             /\ NotesSoFar(u, newer, BatchBlocks, h, Passed + 1)
             /\ SpendsSoFar(u, BatchBlocks, h, Seen)
             /\ Looks(more, u, h)
  <2>1. /\ SpentInside(t, Both, h) /\ NotesHeld(t, scanned, h) /\ SpendsHeld(t, scanned, h)
        /\ NotesSoFar(t, scan.new, BatchBlocks, h, Passed) /\ SpendsSoFar(t, BatchBlocks, h, Seen)
        /\ Looks(nfs, t, h)
    BY <1>2, <1>15 DEF ScanKnows
  <2>2. r.nf \notin Seen
    BY <1>6, <1>9
  <2>3. NotesHeld(u, scanned, h) /\ SpendsHeld(u, scanned, h)
    BY <1>2, <1>12, <1>15, <2>1
  <2>4. NotesSoFar(u, newer, BatchBlocks, h, Passed + 1)
    BY <1>2, <1>6, <1>12, <1>15, <2>1
  <2> QED BY <1>12, <1>15, <2>1, <2>2, <2>3, <2>4
<1>16. ScanKnows(u, newer, more, Passed + 1, Seen)
  BY <1>12, <1>13, <1>14, <1>15 DEF ScanKnows
<1> QED BY <1>4, <1>5, <1>16, ScanKnowsAfter

(* An output of another. *)
LEMMA OutputSkipped ==
  ASSUME Good, SkipOutput, UNCHANGED <<scanned, laid>>
  PROVE  ScanDb'
<1>1. /\ ppc = "scan" /\ Placing /\ ScanItem /\ InBlock /\ AtOutput(At) /\ nfs' = nfs
      /\ ~Mine(NewNf(At)[1])
  BY DEF SkipOutput, AtOutput, Scanning, InBlock, At, Good, ScanItem
<1>2. /\ IInv /\ ScanPlace /\ ScanKnows(scan.notes, scan.new, nfs, Passed, Seen)
  BY <1>1, ScanBase
<1>3. NSpends(At) \in Nat /\ NOuts(At) \in Nat /\ scan.cur \in Nat
  BY <1>1, <1>2, AtInBatch
<1>4. scan.cur \notin 1..NSpends(At) /\ ~AtDebit(At)
  BY <1>1, <1>3 DEF AtOutput, AtDebit
<1>5. /\ UNCHANGED <<blocks, notes, batch, bwits>> /\ Passed' = Passed + 1 /\ Seen' = Seen
      /\ scan = [blk |-> scan.blk, cur |-> scan.cur, pos |-> scan.pos, mine |-> scan.mine,
                 found |-> scan.found, new |-> scan.new, notes |-> scan.notes,
                 txs |-> scan.txs]
  BY <1>1, <1>4, ScanMoves
<1>6. scan'.notes = scan.notes /\ scan'.new = scan.new
  BY <1>5 DEF SkipOutput
<1>7. /\ Passed \in Nat /\ Owner[Leaves[At][Passed + 1]] \notin Account
      /\ \A a \in BatchBlocks : Adds(a, Passed) => a = At
  BY <1>1, <1>2, AtLeaf DEF Mine
<1>8. ASSUME NEW h \in Nat, OneChain(Both, h)
      PROVE  NotesSoFar(scan.notes, scan.new, BatchBlocks, h, Passed + 1)
  <2> SUFFICES ASSUME NEW a \in BatchBlocks, Height[a] < h, NEW q \in Nat, OwnLeaf(a, q),
                      q < Passed + 1
               PROVE \E n \in DOMAIN scan.notes :
                       n \in DOMAIN scan.new /\ IsRowOf(scan.notes[n], a, q)
    BY DEF NotesSoFar
  <2>1. q # Passed
    BY <1>7 DEF OwnLeaf
  <2>2. q < Passed
    BY <1>7, <2>1
  <2>3. NotesSoFar(scan.notes, scan.new, BatchBlocks, h, Passed)
    BY <1>2, <1>8 DEF ScanKnows
  <2> QED BY <2>2, <2>3 DEF NotesSoFar
<1>9. ScanKnows(scan.notes, scan.new, nfs, Passed + 1, Seen)
  BY <1>2, <1>8 DEF ScanKnows
<1> QED BY <1>1, <1>5, <1>6, <1>9, ScanKnowsAfter

-----------------------------------------------------------------------------
(* The database *)

(* The rows of the database below the heights where the blocks are on one  *)
(* chain.                                                                  *)
LEMMA DbBase ==
  ASSUME Good
  PROVE  /\ IInv /\ Inside /\ Made(notes, scanned) /\ OnePerNf(notes)
         /\ IsTable(notes, NoteId, NoteRow)
         /\ laid \subseteq Nat
         /\ scanned \subseteq Block \ {Genesis} /\ \A b \in scanned : Comparable(b, Synced)
         /\ \A h \in Nat : OneChain(scanned, h) => Holds(notes, scanned, h)
         /\ DOMAIN blocks \subseteq Nat /\ \A g \in DOMAIN blocks : g <= SyncedHeight
         /\ Synced \in Block /\ Height[Synced] = SyncedHeight /\ SyncedHeight \in Nat
         /\ OneChain(scanned, SyncedHeight + 1)
<1>1. /\ IInv /\ Inside /\ Made(notes, scanned) /\ OnePerNf(notes)
      /\ scanned \subseteq Block \ {Genesis} /\ \A b \in scanned : Comparable(b, Synced)
      /\ \A h \in Nat : OneChain(scanned, h) => Holds(notes, scanned, h)
      /\ laid \subseteq Nat
  BY DEF Good, Placing, DbRows, Chained
<1>2. /\ TInv /\ IsTable(notes, NoteId, NoteRow) /\ IsTable(blocks, Nat, BlockRow)
      /\ TypeOK /\ HasLast
  BY <1>1 DEF IInv, TInv, TypeOK, DbTypes
<1>3. DOMAIN blocks \subseteq Nat
  BY <1>2 DEF IsTable
<1>4. \A g \in DOMAIN blocks : g <= SyncedHeight
  BY <1>2, SyncedTyped, EmptyTableTyped
<1>5. Synced \in Block /\ Height[Synced] = SyncedHeight /\ SyncedHeight \in Nat
  BY <1>1, SyncedPlace
<1>6. OneChain(scanned, SyncedHeight + 1)
  BY <1>1, <1>5, Straddle
<1> QED BY <1>1, <1>2, <1>3, <1>4, <1>5, <1>6

(* The scan of a batch starts with the rows of the database. *)
LEMMA LoadedDb ==
  ASSUME Good, LoadTree, UNCHANGED <<scanned, laid>>
  PROVE  ScanDb'
<1>1. /\ ppc = "load" /\ ppc' = "scan" /\ bwits' = StoredWitnesses
      /\ UNCHANGED <<blocks, notes, wits, nfs, batch>>
  BY DEF LoadTree, dbVars
<1>2. /\ IInv /\ Made(notes, scanned) /\ OnePerNf(notes) /\ IsTable(notes, NoteId, NoteRow)
      /\ scanned \subseteq Block \ {Genesis}
      /\ \A h \in Nat : OneChain(scanned, h) => Holds(notes, scanned, h)
      /\ Synced \in Block /\ Height[Synced] = SyncedHeight /\ SyncedHeight \in Nat
      /\ OneChain(scanned, SyncedHeight + 1)
  BY DbBase
<1>3. /\ scan'.new = EmptyTable /\ scan'.notes = notes
      /\ Passed' = Len(Leaves[Synced]) /\ Seen' = Revealed(Synced)
  BY <1>2, LoadPlace
<1>4. \A b \in BatchBlocks : /\ b \in Block \ {Genesis} /\ Synced \in Anc[b]
                             /\ Synced \in Anc[Parent[b]] /\ Height[b] > SyncedHeight
  BY <1>1, <1>2, BatchPlaces
<1>5. SyncedHeight' = SyncedHeight /\ BatchBlocks' = BatchBlocks
  BY <1>1, SyncedKept DEF BatchBlocks
<1>6. Both' = Both /\ Gaps' = Gaps /\ scanned \subseteq Both /\ Both \subseteq Block
  BY <1>2, <1>4, <1>5 DEF Both, Gaps
<1>7. Made(notes, Both) /\ Grown(notes, notes)
  BY <1>2, <1>6 DEF Made, Grown
<1>8. Carried(scan.notes)'
  <2> SUFFICES ASSUME NEW n \in DOMAIN notes, notes[n].height <= SyncedHeight,
                      Above(notes[n].height, SyncedHeight), notes[n].spent \in Unspoken
               PROVE n \in DOMAIN StoredWitnesses
    BY <1>1, <1>3, <1>5, <1>6 DEF Carried, Above
  <2>1. PICK c \in scanned : MadeIn(n, notes[n], c)
    BY <1>2 DEF Made
  <2>2. Height[c] > Height[Genesis] /\ notes[n].height = Height[c] /\ Height[c] \in Nat
        /\ Height[Genesis] \in Nat
    BY <1>2, <2>1, HeightTyped DEF MadeIn
  <2>3. blocks # EmptyTable
    <3>1. SyncedHeight # Height[Genesis]
      BY <1>2, <2>2
    <3> QED BY <3>1 DEF SyncedHeight
  <2>4. SyncedHeight \in DOMAIN blocks
    BY <1>2, <2>3, SyncedTyped DEF IInv, TInv
  <2>5. ASSUME NEW a \in scanned, Height[a] <= SyncedHeight, notes[n].nf \in NfsIn(a) PROVE FALSE
    <3>1. SpendsHeld(notes, scanned, SyncedHeight + 1)
      BY <1>2 DEF Holds
    <3>2. notes[n].height < SyncedHeight + 1 /\ Height[a] < SyncedHeight + 1
      <4>1. Height[a] \in Nat
        BY <1>2, LedgerTypes
      <4> QED BY <1>2, <2>2, <2>5, <4>1
    <3> QED BY <2>1, <2>5, <3>1, <3>2 DEF SpendsHeld
  <2>6. <<n, SyncedHeight>> \in DOMAIN wits
    BY <2>4, <2>5 DEF Good, Witnessed
  <2>7. n \in Unspent(notes)
    BY DEF Unspent, Unspoken
  <2> QED BY <2>3, <2>6, <2>7 DEF StoredWitnesses
<1>9. ASSUME NEW h \in Nat, OneChain(Both, h)
      PROVE /\ SpentInside(notes, Both, h) /\ NotesHeld(notes, scanned, h)
            /\ SpendsHeld(notes, scanned, h)
            /\ NotesSoFar(notes, EmptyTable, BatchBlocks, h, Len(Leaves[Synced]))
            /\ SpendsSoFar(notes, BatchBlocks, h, Revealed(Synced))
            /\ Looks(nfs, notes, h)
  <2>1. OneChain(scanned, h)
    <3>1. h <= h
      OBVIOUS
    <3> QED BY <1>6, <1>9, <3>1, ChainSmaller
  <2>2. SpentInside(notes, scanned, h) /\ NotesHeld(notes, scanned, h) /\ SpendsHeld(notes, scanned, h)
    BY <1>2, <2>1 DEF Holds
  <2>3. SpentInside(notes, Both, h)
    BY <1>6, <2>2 DEF SpentInside
  <2>4. NotesSoFar(notes, EmptyTable, BatchBlocks, h, Len(Leaves[Synced]))
    <3> SUFFICES ASSUME NEW a \in BatchBlocks, NEW p \in Nat, OwnLeaf(a, p), p < Len(Leaves[Synced])
                 PROVE FALSE
      BY DEF NotesSoFar
    <3>1. Parent[a] \in Block /\ Synced \in Anc[Parent[a]]
      BY <1>4, Child
    <3>2. Len(Leaves[Synced]) <= Len(Leaves[Parent[a]])
      BY <3>1, LedgerLeaves
    <3>3. Len(Leaves[Synced]) \in Nat /\ Len(Leaves[Parent[a]]) \in Nat
      BY <1>2, <3>1, CountsTyped
    <3>4. Len(Leaves[Parent[a]]) <= p
      BY DEF OwnLeaf, Adds
    <3> QED BY <3>2, <3>3, <3>4
  <2>5. SpendsSoFar(notes, BatchBlocks, h, Revealed(Synced))
    <3> SUFFICES ASSUME NEW a \in BatchBlocks, NEW nf, nf \in NfsIn(a), nf \in Revealed(Synced)
                 PROVE FALSE
      BY DEF SpendsSoFar
    <3>1. PICK d \in Anc[Synced] : nf \in NfsIn(d)
      BY DEF Revealed
    <3>2. d \in Block /\ Height[d] <= Height[Synced] /\ Height[d] \in Nat /\ d \in Anc[a]
      BY <1>2, <1>4, Ancestor
    <3>3. a = d
      BY <1>4, <3>1, <3>2, RevealedOnce DEF Comparable
    <3> QED BY <1>2, <1>4, <3>2, <3>3
  <2>6. Looks(nfs, notes, h)
    BY <1>1, <2>1 DEF Good, DbWatch, Looking
  <2> QED BY <2>2, <2>3, <2>4, <2>5, <2>6
<1>10. /\ Made(scan.notes, Both)' /\ OnePerNf(scan.notes)' /\ Grown(notes, scan.notes)'
  BY <1>1, <1>2, <1>3, <1>5, <1>6, <1>7 DEF Made, Grown, OnePerNf
<1> QED BY <1>1, <1>3, <1>5, <1>6, <1>8, <1>9, <1>10 DEF ScanDb, ScanKnows

(* The first transaction of a batch writes the rows of the scan. *)
LEMMA CommittedDb ==
  ASSUME Good, Commit, Scanned, ~mixed'
  PROVE  Chained' /\ DbRows' /\ DbWatch' /\ ScanDb' /\ WrittenDb' /\ Witnessed'
<1>1. /\ ppc = "scan" /\ ppc' \in {"details", "store"} /\ notes' = scan.notes
      /\ UNCHANGED <<blocks, wits, nfs, batch, bwits, scan>> /\ scan.blk > Len(batch.blocks)
  BY DEF Commit
<1>2. /\ IInv /\ ScanPlace /\ Placing
      /\ ScanKnows(scan.notes, scan.new, nfs, Passed, Seen)
      /\ Both \subseteq Block \ {Genesis} /\ \A b \in Both : Comparable(b, Synced)
      /\ scanned \subseteq Both /\ BatchBlocks \subseteq Both
      /\ IsTable(scan.notes, NoteId, NoteRow)
  BY <1>1, ScanBase
<1>3. /\ BatchEnd \in Block /\ SyncedHeight \in Nat
      /\ \A b \in BatchBlocks : b \in Anc[BatchEnd] /\ Height[b] > SyncedHeight
  BY <1>1, <1>2, BatchPlaces
<1>4. /\ scanned' = Both /\ UNCHANGED laid
      /\ \A b \in scanned \ BatchBlocks, c \in BatchBlocks \ scanned : c \notin Anc[b]
  BY <1>1 DEF Scanned, Both
<1>5. Passed = Len(Leaves[BatchEnd]) /\ Seen = Revealed(BatchEnd)
  <2>1. batch \in Batch
    BY <1>2, AllEndsTyped
  <2>2. Len(batch.blocks) \in Nat /\ scan.blk \in Nat
    BY <1>2, <2>1 DEF Batch, IInv, TInv, TypeOK, ScanTypes
  <2>3. ~InBlock
    BY <1>1, <2>2 DEF InBlock
  <2> QED BY <1>1, <1>2, <2>3, ScanHasPassed
<1>6. /\ SyncedHeight' = SyncedHeight /\ Synced' = Synced /\ BatchBlocks' = BatchBlocks
      /\ BatchEnd' = BatchEnd
  <2>1. SyncedHeight' = SyncedHeight /\ Synced' = Synced
    BY <1>1, SyncedKept
  <2> QED BY <1>1, <2>1 DEF BatchBlocks, BatchEnd, EndOf, LastOf
<1>7. Gaps' = Gaps
  <2>1. \A b \in BatchBlocks : Height[b] \notin (Height[Genesis] + 1)..SyncedHeight
    <3> TAKE b \in BatchBlocks
    <3>1. Height[b] \in Nat /\ Height[b] > SyncedHeight
      BY <1>2, <1>3, LedgerTypes
    <3> QED BY <1>3, <3>1
  <2> QED BY <1>4, <1>6, <2>1 DEF Gaps, Both
<1>8. Chained'
  BY <1>2, <1>4, <1>6, DbBase DEF Chained
<1>9. \A b \in BatchBlocks : b \in scanned'
  BY <1>2, <1>4
<1>10. ASSUME NEW h \in Nat, OneChain(Both, h) PROVE Holds(scan.notes, Both, h)
  <2>1. /\ SpentInside(scan.notes, Both, h)
        /\ NotesHeld(scan.notes, scanned, h) /\ SpendsHeld(scan.notes, scanned, h)
        /\ NotesSoFar(scan.notes, scan.new, BatchBlocks, h, Len(Leaves[BatchEnd]))
        /\ SpendsSoFar(scan.notes, BatchBlocks, h, Revealed(BatchEnd))
    BY <1>2, <1>5, <1>10 DEF ScanKnows
  <2>2. NotesHeld(scan.notes, Both, h)
    <3> SUFFICES ASSUME NEW a \in Both, Height[a] < h, NEW p \in Nat, OwnLeaf(a, p)
                 PROVE \E n \in DOMAIN scan.notes : IsRowOf(scan.notes[n], a, p)
      BY DEF NotesHeld
    <3>1. CASE a \in scanned
      BY <2>1, <3>1 DEF NotesHeld
    <3>2. CASE a \in BatchBlocks
      <4>1. p < Len(Leaves[BatchEnd])
        BY <1>3, <3>2, LeafKept DEF OwnLeaf, Adds
      <4> QED BY <2>1, <3>2, <4>1 DEF NotesSoFar
    <3> QED BY <3>1, <3>2 DEF Both
  <2>3. SpendsHeld(scan.notes, Both, h)
    <3> SUFFICES ASSUME NEW n \in DOMAIN scan.notes, NEW a \in Both, NEW c \in Both,
                        scan.notes[n].height < h, Height[a] < h,
                        MadeIn(n, scan.notes[n], c), scan.notes[n].nf \in NfsIn(a)
                 PROVE scan.notes[n].spent \notin Unspoken
      BY DEF SpendsHeld
    <3>1. CASE a \in scanned /\ c \in scanned
      BY <2>1, <3>1 DEF SpendsHeld
    <3>2. CASE a \in BatchBlocks
      <4>1. scan.notes[n].nf \in Revealed(BatchEnd)
        BY <1>3, <3>2 DEF Revealed
      <4> QED BY <2>1, <3>2, <4>1 DEF SpendsSoFar
    <3>3. CASE a \in scanned \ BatchBlocks /\ c \in BatchBlocks \ scanned
      <4>1. Comparable(a, c) /\ a \in Block /\ c \in Block \ {Genesis}
        BY <1>2, <1>10, OnOneBranch
      <4>2. /\ scan.notes[n].nf[2] \in Nat /\ Adds(c, scan.notes[n].nf[2])
            /\ Leaves[c][scan.notes[n].nf[2] + 1] = scan.notes[n].nf[1]
        BY <1>2, RowTyped DEF MadeIn
      <4>3. c \in Anc[a]
        BY <4>1, <4>2, SpentLater
      <4> QED BY <1>4, <3>3, <4>3
    <3> QED BY <3>1, <3>2, <3>3 DEF Both
  <2> QED BY <2>1, <2>2, <2>3 DEF Holds
<1>11. DbRows'
  BY <1>1, <1>2, <1>4, <1>10 DEF DbRows, ScanKnows
<1>12. DbWatch'
  BY <1>1, <1>2, <1>4 DEF DbWatch, ScanKnows
<1>13. Carried(notes)'
  BY <1>1, <1>2, <1>4, <1>6, <1>7 DEF Carried, Above, ScanKnows
<1>14. WrittenDb'
  BY <1>1, <1>2, <1>4, <1>5, <1>6, <1>9, <1>13 DEF WrittenDb, ScanKnows
<1>15. Witnessed'
  <2> SUFFICES ASSUME NEW g \in DOMAIN blocks, NEW n \in DOMAIN scan.notes,
                      scan.notes[n].height <= g, Above(scan.notes[n].height, g),
                      \A a \in Both : Height[a] <= g => scan.notes[n].nf \notin NfsIn(a)
               PROVE <<n, g>> \in DOMAIN wits
    BY <1>1, <1>4, <1>7 DEF Witnessed, Above
  <2>1. g \in Nat /\ g <= SyncedHeight /\ scan.notes[n].height \in Nat
    BY <1>2, DbBase, RowTyped
  <2>2. ~(scan.notes[n].height > SyncedHeight)
    BY <1>3, <2>1
  <2>3. /\ n \in DOMAIN notes /\ notes[n].nf = scan.notes[n].nf
        /\ notes[n].height = scan.notes[n].height
    BY <1>2, <2>2 DEF ScanKnows, Grown
  <2> QED BY <1>2, <2>3 DEF Good, Witnessed
<1>16. ScanDb'
  BY <1>1 DEF ScanDb
<1> QED BY <1>8, <1>11, <1>12, <1>14, <1>15, <1>16

(* The second transaction of a batch: the notes of its blocks have their   *)
(* witnesses, and those of older notes are carried on.                     *)
LEMMA StoredDb ==
  ASSUME Good, Store, Scanned, ~mixed'
  PROVE  /\ Chained' /\ DbRows' /\ DbWatch' /\ ScanDb' /\ WrittenDb' /\ Witnessed'
         /\ Bounded(DOMAIN blocks)'
<1> DEFINE H == Height[BatchEnd]
           rows == [k \in {<<n, Height[LastOf(batch)]>> : n \in DOMAIN NewWitnesses} |->
                      NewWitnesses[k[1]]]
<1>1. /\ ppc = "store" /\ ppc' = "recv" /\ wits' = InsertAll(wits, rows)
      /\ UNCHANGED <<notes, nfs>> /\ UNCHANGED <<scanned, laid>>
      /\ \A b \in scanned \ BatchBlocks : ~(Height[b] > SyncedHeight)
  BY DEF Store, Scanned
<1>2. /\ IInv /\ Made(notes, scanned) /\ OnePerNf(notes) /\ IsTable(notes, NoteId, NoteRow)
      /\ scanned \subseteq Block \ {Genesis} /\ \A b \in scanned : Comparable(b, Synced)
      /\ \A h \in Nat : OneChain(scanned, h) => Holds(notes, scanned, h)
      /\ DOMAIN blocks \subseteq Nat /\ \A g \in DOMAIN blocks : g <= SyncedHeight
      /\ Synced \in Block /\ Height[Synced] = SyncedHeight /\ SyncedHeight \in Nat
      /\ laid \subseteq Nat
  BY DbBase
<1>3. /\ BatchEnd \in Block /\ H \in Nat /\ H > SyncedHeight /\ Synced \in Anc[BatchEnd]
      /\ LastOf(batch) = BatchEnd
      /\ DOMAIN blocks' = DOMAIN blocks \cup {H}
      /\ SyncedHeight' = H /\ Synced' = BatchEnd
  BY <1>2, StoreEffect
<1>4. \A b \in BatchBlocks : b \in Anc[BatchEnd]
  BY <1>1, <1>2, BatchPlaces
<1>5. \A b \in scanned : b \in Anc[BatchEnd]
  <2> TAKE b \in scanned
  <2>1. CASE b \in BatchBlocks
    BY <1>4, <2>1
  <2>2. CASE b \notin BatchBlocks
    <3>1. Height[b] \in Nat /\ ~(Height[b] > SyncedHeight) /\ b \in Block
      BY <1>1, <1>2, <2>2, LedgerTypes
    <3>2. CASE b \in Anc[Synced]
      BY <1>2, <1>3, <3>2, Ancestor
    <3>3. CASE Synced \in Anc[b]
      <4>1. Height[Synced] <= Height[b] /\ (Height[Synced] = Height[b] => Synced = b)
        BY <1>2, <3>1, <3>3, Ancestor
      <4>2. Synced = b
        BY <1>2, <3>1, <4>1
      <4> QED BY <1>3, <4>2
    <3> QED BY <1>2, <3>2, <3>3 DEF Comparable
  <2> QED BY <2>1, <2>2
<1>6. Chained'
  BY <1>1, <1>2, <1>3, <1>5 DEF Chained, Comparable
<1>7. DbRows'
  BY <1>1, <1>2 DEF DbRows
<1>8. DbWatch'
  BY <1>1 DEF Good, DbWatch, Looking
<1>9. ScanDb' /\ WrittenDb'
  BY <1>1 DEF ScanDb, WrittenDb, Written
<1>10. /\ \A k \in DOMAIN wits : k \in DOMAIN wits'
       /\ \A n \in DOMAIN bwits \cup DOMAIN scan.new : <<n, H>> \in DOMAIN wits'
  <2>1. DOMAIN NewWitnesses = DOMAIN bwits \cup DOMAIN scan.new
    BY DEF NewWitnesses, InsertAll
  <2> HIDE DEF H
  <2>2. \A n \in DOMAIN NewWitnesses : <<n, Height[LastOf(batch)]>> \in DOMAIN wits'
    BY <1>1 DEF InsertAll
  <2>3. Height[LastOf(batch)] = H
    BY <1>3 DEF H
  <2> QED BY <1>1, <2>1, <2>2, <2>3 DEF InsertAll
<1> HIDE DEF H, rows
<1>11. \A y \in Gaps \cup laid : y \in (Gaps \cup laid)'
  <2>1. \A y \in Gaps : y \in Int /\ Height[Genesis] + 1 <= y /\ y <= SyncedHeight
                        /\ y \notin {Height[b] : b \in scanned}
    BY DEF Gaps
  <2>2. \A y \in Gaps : y \in (Height[Genesis] + 1)..H
    BY <1>2, <1>3, <2>1, LedgerTypes
  <2>3. \A y \in Gaps : y \in Gaps'
    BY <1>1, <1>3, <2>1, <2>2 DEF Gaps
  <2> QED BY <1>1, <2>3
<1>12. ASSUME NEW g \in DOMAIN blocks', NEW n \in DOMAIN notes, notes[n].height <= g,
              Above(notes[n].height, g),
              \A a \in scanned : Height[a] <= g => notes[n].nf \notin NfsIn(a)
       PROVE <<n, g>> \in DOMAIN wits'
  <2>1. CASE g \in DOMAIN blocks
    <3>1. <<n, g>> \in DOMAIN wits
      BY <1>12, <2>1 DEF Good, Witnessed
    <3> QED BY <1>10, <3>1
  <2>2. CASE g = H
    <3>1. PICK c \in scanned : MadeIn(n, notes[n], c)
      BY <1>2 DEF Made
    <3>2. notes[n].height = Height[c] /\ Height[c] \in Nat /\ Height[c] <= H
      BY <1>2, <1>12, <2>2, <3>1, LedgerTypes DEF MadeIn
    <3>3. OneChain(scanned, H + 1)
      <4>1. \A b \in scanned : b \in Block /\ Comparable(b, BatchEnd)
        BY <1>2, <1>5 DEF Comparable
      <4> QED BY <1>3, <4>1, Straddle DEF H
    <3>4. H + 1 \in Nat /\ notes[n].height < H + 1
      BY <1>3, <3>2
    <3>5. notes[n].spent \in Unspoken
      <4>1. SpentInside(notes, scanned, H + 1)
        BY <1>2, <3>3, <3>4 DEF Holds
      <4>2. \A a \in scanned : Height[a] <= H
        BY <1>3, <1>5, Ancestor DEF H
      <4> QED BY <1>12, <2>2, <3>4, <4>1, <4>2 DEF SpentInside
    <3>6. CASE notes[n].height <= SyncedHeight
      <4>1. \A y \in Gaps \cup laid : y <= SyncedHeight => y <= H
        <5>1. \A y \in Gaps : y <= H
          BY <1>2, <1>3 DEF Gaps
        <5>2. ASSUME NEW y \in laid, y <= SyncedHeight PROVE y <= H
          <6>1. y \in Nat /\ SyncedHeight \in Nat /\ H \in Nat /\ SyncedHeight < H
            BY <1>2, <1>3
          <6> QED BY <5>2, <6>1
        <5> QED BY <5>1, <5>2
      <4>2. Above(notes[n].height, SyncedHeight)
        BY <1>12, <2>2, <4>1 DEF Above
      <4>3. n \in DOMAIN bwits
        BY <1>1, <3>5, <3>6, <4>2 DEF Good, WrittenDb, Written, Carried
      <4> QED BY <1>10, <2>2, <4>3
    <3>7. CASE ~(notes[n].height <= SyncedHeight)
      <4>1. c \in BatchBlocks
        <5>1. Height[c] > SyncedHeight
          BY <1>2, <3>2, <3>7
        <5> QED BY <1>1, <5>1
      <4> DEFINE p == notes[n].nf[2]
      <4>2. /\ p \in Nat /\ OwnLeaf(c, p) /\ notes[n].nf = <<Leaves[c][p + 1], p>>
            /\ p < Len(Leaves[c])
        BY <1>2, <3>1, RowTyped DEF MadeIn, OwnLeaf, Adds
      <4>3. p < Len(Leaves[BatchEnd])
        BY <1>3, <1>5, <4>2, LeafKept
      <4>4. NotesSoFar(notes, scan.new, BatchBlocks, H + 1, Len(Leaves[BatchEnd]))
        BY <1>1, <3>3, <3>4 DEF Good, WrittenDb, Written
      <4> HIDE DEF p
      <4>5. PICK m \in DOMAIN notes : m \in DOMAIN scan.new /\ IsRowOf(notes[m], c, p)
        <5>1. Height[c] < H + 1
          BY <3>2, <3>4
        <5> QED BY <4>1, <4>2, <4>3, <4>4, <5>1 DEF NotesSoFar
      <4>6. m = n
        BY <1>2, <4>2, <4>5 DEF IsRowOf, OnePerNf
      <4> QED BY <1>10, <2>2, <4>5, <4>6
    <3> QED BY <3>6, <3>7
  <2> QED BY <1>3, <2>1, <2>2
<1>13. Witnessed'
  <2> SUFFICES ASSUME NEW g \in DOMAIN blocks', NEW n \in DOMAIN notes, notes[n].height <= g,
                      Above(notes[n].height, g)',
                      \A a \in scanned : Height[a] <= g => notes[n].nf \notin NfsIn(a)
               PROVE <<n, g>> \in DOMAIN wits'
    BY <1>1 DEF Witnessed, Above
  <2>1. Above(notes[n].height, g)
    BY <1>1, <1>11 DEF Above
  <2> QED BY <1>12, <2>1
<1>14. Bounded(DOMAIN blocks)'
  <2>1. DOMAIN blocks \subseteq Int /\ H \in Int /\ Bounded(DOMAIN blocks)
    BY <1>2, <1>3 DEF Good
  <2>2. Bounded(DOMAIN blocks \cup {H})
    BY <2>1, BoundedAdd
  <2> QED BY <1>3, <2>2 DEF Bounded, UpTo, HasMax
<1> QED BY <1>6, <1>7, <1>8, <1>9, <1>13, <1>14

-----------------------------------------------------------------------------
(* The other steps of a sync *)

(* A step that writes no table. *)
LEMMA QuietDb ==
  ASSUME Good, UNCHANGED <<blocks, notes, wits>>, UNCHANGED <<scanned, laid>>,
         Written' => Written /\ UNCHANGED <<batch, bwits, scan>>
  PROVE  /\ Chained' /\ DbRows' /\ WrittenDb' /\ Witnessed' /\ Bounded(DOMAIN blocks)'
         /\ (Looking' => Looking /\ UNCHANGED nfs) => DbWatch'
<1>1. SyncedHeight' = SyncedHeight /\ Synced' = Synced
  BY SyncedKept
<1>2. Gaps' = Gaps
  BY <1>1 DEF Gaps
<1>3. Chained'
  BY <1>1 DEF Good, Chained
<1>4. DbRows'
  BY DEF Good, DbRows
<1>5. WrittenDb'
  <2> SUFFICES ASSUME Written' PROVE /\ BatchBlocks' \subseteq scanned' /\ Carried(notes)'
                                     /\ \A h \in Nat : OneChain(scanned', h) =>
                                          NotesSoFar(notes', scan'.new, BatchBlocks', h,
                                                     Len(Leaves[BatchEnd']))
    BY DEF WrittenDb
  <2>1. Written /\ UNCHANGED <<batch, bwits, scan>>
    OBVIOUS
  <2>2. BatchBlocks' = BatchBlocks /\ BatchEnd' = BatchEnd
    BY <1>1, <2>1 DEF BatchBlocks, BatchEnd, EndOf, LastOf
  <2>3. Carried(notes)'
    BY <1>1, <1>2, <2>1 DEF Good, WrittenDb, Carried, Above
  <2> QED BY <2>1, <2>2, <2>3 DEF Good, WrittenDb
<1>6. Witnessed'
  BY <1>2 DEF Good, Witnessed, Above
<1>7. Bounded(DOMAIN blocks)'
  BY DEF Good, Bounded, UpTo, HasMax
<1>8. (Looking' => Looking /\ UNCHANGED nfs) => DbWatch'
  BY DEF Good, DbWatch
<1> QED BY <1>3, <1>4, <1>5, <1>6, <1>7, <1>8

(* The processor reads the nullifiers of the unspent notes. *)
LEMMA OpenedDb ==
  ASSUME Good, OpenDb, UNCHANGED <<scanned, laid>>
  PROVE  DbWatch'
<1>1. nfs' = Nullifiers /\ UNCHANGED notes /\ OnePerNf(notes)
  BY DEF OpenDb, dbVars, Good, DbRows
<1>2. ASSUME NEW nf \in DOMAIN Nullifiers
      PROVE Nullifiers[nf] \in DOMAIN notes /\ notes[Nullifiers[nf]].nf = nf
  <2>1. \E n \in Unspent(notes) : notes[n].nf = nf
    BY DEF Nullifiers
  <2>2. Nullifiers[nf] \in Unspent(notes) /\ notes[Nullifiers[nf]].nf = nf
    BY <2>1 DEF Nullifiers
  <2> QED BY <2>2 DEF Unspent
<1>3. ASSUME NEW n \in DOMAIN notes, notes[n].spent \in Unspoken
      PROVE notes[n].nf \in DOMAIN Nullifiers /\ Nullifiers[notes[n].nf] = n
  <2>1. notes[n].nf \in DOMAIN Nullifiers
    BY <1>3 DEF Nullifiers, Unspent, Unspoken
  <2> QED BY <1>1, <1>2, <2>1 DEF OnePerNf
<1>4. \A h : Looks(Nullifiers, notes, h)
  BY <1>2, <1>3 DEF Looks
<1> QED BY <1>1, <1>4 DEF DbWatch

(* The purge at the end of a sync keeps all witnesses of the checkpoints   *)
(* that it keeps.                                                          *)
LEMMA FinishedDb ==
  ASSUME Good, Finish, UNCHANGED <<scanned, laid>>
  PROVE  /\ Chained' /\ DbRows' /\ DbWatch' /\ ScanDb' /\ WrittenDb' /\ Witnessed'
         /\ Bounded(DOMAIN blocks)'
<1>1. IInv /\ DOMAIN blocks \subseteq Nat /\ Bounded(DOMAIN blocks)
  BY DbBase DEF Good
<1>2. /\ DOMAIN blocks' \subseteq DOMAIN blocks
      /\ \A k \in DOMAIN wits : k[2] \in DOMAIN blocks' => k \in DOMAIN wits'
      /\ SyncedHeight' = SyncedHeight /\ Synced' = Synced
  BY <1>1, FinishEffect
<1>3. notes' = notes /\ ppc' = "done"
  BY DEF Finish, ProcessorEnds
<1>4. Gaps' = Gaps
  BY <1>2 DEF Gaps
<1>5. Chained' /\ DbRows'
  BY <1>2, <1>3 DEF Good, Chained, DbRows
<1>6. DbWatch' /\ ScanDb' /\ WrittenDb'
  BY <1>3 DEF DbWatch, Looking, ScanDb, WrittenDb, Written
<1>7. Witnessed'
  <2> SUFFICES ASSUME NEW g \in DOMAIN blocks', NEW n \in DOMAIN notes, notes[n].height <= g,
                      Above(notes[n].height, g),
                      \A a \in scanned : Height[a] <= g => notes[n].nf \notin NfsIn(a)
               PROVE <<n, g>> \in DOMAIN wits'
    BY <1>3, <1>4 DEF Witnessed, Above
  <2>1. <<n, g>> \in DOMAIN wits
    BY <1>2 DEF Good, Witnessed
  <2> QED BY <1>2, <2>1
<1>8. Bounded(DOMAIN blocks)'
  <2>1. CASE OldCheckpoints = {}
    BY <1>1, <2>1 DEF Finish, Bounded, UpTo, HasMax
  <2>2. CASE OldCheckpoints # {}
    <3>1. Max(OldCheckpoints) \in Nat
      BY <1>1, <2>2, PurgeBound DEF IInv
    <3>2. DOMAIN blocks' = {h \in DOMAIN blocks : h >= Max(OldCheckpoints)}
      BY <2>2 DEF Finish, Restrict
    <3>3. Bounded({h \in DOMAIN blocks : h >= Max(OldCheckpoints)})
      BY <1>1, <3>1, BoundedAbove
    <3> QED BY <3>2, <3>3 DEF Bounded, UpTo, HasMax
  <2> QED BY <2>1, <2>2
<1> QED BY <1>5, <1>6, <1>7, <1>8

(* The steps of the server, the call and the downloader, and those of the  *)
(* processor that neither scan nor write.                                  *)
LEMMA OthersDb ==
  ASSUME Good, UNCHANGED <<scanned, laid>>,
         \/ Server \/ Call \/ Downloader \/ UNCHANGED vars
         \/ Recv \/ RecvClosed \/ ScanFail \/ DetailsOk \/ DetailsFail
  PROVE  /\ Chained' /\ DbRows' /\ DbWatch' /\ ScanDb' /\ WrittenDb' /\ Witnessed'
         /\ Bounded(DOMAIN blocks)' /\ (ppc' = "scan" => ScanPlace')
<1>1. /\ UNCHANGED <<blocks, notes, wits>>
      /\ \/ UNCHANGED <<ppc, nfs, batch, bwits, scan>>
         \/ ppc' \in {"none", "open", "finish", "done"}
         \/ ppc = "recv" /\ ppc' \in {"recv", "load"} /\ UNCHANGED nfs
         \/ ppc = "details" /\ ppc' = "store" /\ UNCHANGED <<nfs, batch, bwits, scan>>
  <2>1. CASE Server
    BY <2>1 DEF Server, MineBlock, Reorg, dbVars, prVars
  <2>2. CASE Call
    BY <2>2 DEF Call, WarpStart, BeginPass, ConnectFail, Join, JoinPanic, Crash, CancelWarp, Die,
      ResetTasks, dbVars, prVars
  <2>3. CASE Downloader
    BY <2>3 DEF Downloader, TakeBlock, DetectReorg, StreamEnd, StreamShort, StreamError, Send,
      SendPanic, SendLast, dbVars, prVars
  <2>4. CASE UNCHANGED vars
    BY <2>4 DEF vars
  <2>5. CASE Recv \/ RecvClosed \/ ScanFail \/ DetailsOk \/ DetailsFail
    BY <2>5 DEF Recv, RecvClosed, ScanFail, DetailsOk, DetailsFail, ProcessorEnds, dbVars
  <2> QED BY <2>1, <2>2, <2>3, <2>4, <2>5
<1>2. /\ Written' => Written /\ UNCHANGED <<batch, bwits, scan>>
      /\ Looking' => Looking /\ UNCHANGED nfs
  BY <1>1 DEF Written, Looking
<1>3. /\ Chained' /\ DbRows' /\ DbWatch' /\ WrittenDb' /\ Witnessed' /\ Bounded(DOMAIN blocks)'
  BY <1>1, <1>2, QuietDb
<1>4. ppc' = "scan" => ScanDb' /\ ScanPlace'
  <2> SUFFICES ASSUME ppc' = "scan" PROVE ScanDb' /\ ScanPlace'
    OBVIOUS
  <2>1. ppc = "scan" /\ UNCHANGED <<nfs, batch, bwits, scan>>
    BY <1>1
  <2>2. Synced' = Synced
    BY <1>1, SyncedKept
  <2>3. Done' = Done /\ InBlock' = InBlock /\ At' = At
    BY <2>1, <2>2 DEF Done, InBlock, At
  <2>4. ScanPlace'
    BY <2>1, <2>3 DEF Good, Placing, ScanPlace, InBlock
  <2>5. Passed' = Passed /\ Seen' = Seen
    BY <2>1, <2>3 DEF Passed, Seen
  <2>6. ScanKnows(scan.notes, scan.new, nfs, Passed, Seen)
    BY <2>1 DEF Good, ScanDb
  <2>7. ScanKnows(scan'.notes, scan'.new, nfs', Passed, Seen)
    BY <2>1, <2>6
  <2>8. ScanDb'
    BY <1>1, <2>1, <2>5, <2>7, ScanKnowsAfter
  <2> QED BY <2>4, <2>8
<1>5. ScanDb'
  BY <1>4 DEF ScanDb
<1> QED BY <1>3, <1>4, <1>5

(* The steps of the scan leave the database alone. *)
LEMMA ScanningDb ==
  ASSUME Good, ScanItem \/ EndBlock \/ LoadTree, UNCHANGED <<scanned, laid>>
  PROVE  /\ Chained' /\ DbRows' /\ DbWatch' /\ ScanDb' /\ WrittenDb' /\ Witnessed'
         /\ Bounded(DOMAIN blocks)' /\ (ppc' = "scan" => ScanPlace')
<1>1. Placing /\ IInv
  BY DEF Good, Placing
<1>2. /\ UNCHANGED <<blocks, notes, wits>> /\ ppc' = "scan" /\ ScanPlace'
  <2>1. CASE ScanItem
    BY <1>1, <2>1, ScanMoves
  <2>2. CASE EndBlock
    BY <1>1, <2>2, BlockLeft
  <2>3. CASE LoadTree
    BY <1>1, <2>3, LoadPlace DEF LoadTree, dbVars
  <2> QED BY <2>1, <2>2, <2>3
<1>3. ScanDb'
  BY SpendScanned, DebitScanned, NoteScanned, OutputSkipped, LoadedDb DEF ScanItem
<1>4. ~Written' /\ ~Looking'
  BY <1>2 DEF Written, Looking
<1>5. Chained' /\ DbRows' /\ WrittenDb' /\ DbWatch' /\ Witnessed' /\ Bounded(DOMAIN blocks)'
  BY <1>2, <1>4, QuietDb
<1> QED BY <1>2, <1>3, <1>5

(* A step of the sync or of the server, with the history that it makes. *)
LEMMA GoodOfSync ==
  ASSUME Good, [Next]_vars, Scanned \/ UNCHANGED history, Commit \/ Store => Scanned, ~mixed'
  PROVE  Good'
<1>1. IInv' /\ Inside'
  BY StepInv, InsideStep DEF Good, Placing
<1> SUFFICES /\ Chained' /\ DbRows' /\ DbWatch' /\ ScanDb' /\ WrittenDb' /\ Witnessed'
             /\ Bounded(DOMAIN blocks)' /\ (ppc' = "scan" => ScanPlace')
  BY <1>1 DEF Good, Placing
<1>2. CASE Commit
  <2>1. UNCHANGED blocks /\ ppc' \in {"details", "store"}
    BY <1>2 DEF Commit
  <2>2. Bounded(DOMAIN blocks)'
    BY <2>1 DEF Good, Bounded, UpTo, HasMax
  <2> QED BY <1>2, <2>1, <2>2, CommittedDb
<1>3. CASE Store
  <2>1. ppc' = "recv"
    BY <1>3 DEF Store
  <2> QED BY <1>3, <2>1, StoredDb
<1>4. CASE ~Commit /\ ~Store
  <2>1. UNCHANGED <<scanned, laid>>
    <3>1. CASE UNCHANGED history
      BY <3>1 DEF history
    <3>2. CASE Scanned
      <4>1. ~(ppc = "scan" /\ ppc' \in {"details", "store"})
        <5>1. CASE Server \/ Call \/ Downloader
          BY <5>1 DEF Server, MineBlock, Reorg, Call, WarpStart, BeginPass, ConnectFail, Join,
            JoinPanic, Crash, CancelWarp, Die, ResetTasks, Downloader, TakeBlock, DetectReorg,
            StreamEnd, StreamShort, StreamError, Send, SendPanic, SendLast, prVars
        <5>2. CASE Processor
          BY <1>4, <5>2 DEF Processor, OpenDb, Recv, RecvClosed, LoadTree, ScanSpend, ScanNote,
            SkipOutput, ScanDebit, SkipSpend, ScanFail, EndBlock, DetailsOk, DetailsFail, Finish,
            ProcessorEnds
        <5>3. CASE UNCHANGED vars
          BY <5>3 DEF vars
        <5> QED BY <5>1, <5>2, <5>3 DEF Next
      <4> QED BY <3>2, <4>1 DEF Scanned
    <3> QED BY <3>1, <3>2
  <2>2. CASE Finish
    <3>1. ppc' = "done"
      BY <2>2 DEF Finish, ProcessorEnds
    <3> QED BY <2>1, <2>2, <3>1, FinishedDb
  <2>3. CASE OpenDb
    <3>1. UNCHANGED <<blocks, notes, wits>> /\ ppc' = "recv"
      BY <2>3 DEF OpenDb, dbVars
    <3>2. ~Written' /\ ScanDb'
      BY <3>1 DEF Written, ScanDb
    <3> QED BY <2>1, <2>3, <3>1, <3>2, QuietDb, OpenedDb
  <2>4. CASE ScanItem \/ EndBlock \/ LoadTree
    BY <2>1, <2>4, ScanningDb
  <2>5. CASE \/ Server \/ Call \/ Downloader \/ UNCHANGED vars
             \/ Recv \/ RecvClosed \/ ScanFail \/ DetailsOk \/ DetailsFail
    BY <2>1, <2>5, OthersDb
  <2> QED BY <1>4, <2>2, <2>3, <2>4, <2>5 DEF Next, Processor, ScanItem
<1> QED BY <1>2, <1>3, <1>4

-----------------------------------------------------------------------------
(* The rewind *)

(* What the resume point is when the blocks table is in order. *)
Resumed ==
  /\ Synced \in Block /\ Height[Synced] = SyncedHeight /\ SyncedHeight \in Nat
  /\ blocks = EmptyTable => Synced = Genesis
  /\ blocks # EmptyTable =>
       /\ SyncedHeight \in DOMAIN blocks /\ Synced = blocks[SyncedHeight].hash
       /\ \A h \in DOMAIN blocks : h <= SyncedHeight

\* A sync resumes from the highest checkpoint.
LEMMA ResumedIn == TypeOK /\ HasLast /\ CheckpointsExact => Resumed
<1> SUFFICES ASSUME TypeOK, HasLast, CheckpointsExact PROVE Resumed
  OBVIOUS
<1>1. /\ SyncedHeight \in Nat /\ Synced \in Block
      /\ blocks = EmptyTable => SyncedHeight = Height[Genesis] /\ Synced = Genesis
      /\ blocks # EmptyTable =>
           /\ SyncedHeight \in DOMAIN blocks
           /\ \A h \in DOMAIN blocks : h <= SyncedHeight
           /\ Synced = blocks[SyncedHeight].hash
  BY SyncedTyped
<1> QED BY <1>1 DEF Resumed, CheckpointsExact

\* The same after a step.
LEMMA ResumedAfter == (TypeOK /\ HasLast /\ CheckpointsExact)' => Resumed'
  BY ResumedIn, PTL

(* Of a set whose parts up to a height have a last member, the part below  *)
(* a height is such a set again, and has one itself.                       *)
LEMMA BoundedBelow ==
  ASSUME NEW S, S \subseteq Int, Bounded(S), NEW h \in Int
  PROVE  /\ Bounded({g \in S : g < h})
         /\ {g \in S : g < h} # {} => HasMax({g \in S : g < h})
<1>1. ASSUME NEW d \in Int, UpTo({g \in S : g < h}, d) # {}
      PROVE HasMax(UpTo({g \in S : g < h}, d))
  <2>1. PICK e \in Int : e = IF d < h THEN d ELSE h - 1
    OBVIOUS
  <2>2. \A g \in Int : g <= e <=> (g < h /\ g <= d)
    BY <2>1
  <2>3. UpTo({g \in S : g < h}, d) = UpTo(S, e)
    BY <2>2 DEF UpTo
  <2> QED BY <1>1, <2>3 DEF Bounded
<1>2. UpTo({g \in S : g < h}, h) = {g \in S : g < h}
  <2>1. \A g \in S : g < h => g <= h
    OBVIOUS
  <2> QED BY <2>1 DEF UpTo
<1> QED BY <1>1, <1>2 DEF Bounded

(* What trim_to_height leaves of a block row, of a witness and of a note.  *)
LEMMA TrimEffect ==
  ASSUME DbTypes, NEW h \in Nat, TrimToHeight(h)
  PROVE  /\ DbTypes'
         /\ DOMAIN blocks' = {g \in DOMAIN blocks : g < h}
         /\ \A g \in DOMAIN blocks' : blocks'[g] = blocks[g]
         /\ DOMAIN wits' = {k \in DOMAIN wits : k[2] < h}
         /\ \A k \in DOMAIN wits' : wits'[k] = wits[k]
         /\ DOMAIN notes' = {n \in DOMAIN notes : notes[n].height < h}
         /\ \A n \in DOMAIN notes' :
              /\ notes'[n].nf = notes[n].nf /\ notes'[n].height = notes[n].height
              /\ notes'[n].spent =
                   IF notes[n].spent # Null /\ notes[n].spent >= h THEN Null ELSE notes[n].spent
<1> DEFINE kept == RowsBelow(notes, h)
<1>1. /\ IsTable(blocks', Nat, BlockRow) /\ DOMAIN blocks' = {g \in DOMAIN blocks : g < h}
      /\ \A g \in DOMAIN blocks' : blocks'[g] = blocks[g]
  BY RestrictTable DEF DbTypes, TrimToHeight
<1>2. /\ IsTable(wits', NoteId \X Nat, Witness) /\ DOMAIN wits' = {k \in DOMAIN wits : k[2] < h}
      /\ \A k \in DOMAIN wits' : wits'[k] = wits[k]
  BY RestrictTable DEF DbTypes, TrimToHeight
<1>3. IsTable(txs', TxId, TxRow)
  BY RestrictTable DEF DbTypes, TrimToHeight
<1>4. /\ IsTable(kept, NoteId, NoteRow) /\ DOMAIN kept = {n \in DOMAIN notes : notes[n].height < h}
      /\ \A n \in DOMAIN kept : kept[n] = notes[n]
  BY RestrictTable DEF DbTypes, RowsBelow
<1> HIDE DEF kept
<1>5. /\ notes' = [n \in DOMAIN kept |->
                     IF kept[n].spent # Null /\ kept[n].spent >= h
                       THEN [kept[n] EXCEPT !.spent = Null] ELSE kept[n]]
  BY DEF TrimToHeight, Unspend, kept
<1>6. \A n \in DOMAIN kept : n \in NoteId /\ kept[n] \in NoteRow
  BY <1>4 DEF IsTable
<1>7. \A n \in DOMAIN kept :
        /\ notes'[n] \in NoteRow
        /\ notes'[n].nf = kept[n].nf /\ notes'[n].height = kept[n].height
        /\ notes'[n].spent =
             IF kept[n].spent # Null /\ kept[n].spent >= h THEN Null ELSE kept[n].spent
  BY <1>5, <1>6 DEF NoteRow
<1>8. IsTable(notes', NoteId, NoteRow) /\ DOMAIN notes' = DOMAIN kept
  BY <1>5, <1>6, <1>7 DEF IsTable
<1> QED BY <1>1, <1>2, <1>3, <1>4, <1>7, <1>8 DEF DbTypes

(* No sync runs while the wallet is rewound, or a tree state stored. *)
LEMMA NoneRuns ==
  ASSUME IInv, Between, pass = 0
  PROVE  dpc = "none" /\ ppc = "none"
  BY DEF Between, IInv, TInv, BatchShape

(* Nothing of a sync in the invariant where none runs. *)
LEMMA NothingRuns ==
  ASSUME ppc = "none"
  PROVE  PipelineLinked /\ LoadedTogether /\ DbWatch /\ ScanDb /\ WrittenDb
         /\ (ppc = "scan" => ScanPlace)
  BY DEF PipelineLinked, LoadedTogether, DbWatch, Looking, ScanDb, WrittenDb, Written

\* The same after a step.
LEMMA NothingRunsAfter ==
  (ppc = "none")' => (PipelineLinked /\ LoadedTogether /\ DbWatch /\ ScanDb /\ WrittenDb
                        /\ (ppc = "scan" => ScanPlace))'
  BY NothingRuns, PTL

(* The checkpoints and the witnesses after a rewind. *)
LEMMA RewoundRows ==
  ASSUME Good, Between, NEW h \in Nat, Rewind(h)
  PROVE  /\ IInv' /\ Resumed' /\ Inside' /\ Bounded(DOMAIN blocks)' /\ ppc' = "none"
         /\ Synced' \in Anc[Synced] /\ SyncedHeight' <= SyncedHeight
<1>1. /\ IInv /\ DOMAIN blocks \subseteq Nat /\ Bounded(DOMAIN blocks) /\ Inside
  BY DbBase DEF Good
<1>2. TypeOK /\ HasLast /\ BatchShape /\ Bounded(WitHeights) /\ DbTypes /\ CheckpointsExact
  BY <1>1 DEF IInv, TInv, TypeOK
<1>3. /\ DbTypes'
      /\ DOMAIN blocks' = {g \in DOMAIN blocks : g < h}
      /\ \A g \in DOMAIN blocks' : blocks'[g] = blocks[g]
      /\ DOMAIN wits' = {k \in DOMAIN wits : k[2] < h}
      /\ \A k \in DOMAIN wits' : wits'[k] = wits[k]
  BY <1>2, TrimEffect DEF Rewind
<1>4. pass = 0 /\ UNCHANGED <<tip, callVars, dlVars, chan, prVars>>
  BY DEF Rewind
<1>5. dpc = "none" /\ ppc = "none" /\ ppc' = "none"
  BY <1>1, <1>4, NoneRuns DEF prVars
<1>6. TypeOK'
  BY <1>2, <1>3, <1>4, Kept DEF TypeOK, ChanTypes
<1>7. HasLast' /\ Bounded(DOMAIN blocks)'
  <2>1. /\ Bounded({g \in DOMAIN blocks : g < h})
        /\ {g \in DOMAIN blocks : g < h} # {} => HasMax({g \in DOMAIN blocks : g < h})
    BY <1>1, BoundedBelow
  <2>2. blocks' # EmptyTable => DOMAIN blocks' # {}
    <3>1. IsTable(blocks', Nat, BlockRow)
      BY <1>3 DEF DbTypes
    <3> QED BY <3>1 DEF IsTable, EmptyTable
  <2> QED BY <1>3, <2>1, <2>2 DEF HasLast, Bounded, UpTo, HasMax
<1>8. BatchShape'
  BY <1>2, <1>4 DEF BatchShape, InBatch, dlVars, prVars
<1>9. Bounded(WitHeights)'
  <2>1. WitHeights' = {g \in WitHeights : g < h}
    BY <1>3 DEF WitHeights
  <2>2. WitHeights \subseteq Int
    BY <1>2 DEF DbTypes, IsTable, WitHeights
  <2>3. Bounded({g \in WitHeights : g < h})
    <3>1. Bounded(WitHeights) /\ h \in Int
      BY <1>2
    <3> QED BY <2>2, <3>1, BoundedBelow
  <2> QED BY <2>1, <2>3 DEF Bounded, UpTo, HasMax
<1>10. CheckpointsExact'
  BY <1>2, <1>3 DEF CheckpointsExact
<1>11. AnchorsAgree'
  BY <1>1, <1>3 DEF IInv, AnchorsAgree
<1>12. Flight'
  BY <1>1, <1>4 DEF IInv, Flight, dlVars
<1>13. IInv'
  BY <1>5, <1>6, <1>7, <1>8, <1>9, <1>10, <1>11, <1>12, NothingRunsAfter DEF IInv, TInv
<1>14. Resumed /\ Resumed'
  BY <1>2, <1>6, <1>7, <1>10, ResumedIn, ResumedAfter
<1>15. Inside'
  BY <1>1, <1>3, <1>4, <1>5, InsideKept DEF prVars, Written
<1>16. Synced' \in Anc[Synced]
  <2>1. CASE blocks' = EmptyTable
    BY <1>14, <2>1, LedgerAncestry DEF Resumed
  <2>2. CASE blocks' # EmptyTable
    <3>1. /\ SyncedHeight' \in DOMAIN blocks' /\ Synced' = blocks'[SyncedHeight'].hash
      BY <1>14, <2>2 DEF Resumed
    <3>2. /\ SyncedHeight' \in DOMAIN blocks /\ Synced' = blocks[SyncedHeight'].hash
      BY <1>3, <3>1
    <3>3. blocks # EmptyTable
      BY <3>2, EmptyTableTyped
    <3>4. /\ SyncedHeight \in DOMAIN blocks /\ Synced = blocks[SyncedHeight].hash
          /\ SyncedHeight' <= SyncedHeight
      BY <1>14, <3>2, <3>3 DEF Resumed
    <3> QED BY <1>2, <3>2, <3>4 DEF CheckpointsExact
  <2> QED BY <2>1, <2>2
<1>17. SyncedHeight' <= SyncedHeight
  <2>1. /\ Synced \in Block /\ Synced' \in Block /\ Height[Synced] = SyncedHeight
        /\ Height[Synced'] = SyncedHeight'
    BY <1>14 DEF Resumed
  <2> QED BY <1>16, <2>1, Ancestor
<1> QED BY <1>5, <1>7, <1>13, <1>14, <1>15, <1>16, <1>17

(* The notes after a rewind: below the heights where the blocks are on one *)
(* chain they are those of the scanned blocks that are left.               *)
LEMMA RewoundNotes ==
  ASSUME Good, NEW h \in Nat, Rewind(h)
  PROVE  DbRows'
<1> DEFINE B == scanned
           C == scanned'
<1>1. /\ Made(notes, B) /\ OnePerNf(notes) /\ IsTable(notes, NoteId, NoteRow)
      /\ B \subseteq Block \ {Genesis}
      /\ \A k \in Nat : OneChain(B, k) => Holds(notes, B, k)
  BY DbBase
<1>2. /\ DOMAIN notes' = {n \in DOMAIN notes : notes[n].height < h}
      /\ \A n \in DOMAIN notes' :
           /\ notes'[n].nf = notes[n].nf /\ notes'[n].height = notes[n].height
           /\ notes'[n].spent =
                IF notes[n].spent # Null /\ notes[n].spent >= h THEN Null ELSE notes[n].spent
  <2>1. DbTypes
    BY DEF Good, Placing, IInv, TInv, TypeOK
  <2> QED BY <2>1, TrimEffect DEF Rewind
<1>3. /\ C = IF OneChain(B, h) THEN {b \in B : Height[b] < h} ELSE B
      /\ C \subseteq B /\ \A b \in B : Height[b] < h => b \in C
      /\ \A b \in B : Height[b] \in Nat
  <2>1. C = IF OneChain(B, h) THEN {b \in B : Height[b] < h} ELSE B
    BY DEF Rewind
  <2>2. \A b \in B : Height[b] \in Nat
    BY <1>1, LedgerTypes
  <2> HIDE DEF B, C
  <2> QED BY <2>1, <2>2
<1>4. \A n \in DOMAIN notes' : notes'[n].spent \notin Unspoken =>
        notes'[n].spent = notes[n].spent /\ ~(notes[n].spent >= h)
  BY <1>2 DEF Unspoken
<1>5. \A n \in DOMAIN notes' : notes[n].spent \notin Unspoken /\ ~(notes[n].spent >= h) =>
        notes'[n].spent \notin Unspoken
  BY <1>2
<1> HIDE DEF B, C
<1>6. \A a : \A n \in DOMAIN notes' : MadeIn(n, notes'[n], a) <=> MadeIn(n, notes[n], a)
  BY <1>2 DEF MadeIn
<1>7. Made(notes', C)
  <2> SUFFICES ASSUME NEW n \in DOMAIN notes' PROVE \E a \in C : MadeIn(n, notes'[n], a)
    BY DEF Made
  <2>1. PICK a \in B : MadeIn(n, notes[n], a)
    BY <1>1, <1>2 DEF Made
  <2>2. Height[a] < h
    BY <1>2, <2>1 DEF MadeIn
  <2> QED BY <1>3, <1>6, <2>1, <2>2
<1>8. OnePerNf(notes')
  BY <1>1, <1>2 DEF OnePerNf
<1>9. ASSUME NEW k \in Nat, OneChain(C, k) PROVE Holds(notes', C, k)
  <2>1. PICK m \in Nat : /\ OneChain(B, m) /\ m <= h
                         /\ \A x \in Nat : x < k /\ x < h => x < m
                         /\ \A a \in C : Height[a] < k => Height[a] < m
    <3>1. CASE OneChain(B, h)
      BY <1>3, <3>1
    <3>2. CASE ~OneChain(B, h)
      <4>1. C = B
        BY <1>3, <3>2
      <4>2. ~(h <= k)
        BY <1>1, <1>9, <3>2, <4>1, ChainSmaller
      <4>3. k <= h
        BY <4>2
      <4> QED BY <1>9, <4>1, <4>3
    <3> QED BY <3>1, <3>2
  <2>2. SpentInside(notes, B, m) /\ NotesHeld(notes, B, m) /\ SpendsHeld(notes, B, m)
    BY <1>1, <2>1 DEF Holds
  <2>3. ASSUME NEW n \in DOMAIN notes', notes'[n].height < k
        PROVE  n \in DOMAIN notes /\ notes[n].height < m
    <3>1. n \in DOMAIN notes /\ notes[n].height < h /\ notes[n].height < k
      BY <1>2, <2>3
    <3>2. notes[n].height \in Nat
      BY <1>1, <3>1, RowTyped
    <3> QED BY <2>1, <3>1, <3>2
  <2>4. SpentInside(notes', C, k)
    <3> SUFFICES ASSUME NEW n \in DOMAIN notes', notes'[n].height < k,
                        notes'[n].spent \notin Unspoken
                 PROVE \E a \in C : notes'[n].spent = Height[a] /\ notes'[n].nf \in NfsIn(a)
      BY DEF SpentInside
    <3>1. notes'[n].spent = notes[n].spent /\ ~(notes[n].spent >= h)
      BY <1>4
    <3>2. PICK a \in B : notes[n].spent = Height[a] /\ notes[n].nf \in NfsIn(a)
      BY <2>2, <2>3, <3>1 DEF SpentInside
    <3>3. Height[a] < h
      BY <1>3, <3>1, <3>2
    <3> QED BY <1>2, <1>3, <3>1, <3>2, <3>3
  <2>5. NotesHeld(notes', C, k)
    <3> SUFFICES ASSUME NEW a \in C, Height[a] < k, NEW p \in Nat, OwnLeaf(a, p)
                 PROVE \E n \in DOMAIN notes' : IsRowOf(notes'[n], a, p)
      BY DEF NotesHeld
    <3>1. a \in B /\ Height[a] < m
      BY <1>3, <2>1
    <3>2. PICK n \in DOMAIN notes : IsRowOf(notes[n], a, p)
      BY <2>2, <3>1 DEF NotesHeld
    <3>3. Height[a] < h
      BY <1>3, <2>1, <3>1
    <3>4. n \in DOMAIN notes'
      BY <1>2, <3>2, <3>3 DEF IsRowOf
    <3> QED BY <1>2, <3>2, <3>4 DEF IsRowOf
  <2>6. SpendsHeld(notes', C, k)
    <3> SUFFICES ASSUME NEW n \in DOMAIN notes', NEW a \in C, NEW c \in C,
                        notes'[n].height < k, Height[a] < k,
                        MadeIn(n, notes'[n], c), notes'[n].nf \in NfsIn(a)
                 PROVE notes'[n].spent \notin Unspoken
      BY DEF SpendsHeld
    <3>1. a \in B /\ c \in B /\ Height[a] < m
      BY <1>3, <2>1
    <3>2. n \in DOMAIN notes /\ notes[n].height < m /\ MadeIn(n, notes[n], c)
          /\ notes[n].nf \in NfsIn(a)
      BY <1>2, <1>6, <2>3
    <3>3. notes[n].spent = Height[a]
      <4>1. B \subseteq Block \ {Genesis} /\ OneChain(B, m)
        BY <1>1, <2>1
      <4>2. SpentInside(notes, B, m) /\ SpendsHeld(notes, B, m)
        BY <2>2
      <4>3. notes[n].spent \notin Unspoken
        BY <3>1, <3>2, <4>2 DEF SpendsHeld
      <4>4. PICK d \in B : notes[n].spent = Height[d] /\ notes[n].nf \in NfsIn(d)
        BY <3>2, <4>2, <4>3 DEF SpentInside
      <4>5. Comparable(a, d) /\ a \in Block /\ d \in Block
        BY <3>1, <4>1, OnOneBranch
      <4> QED BY <3>2, <4>4, <4>5, RevealedOnce
    <3>4. Height[a] \notin Unspoken
      BY <1>1, <3>1, HeightSpoken
    <3>5. ~(Height[a] >= h)
      BY <1>3, <2>1, <3>1
    <3> QED BY <1>5, <3>3, <3>4, <3>5
  <2> QED BY <2>4, <2>5, <2>6 DEF Holds
<1> QED BY <1>7, <1>8, <1>9 DEF DbRows, C

(* A rewind keeps the invariant. *)
LEMMA GoodOfRewind ==
  ASSUME Good, Between, NEW h \in Nat, Rewind(h)
  PROVE  Good'
<1>1. /\ IInv' /\ Resumed' /\ Inside' /\ Bounded(DOMAIN blocks)' /\ ppc' = "none"
      /\ Synced' \in Anc[Synced] /\ SyncedHeight' <= SyncedHeight
  BY RewoundRows
<1>2. DbRows'
  BY RewoundNotes
<1>3. /\ DbWatch' /\ ScanDb' /\ WrittenDb' /\ (ppc' = "scan" => ScanPlace')
  BY <1>1, NothingRunsAfter
<1>4. /\ IInv /\ DOMAIN blocks \subseteq Nat /\ IsTable(notes, NoteId, NoteRow)
      /\ laid \subseteq Nat
      /\ scanned \subseteq Block \ {Genesis} /\ \A b \in scanned : Comparable(b, Synced)
      /\ Synced \in Block /\ SyncedHeight \in Nat
  BY DbBase
<1>5. /\ scanned' \subseteq scanned /\ \A b \in scanned : Height[b] < h => b \in scanned'
      /\ laid' = {g \in laid : g <= SyncedHeight'}
  BY DEF Rewind
<1>6. Chained'
  <2> SUFFICES ASSUME NEW b \in scanned' PROVE Comparable(b, Synced')
    BY <1>4, <1>5 DEF Chained
  <2>1. b \in Block /\ Comparable(b, Synced)
    BY <1>4, <1>5
  <2>2. CASE b \in Anc[Synced]
    BY <1>1, <1>4, <2>2, OfOneChain
  <2>3. CASE Synced \in Anc[b]
    BY <1>1, <2>1, <2>3, Ancestor DEF Comparable
  <2> QED BY <2>1, <2>2, <2>3 DEF Comparable
<1>7. Witnessed'
  <2> SUFFICES ASSUME NEW g \in DOMAIN blocks', NEW n \in DOMAIN notes',
                      notes'[n].height <= g, Above(notes[n].height, g)',
                      \A a \in scanned' : Height[a] <= g => notes'[n].nf \notin NfsIn(a)
               PROVE <<n, g>> \in DOMAIN wits'
    BY DEF Witnessed
  <2>1. DbTypes
    BY <1>4 DEF IInv, TInv, TypeOK
  <2>2. /\ DOMAIN blocks' = {x \in DOMAIN blocks : x < h}
        /\ DOMAIN wits' = {k \in DOMAIN wits : k[2] < h}
        /\ DOMAIN notes' = {m \in DOMAIN notes : notes[m].height < h}
        /\ notes'[n].nf = notes[n].nf /\ notes'[n].height = notes[n].height
    BY <2>1, TrimEffect DEF Rewind
  <2>3. g \in DOMAIN blocks /\ g < h /\ n \in DOMAIN notes /\ notes[n].height <= g /\ g \in Nat
    BY <1>4, <2>2
  <2>4. g <= SyncedHeight' /\ SyncedHeight' \in Nat
    <3>1. blocks' # EmptyTable
      BY EmptyTableTyped
    <3> QED BY <1>1, <3>1 DEF Resumed
  <2>5. ASSUME NEW y \in Gaps \cup laid, y <= g PROVE notes[n].height > y
    <3>1. CASE y \in laid
      <4>1. y \in Nat /\ y <= SyncedHeight'
        <5>1. y \in Nat
          BY <1>4, <3>1
        <5> QED BY <2>3, <2>4, <2>5, <5>1
      <4>2. y \in laid'
        BY <1>5, <3>1, <4>1
      <4> QED BY <2>2, <2>5, <4>2 DEF Above
    <3>2. CASE y \in Gaps
      <4>1. y \in Int /\ Height[Genesis] + 1 <= y /\ y \notin {Height[b] : b \in scanned}
        BY <3>2 DEF Gaps
      <4>2. y <= SyncedHeight'
        BY <2>3, <2>4, <2>5, <4>1
      <4>3. Height[Genesis] + 1 \in Int
        BY LedgerTypes
      <4>4. y \in (Height[Genesis] + 1)..SyncedHeight'
        BY <2>4, <4>1, <4>2, <4>3
      <4>5. y \in Gaps'
        BY <1>5, <4>1, <4>4 DEF Gaps
      <4> QED BY <2>2, <2>5, <4>5 DEF Above
    <3> QED BY <3>1, <3>2
  <2>6. ASSUME NEW a \in scanned, Height[a] <= g PROVE notes[n].nf \notin NfsIn(a)
    <3>1. Height[a] \in Nat
      BY <1>4, LedgerTypes
    <3>2. Height[a] < h
      BY <2>3, <2>6, <3>1
    <3> QED BY <1>5, <2>2, <2>6, <3>2
  <2>7. <<n, g>> \in DOMAIN wits
    BY <2>3, <2>5, <2>6 DEF Good, Witnessed, Above
  <2> QED BY <2>2, <2>3, <2>7
<1> QED BY <1>1, <1>2, <1>3, <1>6, <1>7 DEF Good, Placing

-----------------------------------------------------------------------------
(* The block row that ends a rewind or a skip *)

(* A block row that is there already is kept, and nothing else is written. *)
LEMMA LaidAgain ==
  ASSUME Good, StoreTreeState, ~mixed', rheight \in DOMAIN blocks
  PROVE  Good'
<1>1. /\ \E b \in BlockAt(rheight) :
           blocks' = Insert(blocks, rheight, [hash |-> rblock, tree |-> TreeState(b)])
      /\ UNCHANGED <<tip, notes, txs, wits, callVars, dlVars, chan, prVars>>
      /\ UNCHANGED <<scanned, laid>>
  BY DEF StoreTreeState
<1>2. blocks' = blocks
  <2>1. IsTable(blocks, Nat, BlockRow)
    BY DEF Good, Placing, IInv, TInv, TypeOK, DbTypes
  <2>2. \A r : Insert(blocks, rheight, r) = [h \in DOMAIN blocks |-> blocks[h]]
    BY DEF Insert, InsertAll
  <2> QED BY <1>1, <2>1, <2>2 DEF IsTable
<1>3. UNCHANGED vars
  BY <1>1, <1>2 DEF vars, callVars, dlVars, prVars
<1>4. UNCHANGED <<blocks, notes, wits>> /\ UNCHANGED <<scanned, laid>>
  BY <1>1, <1>2
<1>5. IInv' /\ Inside'
  BY <1>3, StepInv, InsideStep DEF Good, Placing
<1>6. /\ Chained' /\ DbRows' /\ DbWatch' /\ ScanDb' /\ WrittenDb' /\ Witnessed'
      /\ Bounded(DOMAIN blocks)' /\ (ppc' = "scan" => ScanPlace')
  BY <1>3, <1>4, OthersDb
<1> QED BY <1>5, <1>6 DEF Good, Placing

(* A new block row is the last one, of a block that all scanned blocks are *)
(* ancestors of.                                                           *)
LEMMA LaidAbove ==
  ASSUME Good, Between, StoreTreeState, ~mixed', rheight \notin DOMAIN blocks
  PROVE  Good'
<1>1. PICK b \in BlockAt(rheight) :
        /\ blocks' = Insert(blocks, rheight, [hash |-> rblock, tree |-> TreeState(b)])
        /\ mixed' = (mixed \/ b # rblock \/ ~(scanned \cup {Synced} \subseteq Anc[b]))
  BY DEF StoreTreeState
<1>2. /\ laid' = laid \cup {rheight} /\ rpc = "tree"
      /\ UNCHANGED <<tip, notes, txs, wits, callVars, dlVars, chan, prVars, scanned>>
  BY DEF StoreTreeState
<1>3. /\ b \in Block /\ Height[b] = rheight /\ rheight \in Nat /\ b = rblock
      /\ \A a \in scanned : a \in Anc[b]
      /\ Synced \in Anc[b]
  <2>1. b \in Block /\ Height[b] = rheight
    BY Ancestor DEF BlockAt, Between
  <2> QED BY <1>1, <2>1 DEF Between
<1>4. /\ IInv /\ Inside /\ IsTable(notes, NoteId, NoteRow) /\ laid \subseteq Nat
      /\ DOMAIN blocks \subseteq Nat /\ \A g \in DOMAIN blocks : g <= SyncedHeight
      /\ Synced \in Block /\ Height[Synced] = SyncedHeight /\ SyncedHeight \in Nat
      /\ Bounded(DOMAIN blocks)
  BY DbBase DEF Good
<1>5. TypeOK /\ HasLast /\ BatchShape /\ Bounded(WitHeights) /\ DbTypes /\ CheckpointsExact
  BY <1>4 DEF IInv, TInv, TypeOK
<1>6. dpc = "none" /\ ppc = "none" /\ ppc' = "none"
  BY <1>2, <1>4, NoneRuns DEF prVars, Between
<1>7. SyncedHeight <= rheight
  BY <1>3, <1>4, Ancestor
<1>8. /\ IsTable(blocks', Nat, BlockRow)
      /\ DOMAIN blocks' = DOMAIN blocks \cup {rheight}
      /\ \A g \in DOMAIN blocks : blocks'[g] = blocks[g]
      /\ blocks'[rheight].hash = b /\ blocks'[rheight].tree = Leaves[b]
  <2>1. IsTable(blocks, Nat, BlockRow)
    BY <1>5 DEF DbTypes
  <2>2. [hash |-> b, tree |-> Leaves[b]] \in BlockRow
    BY <1>3, LedgerTypes DEF BlockRow
  <2>3. blocks' = Insert(blocks, rheight, [hash |-> b, tree |-> Leaves[b]])
    BY <1>1, <1>3 DEF TreeState
  <2>4. \E r \in BlockRow : r.hash = b /\ r.tree = Leaves[b] /\ blocks' = Insert(blocks, rheight, r)
    BY <2>2, <2>3
  <2>5. PICK r \in BlockRow : /\ r.hash = b /\ r.tree = Leaves[b]
                              /\ blocks' = Insert(blocks, rheight, r)
    BY <2>4
  <2>6. /\ IsTable(blocks', Nat, BlockRow)
        /\ DOMAIN blocks' = DOMAIN blocks \cup {rheight}
        /\ \A g \in DOMAIN blocks : blocks'[g] = blocks[g]
        /\ blocks'[rheight] = r
    <3>1. /\ IsTable(Insert(blocks, rheight, r), Nat, BlockRow)
          /\ DOMAIN Insert(blocks, rheight, r) = DOMAIN blocks \cup {rheight}
          /\ \A g \in DOMAIN blocks : Insert(blocks, rheight, r)[g] = blocks[g]
          /\ Insert(blocks, rheight, r)[rheight] = r
      <4>1. rheight \in Nat
        BY <1>3
      <4> QED BY <2>1, <4>1 DEF IsTable, Insert, InsertAll
    <3> QED BY <2>5, <3>1
  <2> QED BY <2>5, <2>6
<1>9. TypeOK'
  <2>1. DbTypes'
    BY <1>2, <1>5, <1>8 DEF DbTypes
  <2> QED BY <1>2, <1>5, <2>1, Kept DEF TypeOK, ChanTypes
<1>10. \A g \in DOMAIN blocks' : g <= rheight /\ g \in Nat
  BY <1>3, <1>4, <1>7, <1>8
<1>11. HasLast'
  BY <1>8, <1>10 DEF HasLast, HasMax
<1>12. Bounded(DOMAIN blocks)'
  <2>1. Bounded(DOMAIN blocks \cup {rheight})
    BY <1>3, <1>4, BoundedAdd
  <2> QED BY <1>8, <2>1 DEF Bounded, UpTo, HasMax
<1>13. BatchShape' /\ Flight'
  BY <1>2, <1>4, <1>5 DEF BatchShape, InBatch, dlVars, prVars, IInv, Flight
<1>14. Bounded(WitHeights)'
  BY <1>2, <1>5 DEF WitHeights, Bounded, UpTo, HasMax
<1>15. CheckpointsExact'
  <2> SUFFICES ASSUME NEW k \in DOMAIN blocks'
               PROVE /\ Height[blocks'[k].hash] = k
                     /\ blocks'[k].tree = Leaves[blocks'[k].hash]
                     /\ \A g \in DOMAIN blocks' :
                          g <= k => blocks'[g].hash \in Anc[blocks'[k].hash]
    BY DEF CheckpointsExact
  <2>1. CASE k = rheight
    <3>1. ASSUME NEW g \in DOMAIN blocks PROVE blocks[g].hash \in Anc[b]
      <4>1. /\ blocks # EmptyTable
        BY EmptyTableTyped
      <4>2. SyncedHeight \in DOMAIN blocks /\ Synced = blocks[SyncedHeight].hash
        BY <1>5, <4>1, SyncedTyped
      <4>3. blocks[g].hash \in Anc[Synced]
        BY <1>4, <1>5, <4>2 DEF CheckpointsExact
      <4> QED BY <1>3, <4>3, Ancestor
    <3>2. b \in Anc[b]
      BY <1>3, LedgerAncestry
    <3> QED BY <1>3, <1>8, <2>1, <3>1, <3>2
  <2>2. CASE k # rheight
    <3>1. k \in DOMAIN blocks /\ blocks'[k] = blocks[k]
      BY <1>8, <2>2
    <3>2. ASSUME NEW g \in DOMAIN blocks', g <= k PROVE blocks'[g].hash \in Anc[blocks[k].hash]
      <4>1. g # rheight
        BY <1>10, <2>2, <3>2, <1>3
      <4>2. g \in DOMAIN blocks /\ blocks'[g] = blocks[g]
        BY <1>8, <4>1
      <4> QED BY <1>5, <3>1, <3>2, <4>2 DEF CheckpointsExact
    <3> QED BY <1>5, <3>1, <3>2 DEF CheckpointsExact
  <2> QED BY <2>1, <2>2
<1>16. AnchorsAgree'
  BY <1>2, <1>4, <1>8 DEF IInv, AnchorsAgree
<1>17. /\ PipelineLinked' /\ LoadedTogether' /\ DbWatch' /\ ScanDb' /\ WrittenDb'
       /\ (ppc' = "scan" => ScanPlace')
  BY <1>6, NothingRunsAfter
<1>18. IInv'
  BY <1>9, <1>11, <1>13, <1>14, <1>15, <1>16, <1>17 DEF IInv, TInv
<1>19. Inside'
  BY <1>2, <1>4, <1>6, InsideKept DEF prVars, Written
<1>20. Synced' = b /\ SyncedHeight' = rheight
  <2>1. Resumed'
    BY <1>9, <1>11, <1>15, ResumedAfter
  <2>2. blocks' # EmptyTable
    BY <1>8, EmptyTableTyped
  <2>3. /\ SyncedHeight' \in DOMAIN blocks' /\ Synced' = blocks'[SyncedHeight'].hash
        /\ rheight <= SyncedHeight'
    BY <1>8, <2>1, <2>2 DEF Resumed
  <2>4. SyncedHeight' = rheight
    BY <1>3, <1>10, <2>3
  <2> QED BY <1>8, <2>3, <2>4
<1>21. Chained'
  <2>1. \A a \in scanned' : a \in Block \ {Genesis} /\ Comparable(a, Synced')
    BY <1>2, <1>3, <1>20 DEF Good, Chained, Comparable
  <2> QED BY <1>2, <1>3, <1>4, <2>1 DEF Chained
<1>22. DbRows'
  BY <1>2 DEF Good, DbRows
<1>23. Witnessed'
  <2> SUFFICES ASSUME NEW g \in DOMAIN blocks', NEW n \in DOMAIN notes,
                      notes[n].height <= g, Above(notes[n].height, g)',
                      \A a \in scanned : Height[a] <= g => notes[n].nf \notin NfsIn(a)
               PROVE <<n, g>> \in DOMAIN wits
    BY <1>2 DEF Witnessed
  <2>1. g # rheight
    <3>1. CASE g = rheight
      <4>1. rheight \in laid' /\ notes[n].height \in Nat
        BY <1>2, <1>4, RowTyped
      <4>2. notes'[n].height > rheight
        BY <1>2, <1>3, <3>1, <4>1 DEF Above
      <4> QED BY <1>2, <1>3, <3>1, <4>1, <4>2
    <3> QED BY <3>1
  <2>2. g \in DOMAIN blocks
    BY <1>8, <2>1
  <2>3. \A y \in Gaps : y \in Gaps'
    <3>1. \A y \in Gaps : y \in Int /\ Height[Genesis] + 1 <= y /\ y <= SyncedHeight
                          /\ y \notin {Height[a] : a \in scanned}
      BY DEF Gaps
    <3>2. \A y \in Gaps : y \in (Height[Genesis] + 1)..rheight
      BY <1>3, <1>4, <1>7, <3>1, LedgerTypes
    <3> QED BY <1>2, <1>20, <3>1, <3>2 DEF Gaps
  <2>4. Above(notes[n].height, g)
    BY <1>2, <2>3 DEF Above
  <2> QED BY <2>2, <2>4 DEF Good, Witnessed
<1> QED BY <1>12, <1>17, <1>18, <1>19, <1>21, <1>22, <1>23 DEF Good, Placing

-----------------------------------------------------------------------------
(* The invariant *)

\* Between passes of sync the calls run, one at a time.
LEMMA BetweenStep ==
  ASSUME Between, [RNext]_rvars
  PROVE  Between'
<1>1. \A b \in Block : Height[b] \in Nat
  BY LedgerTypes
<1>2. CASE Server /\ UNCHANGED <<rpcVars, history>>
  BY <1>2 DEF Between, Server, MineBlock, Reorg, callVars, dlVars, rpcVars
<1>3. CASE Sync /\ UNCHANGED rpcVars
  <2>1. tip' = tip /\ UNCHANGED rpcVars
    BY <1>3 DEF Sync, Call, WarpStart, BeginPass, ConnectFail, Join, JoinPanic, Crash,
      CancelWarp, Die, Downloader, TakeBlock, DetectReorg, StreamEnd, StreamShort, StreamError,
      Send, SendPanic, SendLast, Processor, OpenDb, Recv, RecvClosed, LoadTree, ScanSpend,
      ScanNote, SkipOutput, ScanDebit, SkipSpend, ScanFail, EndBlock, Commit, DetailsOk,
      DetailsFail, Store, Finish
  <2>2. pass' = 0 => dpc' = "none"
    <3>1. CASE Call
      BY <3>1 DEF Between, Call, WarpStart, BeginPass, ConnectFail, Join, JoinPanic, Crash,
        CancelWarp, Die, ResetTasks, dlVars
    <3>2. CASE Downloader
      BY <3>2 DEF Between, Downloader, TakeBlock, Streamed, DetectReorg, StreamEnd, StreamShort,
        StreamError, Send, SendPanic, SendLast, DownloaderEnds, callVars
    <3>3. CASE Processor
      BY <3>3 DEF Between, Processor, OpenDb, Recv, RecvClosed, LoadTree, ScanSpend, ScanNote,
        SkipOutput, ScanDebit, SkipSpend, ScanFail, EndBlock, Commit, DetailsOk, DetailsFail,
        Store, Finish, callVars, dlVars
    <3> QED BY <1>3, <3>1, <3>2, <3>3 DEF Sync
  <2>3. rpc # "idle" => pass' = pass
    <3>1. CASE Downloader
      BY <3>1 DEF Downloader, TakeBlock, DetectReorg, StreamEnd, StreamShort,
        StreamError, Send, SendPanic, SendLast, callVars
    <3>2. CASE Processor
      BY <3>2 DEF Processor, OpenDb, Recv, RecvClosed, LoadTree, ScanSpend, ScanNote,
        SkipOutput, ScanDebit, SkipSpend, ScanFail, EndBlock, Commit, DetailsOk, DetailsFail,
        Store, Finish, callVars
    <3> QED BY <1>3, <3>1, <3>2 DEF Sync
  <2> QED BY <2>1, <2>2, <2>3 DEF Between, rpcVars
<1>4. CASE \E b \in Block : Rewind(Height[b])
  BY <1>1, <1>4 DEF Between, Rewind, callVars, dlVars
<1>5. CASE Skip
  BY <1>1, <1>5 DEF Between, Skip, vars
<1>6. CASE FetchBlock
  <2>1. rblock' \in Block /\ Height[rblock'] = rheight
    BY <1>6, Ancestor DEF FetchBlock, BlockAt, Between
  <2> QED BY <1>6, <2>1 DEF Between, FetchBlock, vars
<1>7. CASE StoreTreeState
  BY <1>7 DEF Between, StoreTreeState, callVars, dlVars
<1>8. CASE RequestFails
  BY <1>8 DEF Between, RequestFails, dlVars
<1>9. CASE UNCHANGED rvars
  BY <1>9 DEF Between, rvars, vars, rpcVars
<1> QED BY <1>2, <1>3, <1>4, <1>5, <1>6, <1>7, <1>8, <1>9 DEF RNext

(* A step that only changes the requests and the failures. *)
LEMMA GoodKept ==
  ASSUME Good,
         UNCHANGED <<tip, dbVars, pass, result, cancel, dlVars, chan, prVars>>,
         UNCHANGED <<scanned, laid>>, faults' \in 0..MaxFaults
  PROVE  Good'
<1>1. UNCHANGED <<blocks, notes, txs, wits, ppc, nfs, batch, tree, bwits, scan, dpc, chan, outbox,
                  cbs, dnext, dprev, dres>>
  BY DEF dbVars, dlVars, prVars
<1>2. IInv /\ Inside
  BY DEF Good, Placing
<1>3. TInv'
  <2>1. TypeOK'
    <3>1. CallTypes'
      BY <1>2 DEF IInv, TInv, TypeOK, CallTypes
    <3> QED BY <1>2, <3>1, Kept DEF IInv, TInv, TypeOK, ChanTypes
  <2>2. HasLast' /\ BatchShape' /\ Bounded(WitHeights)'
    BY <1>1, <1>2 DEF IInv, TInv, HasLast, HasMax, BatchShape, InBatch, WitHeights, Bounded, UpTo
  <2> QED BY <2>1, <2>2 DEF TInv
<1>4. CheckpointsExact' /\ AnchorsAgree' /\ Flight' /\ LoadedTogether'
  BY <1>1, <1>2 DEF IInv, CheckpointsExact, AnchorsAgree, Flight, LoadedTogether
<1>5. PipelineLinked'
  BY <1>1, <1>2, ChunksKept DEF IInv, PipelineLinked, Linkage
<1>6. IInv'
  BY <1>3, <1>4, <1>5 DEF IInv
<1>7. Inside'
  BY <1>1, <1>2, InsideKept DEF Written
<1>8. Synced' = Synced
  BY <1>1, SyncedKept
<1>9. Done' = Done /\ InBlock' = InBlock /\ At' = At
  BY <1>1, <1>8 DEF Done, InBlock, At
<1>10. ppc' = "scan" => ScanPlace'
  BY <1>1, <1>9 DEF Good, Placing, ScanPlace, InBlock
<1>11. /\ Chained' /\ DbRows' /\ DbWatch' /\ WrittenDb' /\ Witnessed' /\ Bounded(DOMAIN blocks)'
  <2>1. Written' => Written /\ UNCHANGED <<batch, bwits, scan>>
    BY <1>1 DEF Written
  <2>2. Looking' => Looking /\ UNCHANGED nfs
    BY <1>1 DEF Looking
  <2> QED BY <1>1, <2>1, <2>2, QuietDb
<1>12. ScanDb'
  <2> SUFFICES ASSUME ppc' = "scan" PROVE ScanDb'
    BY DEF ScanDb
  <2>1. Passed' = Passed /\ Seen' = Seen
    BY <1>1, <1>9 DEF Passed, Seen
  <2>2. ScanKnows(scan.notes, scan.new, nfs, Passed, Seen)
    BY <1>1 DEF Good, ScanDb
  <2>3. ScanKnows(scan'.notes, scan'.new, nfs', Passed, Seen)
    BY <1>1, <2>2
  <2> QED BY <1>1, <2>1, <2>3, ScanKnowsAfter
<1> QED BY <1>6, <1>7, <1>10, <1>11, <1>12 DEF Good, Placing

\* An empty database stands at its first block.
LEMMA GInvInit == RInit => GInv
<1> SUFFICES ASSUME RInit PROVE GInv
  OBVIOUS
<1>1. Init /\ rpc = "idle" /\ rheight = 0 /\ rblock = Genesis /\ scanned = {} /\ laid = {}
  BY DEF RInit
<1>2. IInv /\ Inside /\ ppc = "none" /\ dpc = "none" /\ tip \in Block
  BY <1>1, InitInv, InsideInit DEF Init, Idle
<1>3. DOMAIN blocks = {} /\ DOMAIN notes = {}
  BY <1>1, EmptyTableTyped DEF Init
<1>4. Bounded(DOMAIN blocks) /\ Chained /\ Witnessed
  BY <1>1, <1>3 DEF Bounded, UpTo, Chained, Witnessed
<1>5. DbRows
  BY <1>1, <1>3 DEF DbRows, Made, OnePerNf, Holds, SpentInside, NotesHeld, SpendsHeld
<1>6. Good
  BY <1>2, <1>4, <1>5, NothingRuns DEF Good, Placing
<1>7. Between
  BY <1>1, <1>2, LedgerTypes DEF Between
<1> QED BY <1>6, <1>7 DEF GInv

\* Every step, the passes of sync by the action and the calls one by one.
LEMMA GInvStep == GInv /\ [RNext]_rvars => GInv'
<1> SUFFICES ASSUME GInv, [RNext]_rvars PROVE GInv'
  OBVIOUS
<1>1. Between /\ Between'
  BY BetweenStep DEF GInv
<1> SUFFICES ASSUME ~mixed' PROVE Good'
  BY <1>1 DEF GInv
<1>2. ~mixed
  BY DEF RNext, Scanned, Rewind, Skip, FetchBlock, StoreTreeState, RequestFails, history, rvars
<1>3. Good
  BY <1>2 DEF GInv
<1>4. CASE Server /\ UNCHANGED <<rpcVars, history>>
  <2>1. ~Commit /\ ~Store
    BY <1>4 DEF Server, MineBlock, Reorg, Commit, Store, prVars
  <2> QED BY <1>3, <1>4, <2>1, GoodOfSync DEF Next
<1>5. CASE Sync /\ Scanned
  BY <1>3, <1>5, GoodOfSync DEF Sync, Next
<1>6. CASE \E b \in Block : Rewind(Height[b])
  <2>1. PICK h \in Nat : Rewind(h)
    BY <1>6, LedgerTypes
  <2> QED BY <1>1, <1>3, <2>1, GoodOfRewind
<1>7. CASE Skip \/ FetchBlock \/ RequestFails \/ UNCHANGED rvars
  <2>1. UNCHANGED <<tip, dbVars, pass, result, cancel, dlVars, chan, prVars>>
        /\ UNCHANGED <<scanned, laid>>
    BY <1>7 DEF Skip, FetchBlock, RequestFails, rvars, vars, history, dbVars, dlVars, prVars
  <2>2. faults \in 0..MaxFaults
    BY <1>3 DEF Good, Placing, IInv, TInv, TypeOK, CallTypes
  <2>3. faults' \in 0..MaxFaults
    <3>1. CASE RequestFails
      BY <2>2, <3>1, WarpSyncConstants DEF RequestFails, Fault
    <3>2. CASE Skip \/ FetchBlock \/ UNCHANGED rvars
      BY <2>2, <3>2 DEF Skip, FetchBlock, rvars, vars
    <3> QED BY <1>7, <3>1, <3>2
  <2> QED BY <1>3, <2>1, <2>3, GoodKept
<1>8. CASE StoreTreeState
  BY <1>1, <1>3, <1>8, LaidAgain, LaidAbove
<1> QED BY <1>4, <1>5, <1>6, <1>7, <1>8 DEF RNext

(* What the wallet keeps through syncs, rewinds and skips, failed ones and *)
(* crashes too, holds in every reachable state.                            *)
THEOREM RewindInvariance == RSpec => []GInv
  BY GInvInit, GInvStep, PTL DEF RSpec

-----------------------------------------------------------------------------
(* The properties *)

(* The scanned blocks up to the synced height are on the synced chain, and *)
(* those of the synced chain are scanned unless their height was left out. *)
LEMMA ScannedBelow ==
  ASSUME Good
  PROVE  /\ \A a \in scanned : Height[a] <= SyncedHeight => a \in Anc[Synced]
         /\ \A a \in Anc[Synced] \ {Genesis} : Height[a] \notin Gaps => a \in scanned
<1>1. /\ scanned \subseteq Block \ {Genesis} /\ \A b \in scanned : Comparable(b, Synced)
      /\ Synced \in Block /\ Height[Synced] = SyncedHeight /\ SyncedHeight \in Nat
  BY DbBase
<1>2. ASSUME NEW a \in scanned, Height[a] <= SyncedHeight PROVE a \in Anc[Synced]
  <2>1. CASE Synced \in Anc[a]
    <3>1. a \in Block /\ Height[Synced] <= Height[a] /\ Height[a] \in Nat
          /\ (Height[Synced] = Height[a] => Synced = a)
      BY <1>1, <2>1, Ancestor
    <3>2. Synced = a
      BY <1>1, <1>2, <3>1
    <3> QED BY <3>1, <3>2, LedgerAncestry
  <2> QED BY <1>1, <2>1 DEF Comparable
<1>3. ASSUME NEW a \in Anc[Synced] \ {Genesis}, Height[a] \notin Gaps PROVE a \in scanned
  <2>1. a \in Block /\ Height[a] <= SyncedHeight /\ Height[a] \in Nat
        /\ Height[Genesis] \in Nat /\ Height[a] > Height[Genesis]
    BY <1>1, Ancestor, HeightTyped
  <2>2. Height[a] \in (Height[Genesis] + 1)..SyncedHeight
    BY <1>1, <2>1
  <2>3. PICK b \in scanned : Height[b] = Height[a]
    BY <1>3, <2>2 DEF Gaps
  <2>4. b \in Anc[Synced]
    BY <1>2, <2>1, <2>3
  <2>5. a = b
    BY <1>1, <2>3, <2>4, OfOneChain
  <2> QED BY <2>5
<1> QED BY <1>2, <1>3

(* A row at or below the synced height is of a note of the synced chain.   *)
LEMMA RowOnChain ==
  ASSUME Good, NEW n \in SyncedNotes
  PROVE  \E a \in scanned :
           /\ a \in Anc[Synced] /\ MadeIn(n, notes[n], a) /\ notes[n].height = Height[a]
           /\ OutOf(n) \in Received(a)
           /\ notes[n].nf = <<OutOf(n), Position(OutOf(n), Synced)>>
<1>1. /\ Made(notes, scanned) /\ IsTable(notes, NoteId, NoteRow)
      /\ scanned \subseteq Block \ {Genesis} /\ Synced \in Block
  BY DbBase
<1>2. n \in DOMAIN notes /\ notes[n].height <= SyncedHeight
  BY DEF SyncedNotes
<1>3. PICK a \in scanned : MadeIn(n, notes[n], a)
  BY <1>1, <1>2 DEF Made
<1>4. notes[n].height = Height[a] /\ a \in Anc[Synced] /\ a \in Block \ {Genesis}
  BY <1>1, <1>2, <1>3, ScannedBelow DEF MadeIn
<1> DEFINE p == notes[n].nf[2]
<1>5. /\ p \in Nat /\ Len(Leaves[Parent[a]]) <= p /\ p < Len(Leaves[a])
      /\ Leaves[a][p + 1] = OutOf(n) /\ Owner[OutOf(n)] \in Account
      /\ notes[n].nf = <<OutOf(n), p>>
  BY <1>1, <1>2, <1>3, RowTyped DEF MadeIn, Adds
<1> HIDE DEF p
<1>6. OutOf(n) \in Received(a)
  <2>1. Owner[Leaves[a][p + 1]] \in Account
    BY <1>5
  <2>2. Leaves[a][p + 1] \in Received(a)
    BY <1>4, <1>5, <2>1, LeafIsReceived
  <2> QED BY <1>5, <2>2
<1>7. Position(OutOf(n), Synced) = p
  <2>1. p < Len(Leaves[Synced]) /\ Leaves[Synced][p + 1] = Leaves[a][p + 1]
    BY <1>1, <1>4, <1>5, LeafKept
  <2>2. Position(Leaves[Synced][p + 1], Synced) = p
    BY <1>1, <1>5, <2>1, PositionIs
  <2> QED BY <1>5, <2>1, <2>2
<1> QED BY <1>3, <1>4, <1>5, <1>6, <1>7

(* What a block of the synced chain that was scanned pays us has a row. *)
LEMMA RowOfReceived ==
  ASSUME Good, NEW a \in Anc[Synced], NEW o \in Received(a), Height[a] \notin Gaps
  PROVE  \E n \in SyncedNotes :
           notes[n].nf = <<o, Position(o, Synced)>> /\ notes[n].height = Height[a]
<1>1. /\ Synced \in Block /\ Height[Synced] = SyncedHeight /\ SyncedHeight \in Nat
      /\ OneChain(scanned, SyncedHeight + 1)
      /\ \A h \in Nat : OneChain(scanned, h) => Holds(notes, scanned, h)
  BY DbBase
<1>2. a # Genesis /\ Owner[o] \in Account
  BY <1>1, ReceivedIsLeaf
<1>3. PICK p \in Nat :
        /\ Len(Leaves[Parent[a]]) <= p /\ p < Len(Leaves[a]) /\ p < Len(Leaves[Synced])
        /\ Leaves[Synced][p + 1] = o /\ Position(o, Synced) = p
  BY <1>1, ReceivedIsLeaf
<1>4. Leaves[Synced][p + 1] = Leaves[a][p + 1]
  BY <1>1, <1>3, LeafKept
<1>5. OwnLeaf(a, p)
  BY <1>2, <1>3, <1>4 DEF OwnLeaf, Adds
<1>6. a \in scanned
  BY <1>2, ScannedBelow
<1>7. Height[a] <= SyncedHeight /\ Height[a] \in Nat
  BY <1>1, Ancestor
<1>8. NotesHeld(notes, scanned, SyncedHeight + 1)
  BY <1>1 DEF Holds
<1>9. PICK n \in DOMAIN notes : IsRowOf(notes[n], a, p)
  <2>1. Height[a] < SyncedHeight + 1
    BY <1>1, <1>7
  <2> QED BY <1>5, <1>6, <1>8, <2>1 DEF NotesHeld
<1>10. n \in SyncedNotes
  BY <1>7, <1>9 DEF SyncedNotes, IsRowOf
<1> QED BY <1>3, <1>4, <1>9, <1>10 DEF IsRowOf

(* The row has the spend that a block of the synced chain makes. *)
LEMMA SpendsOfSynced ==
  ASSUME Good, NEW n \in SyncedNotes
  PROVE  /\ SpentBySync(n) => notes[n].spent \in SpentAt(notes[n].nf, Synced)
         /\ \A a \in scanned : Height[a] <= SyncedHeight /\ notes[n].nf \in NfsIn(a) =>
              SpentBySync(n) /\ notes[n].spent \notin Unspoken
<1>1. /\ Synced \in Block /\ Height[Synced] = SyncedHeight /\ SyncedHeight \in Nat
      /\ OneChain(scanned, SyncedHeight + 1) /\ scanned \subseteq Block \ {Genesis}
      /\ IsTable(notes, NoteId, NoteRow)
  BY DbBase
<1>2. SpentInside(notes, scanned, SyncedHeight + 1) /\ SpendsHeld(notes, scanned, SyncedHeight + 1)
  BY <1>1, DbBase DEF Holds
<1>3. n \in DOMAIN notes /\ notes[n].height \in Nat /\ notes[n].height < SyncedHeight + 1
  BY <1>1, RowTyped DEF SyncedNotes
<1>4. PICK c \in scanned : MadeIn(n, notes[n], c)
  BY RowOnChain
<1>5. SpentBySync(n) => notes[n].spent \in SpentAt(notes[n].nf, Synced)
  <2> SUFFICES ASSUME SpentBySync(n) PROVE notes[n].spent \in SpentAt(notes[n].nf, Synced)
    OBVIOUS
  <2>1. notes[n].spent \notin Unspoken /\ notes[n].spent <= SyncedHeight
    BY <1>1 DEF SpentBySync, Unspoken
  <2>2. PICK a \in scanned : notes[n].spent = Height[a] /\ notes[n].nf \in NfsIn(a)
    BY <1>2, <1>3, <2>1 DEF SpentInside
  <2>3. a \in Anc[Synced]
    BY <2>1, <2>2, ScannedBelow
  <2> QED BY <2>2, <2>3 DEF SpentAt, NfsIn
<1>6. ASSUME NEW a \in scanned, Height[a] <= SyncedHeight, notes[n].nf \in NfsIn(a)
      PROVE SpentBySync(n) /\ notes[n].spent \notin Unspoken
  <2>1. Height[a] \notin Unspoken /\ Height[a] \in Nat \ {0}
    BY <1>1, HeightSpoken
  <2>2. Height[a] < SyncedHeight + 1
    BY <1>1, <1>6, <2>1
  <2>3. notes[n].spent = Height[a]
    <3>1. notes[n].spent \notin Unspoken
      BY <1>2, <1>3, <1>4, <1>6, <2>2 DEF SpendsHeld
    <3>2. PICK d \in scanned : notes[n].spent = Height[d] /\ notes[n].nf \in NfsIn(d)
      BY <1>2, <1>3, <3>1 DEF SpentInside
    <3>3. Comparable(a, d) /\ a \in Block /\ d \in Block
      BY <1>1, <1>6, <2>2, OnOneBranch
    <3> QED BY <1>6, <3>2, <3>3, RevealedOnce
  <2> QED BY <1>1, <1>6, <2>1, <2>3 DEF SpentBySync, Unspoken
<1> QED BY <1>5, <1>6

\* The rows up to the checkpoint are those of one chain, and none is missing.
LEMMA RecoversFromInv ==
  ASSUME Good
  PROVE  RewindRecovers
<1> DEFINE held == {[nf |-> notes[n].nf, in |-> notes[n].height] : n \in SyncedNotes}
           onChain == {[nf |-> c.nf, in |-> Height[c.in]] : c \in ChainNotes(Synced)}
<1>1. CheckpointsExact /\ Synced \in Block
  BY DbBase DEF IInv
<1>2. \A x \in onChain : \E a \in Anc[Synced] : \E o \in Received(a) :
        x = [nf |-> <<o, Position(o, Synced)>>, in |-> Height[a]]
  BY DEF ChainNotes
<1>3. \A a \in Anc[Synced] : \A o \in Received(a) :
        [nf |-> <<o, Position(o, Synced)>>, in |-> Height[a]] \in onChain
  <2> TAKE a \in Anc[Synced]
  <2> TAKE o \in Received(a)
  <2>1. [nf |-> <<o, Position(o, Synced)>>, in |-> a] \in ChainNotes(Synced)
    BY DEF ChainNotes
  <2> DEFINE c == [nf |-> <<o, Position(o, Synced)>>, in |-> a]
  <2>2. c \in ChainNotes(Synced) /\ c.nf = <<o, Position(o, Synced)>> /\ c.in = a
    BY <2>1
  <2> HIDE DEF c
  <2>3. [nf |-> c.nf, in |-> Height[c.in]] \in onChain
    BY <2>2
  <2> QED BY <2>2, <2>3
<1>4. \A n \in SyncedNotes : [nf |-> notes[n].nf, in |-> notes[n].height] \in held
  OBVIOUS
<1>5. \A x \in held : \E n \in SyncedNotes : x = [nf |-> notes[n].nf, in |-> notes[n].height]
  OBVIOUS
<1>6. NotesExactOutsideGaps = 
        /\ held \subseteq onChain
        /\ {c \in onChain : c.in \notin Gaps} \subseteq held
        /\ \A n \in SyncedNotes :
             IF SpentBySync(n)
               THEN notes[n].spent \in SpentAt(notes[n].nf, Synced)
               ELSE SpentAt(notes[n].nf, Synced) \subseteq Gaps
  BY DEF NotesExactOutsideGaps
<1> HIDE DEF held, onChain
<1>7. held \subseteq onChain
  <2> SUFFICES ASSUME NEW n \in SyncedNotes
               PROVE [nf |-> notes[n].nf, in |-> notes[n].height] \in onChain
    BY <1>5
  <2>1. PICK a \in scanned :
          /\ a \in Anc[Synced] /\ notes[n].height = Height[a] /\ OutOf(n) \in Received(a)
          /\ notes[n].nf = <<OutOf(n), Position(OutOf(n), Synced)>>
    BY RowOnChain
  <2> QED BY <1>3, <2>1
<1>8. ASSUME NEW x \in onChain, x.in \notin Gaps PROVE x \in held
  <2>1. PICK a \in Anc[Synced] : \E o \in Received(a) :
          x = [nf |-> <<o, Position(o, Synced)>>, in |-> Height[a]]
    BY <1>2
  <2>2. PICK o \in Received(a) : x = [nf |-> <<o, Position(o, Synced)>>, in |-> Height[a]]
    BY <2>1
  <2>3. Height[a] \notin Gaps
    BY <1>8, <2>2
  <2>4. PICK n \in SyncedNotes :
          notes[n].nf = <<o, Position(o, Synced)>> /\ notes[n].height = Height[a]
    BY <2>3, RowOfReceived
  <2> QED BY <1>4, <2>2, <2>4
<1>9. ASSUME NEW n \in SyncedNotes, ~SpentBySync(n), NEW g \in SpentAt(notes[n].nf, Synced),
             g \notin Gaps
      PROVE FALSE
  <2>1. PICK a \in Anc[Synced] : g = Height[a] /\ notes[n].nf \in NfsIn(a)
    BY DEF SpentAt, NfsIn
  <2>2. a # Genesis
    BY <2>1, LedgerSpends DEF NfsIn, SpendsIn
  <2>3. a \in scanned /\ Height[a] <= Height[Synced]
    BY <1>1, <1>9, <2>1, <2>2, ScannedBelow, Ancestor
  <2>4. Height[a] <= SyncedHeight
    BY <2>3, DbBase
  <2> QED BY <1>9, <2>1, <2>3, <2>4, SpendsOfSynced
<1>10. \A n \in SyncedNotes :
         IF SpentBySync(n)
           THEN notes[n].spent \in SpentAt(notes[n].nf, Synced)
           ELSE SpentAt(notes[n].nf, Synced) \subseteq Gaps
  BY <1>9, SpendsOfSynced
<1> QED BY <1>1, <1>6, <1>7, <1>8, <1>10 DEF RewindRecovers

\* Above the gaps every witness is of the checkpoint.
LEMMA WitnessesFromInv ==
  ASSUME Good
  PROVE  WitnessesAfterGaps
<1> SUFFICES ASSUME NEW n \in SyncedNotes \cap Unspent(notes),
                    \A g \in Gaps \cup laid : notes[n].height > g
             PROVE /\ <<n, SyncedHeight>> \in DOMAIN wits
                   /\ wits[<<n, SyncedHeight>>] =
                        [pos |-> Position(OutOf(n), Synced), leaves |-> Leaves[Synced]]
  BY DEF WitnessesAfterGaps
<1>1. /\ IInv /\ Inside /\ Synced \in Block /\ Height[Synced] = SyncedHeight
      /\ SyncedHeight \in Nat /\ scanned \subseteq Block \ {Genesis}
  BY DbBase
<1>2. n \in DOMAIN notes /\ notes[n].height <= SyncedHeight /\ notes[n].spent \in Unspoken
  BY DEF SyncedNotes, Unspent, Unspoken
<1>3. PICK c \in scanned : notes[n].height = Height[c]
  BY RowOnChain
<1>4. blocks # EmptyTable
  <2>1. Height[c] > Height[Genesis] /\ Height[c] \in Nat /\ Height[Genesis] \in Nat
    BY <1>1, HeightTyped
  <2>2. SyncedHeight # Height[Genesis]
    BY <1>1, <1>2, <1>3, <2>1
  <2> QED BY <2>2 DEF SyncedHeight
<1>5. /\ SyncedHeight \in DOMAIN blocks /\ Synced = blocks[SyncedHeight].hash
      /\ CheckpointsExact /\ AnchorsAgree /\ DbTypes
  BY <1>1, <1>4, SyncedTyped DEF IInv, TInv, TypeOK
<1>6. <<n, SyncedHeight>> \in DOMAIN wits
  <2>1. \A a \in scanned : Height[a] <= SyncedHeight => notes[n].nf \notin NfsIn(a)
    BY <1>2, SpendsOfSynced
  <2>2. Above(notes[n].height, SyncedHeight)
    BY DEF Above
  <2> QED BY <1>2, <1>5, <2>1, <2>2 DEF Good, Witnessed
<1> DEFINE w == wits[<<n, SyncedHeight>>]
<1>7. /\ w \in Witness /\ w.leaves = Leaves[Synced] /\ LeafAt(w.leaves, w.pos, n)
  <2>1. w \in Witness
    BY <1>5, <1>6 DEF DbTypes, IsTable
  <2>2. w.leaves = blocks[SyncedHeight].tree
    BY <1>5, <1>6 DEF AnchorsAgree
  <2>3. LeafAt(w.leaves, w.pos, n)
    BY <1>1, <1>6 DEF Inside
  <2> QED BY <1>5, <2>1, <2>2, <2>3 DEF CheckpointsExact
<1> HIDE DEF w
<1>8. w.pos \in Nat /\ w = [pos |-> w.pos, leaves |-> w.leaves]
  BY <1>7 DEF Witness
<1>9. w.pos < Len(Leaves[Synced]) /\ Leaves[Synced][w.pos + 1] = OutOf(n)
  BY <1>7 DEF LeafAt
<1>10. Position(OutOf(n), Synced) = w.pos
  BY <1>1, <1>8, <1>9, PositionIs
<1> QED BY <1>6, <1>7, <1>8, <1>10 DEF w

(* A rewind to the fork or below it recovers from a reorganization and     *)
(* from a torn batch, whatever syncs, rewinds and skips, failed ones and   *)
(* crashes led there: unless block rows were mixed, the wallet holds the   *)
(* notes of its chain but for the heights left out (trim_to_height,        *)
(* db.rs:189, and fetch_and_store_tree_state, api/sync.rs:87).             *)
THEOREM RewindDoesRecover == RSpec => []RewindRecovers
<1>1. GInv => RewindRecovers
  BY RecoversFromInv DEF GInv, RewindRecovers
<1> QED BY <1>1, RewindInvariance, PTL

(* Notes above what a rewind or a skip has left out have their witnesses   *)
(* again at the checkpoint the wallet spends from (get_tree, db.rs:382).   *)
THEOREM WitnessesComeBack == RSpec => []WitnessesAfterGaps
<1>1. GInv => WitnessesAfterGaps
  BY WitnessesFromInv DEF GInv, WitnessesAfterGaps
<1> QED BY <1>1, RewindInvariance, PTL
=============================================================================
