---------------------------- MODULE WarpSyncNotes ----------------------------
(***************************************************************************)
(* The wallet holds the notes of the chain it has synced, watches for the  *)
(* spends of those that are unspent and has their witnesses, and warp sync *)
(* implements the normal sync, for every ledger and every bound.           *)
(*                                                                         *)
(* The theorems assume Mendable: batches are never torn (no crash and no   *)
(* failure between the two transactions of a batch), or the server never   *)
(* reorganizes.  Without it NotesExact is false (the run WarpTornReorg):   *)
(* the rows of a torn batch stay when sync resumes on another chain.       *)
(*                                                                         *)
(* The invariant says how far along the chain of blocks each table has     *)
(* come.  The rows of the notes are genuine for the chain of a block Top,  *)
(* and complete for the chain of the last scanned block, or for the part   *)
(* of a block that the scan has passed.  When batches are never torn, Top  *)
(* is the block the table is complete for; otherwise it is the tip, whose  *)
(* chain contains the rows of the torn batches too.                        *)
(*                                                                         *)
(* The marks of payments (spent = 0) are allowed for: R stands for notes   *)
(* whose mark has overwritten the height of their spend, none here.        *)
(***************************************************************************)
EXTENDS WarpSyncProofs

Untorn == "crash" \notin Faults /\ "details" \notin Faults
Mendable == Untorn \/ "reorg" \notin Faults

Unspoken == {Null, 0}   \* what spent holds of a note not known to be spent
NfsIn(a) == {s.nf : s \in SpendsIn(a)}
Revealed(b) == UNION {NfsIn(a) : a \in Anc[b]}

(* The row of note n says of it what the chain of b does, but for a spend  *)
(* that it may not know of yet.                                            *)
Genuine(n, row, b) ==
  /\ row.nf[1] = OutOf(n) /\ Owner[OutOf(n)] = AccountOf(n)
  /\ row.nf[2] < Len(Leaves[b]) /\ Leaves[b][row.nf[2] + 1] = OutOf(n)
  /\ \E a \in Anc[b] \ {Genesis} :
       /\ row.height = Height[a]
       /\ Len(Leaves[Parent[a]]) <= row.nf[2] /\ row.nf[2] < Len(Leaves[a])
  /\ row.spent \in Unspoken \/
       \E a \in Anc[b] : row.spent = Height[a] /\ row.nf \in NfsIn(a)

(* table holds genuine rows, one for a nullifier, with their transactions. *)
OnePerNf(table) == \A n, m \in DOMAIN table : table[n].nf = table[m].nf => n = m
HasTxs(table, txtable) ==
  \A n \in DOMAIN table : n[1] \in DOMAIN txtable /\ txtable[n[1]].txid = TxOf[OutOf(n)]
Sound(table, txtable, b) ==
  /\ \A n \in DOMAIN table : Genuine(n, table[n], b)
  /\ OnePerNf(table)
  /\ HasTxs(table, txtable)

(* Of the first f leaves of the chain of b, table holds those that are     *)
(* ours, and it knows that the nullifiers in seen have been revealed.      *)
Complete(table, b, f, seen, R) ==
  /\ \A p \in 0..(f - 1) :
       Owner[Leaves[b][p + 1]] \in Account =>
         \E n \in DOMAIN table : table[n].nf = <<Leaves[b][p + 1], p>>
  /\ \A n \in DOMAIN table \ R : table[n].spent \in Unspoken => table[n].nf \notin seen

CompleteTo(table, b, R) == Complete(table, b, Len(Leaves[b]), Revealed(b), R)

(* known has the nullifier of every unspent note of table, and it has only *)
(* nullifiers of table, and, if live, only those of unspent notes.         *)
Watches(known, table, R) ==
  /\ \A nf \in DOMAIN known : known[nf] \in DOMAIN table /\ table[known[nf]].nf = nf
  /\ \A n \in DOMAIN table \ R : table[n].spent \in Unspoken => table[n].nf \in DOMAIN known
Live(known, table) == \A nf \in DOMAIN known : table[known[nf]].spent \in Unspoken

(* All of this of the rows of a scan: genuine for the chain of c, complete *)
(* for the first f leaves of b on it and for the nullifiers in seen.       *)
Tracks(table, txtable, known, c, b, f, seen, R) ==
  /\ c \in Block /\ b \in Anc[c]
  /\ Sound(table, txtable, c) /\ Complete(table, b, f, seen, R)
  /\ Watches(known, table, R)

(* marked is table with the spend of note m at height h. *)
Marked(marked, table, m, h) ==
  /\ DOMAIN marked = DOMAIN table
  /\ \A n \in DOMAIN table :
       /\ marked[n].nf = table[n].nf /\ marked[n].height = table[n].height
       /\ IF n = m THEN marked[n].spent = h ELSE marked[n] = table[n]

(* added is table with a row for id, which has the nullifier nf. *)
Added(added, table, id, nf) ==
  /\ DOMAIN added = DOMAIN table \cup {id}
  /\ \A n \in DOMAIN table : added[n] = table[n]
  /\ added[id].nf = nf

(* txtable has the transactions of older. *)
KeepsTxs(older, txtable) ==
  /\ DOMAIN older \subseteq DOMAIN txtable
  /\ \A k \in DOMAIN older : txtable[k].txid = older[k].txid

(* A row that is to be added for the leaf after the first f ones. *)
Fresh(id, row, table, txtable, c, b, f, seen) ==
  /\ id \in NoteId /\ row \in NoteRow
  /\ f < Len(Leaves[b]) /\ row.nf = <<Leaves[b][f + 1], f>>
  /\ row.spent = Null /\ row.nf \notin seen
  /\ Genuine(id, row, c)
  /\ id[1] \in DOMAIN txtable /\ txtable[id[1]].txid = TxOf[OutOf(id)]
  /\ (\E n \in DOMAIN table : table[n].nf = row.nf) => id \in DOMAIN table

Under(table, f) == \A n \in DOMAIN table : table[n].nf[2] < f

(* The rows of table are among those of larger, which knows more spends.   *)
Extends(table, larger) ==
  \A n \in DOMAIN table :
    /\ n \in DOMAIN larger /\ larger[n].nf = table[n].nf
    /\ larger[n].spent \in Unspoken => table[n].spent \in Unspoken

(* The witnesses of a batch are at the positions of their notes, and those *)
(* of the unspent notes among the first f leaves are there.                *)
Placed(old, new, table) ==
  /\ \A n \in DOMAIN old : n \in DOMAIN table /\ old[n].pos = table[n].nf[2]
  /\ \A n \in DOMAIN new : n \in DOMAIN table /\ new[n] = table[n].nf[2]
Carries(carried, table, f, R) ==
  \A n \in DOMAIN table \ R :
    table[n].spent \in Unspoken /\ table[n].nf[2] < f => n \in carried

-----------------------------------------------------------------------------
(* The blocks whose chains the rows of the database and of the scan are on *)
Written == ppc \in {"details", "store"}
DbTop == IF Untorn THEN IF Written THEN BatchEnd ELSE Synced ELSE tip
ScanTop == IF Untorn THEN BatchEnd ELSE tip

(* Without reorganizations, all that sync works on is on the chain of the  *)
(* tip.                                                                    *)
OnTip ==
  "reorg" \notin Faults =>
    /\ Synced \in Anc[tip]
    /\ \A c \in {batch, Queued, outbox, cbs} : c.blocks # << >> => LastOf(c) \in Anc[tip]

(* The downloader panics only after the processor has ended. *)
Panicked == dres = "panic" => dpc = "done" /\ ppc = "done"

DbNotes(R) ==
  /\ Sound(notes, txs, DbTop)
  /\ CompleteTo(notes, Synced, R)
  /\ Written => CompleteTo(notes, BatchEnd, R)

Watching(R) ==
  ppc \in {"recv", "load", "details", "store"} =>
    Watches(nfs, notes, R) /\ (Untorn => Live(nfs, notes))

(* The place of the scan: the last block that it has left behind, the      *)
(* leaves that it has passed and the nullifiers that it has seen.          *)
InBlock == scan.blk <= Len(batch.blocks)
At == batch.blocks[scan.blk]
Done == IF scan.blk = 1 THEN Synced ELSE batch.blocks[scan.blk - 1]
Passed ==
  IF ~InBlock \/ scan.cur <= NSpends(At) THEN scan.pos
  ELSE IF scan.cur > NSpends(At) + NOuts(At) THEN scan.pos + NOuts(At)
  ELSE scan.pos + scan.cur - NSpends(At) - 1
Seen ==
  Revealed(Done) \cup
    (IF InBlock THEN {Spends[At][i].nf : i \in {j \in 1..NSpends(At) : j < scan.cur}} ELSE {})

ScanPlace ==
  /\ scan.blk \in 1..(Len(batch.blocks) + 1) /\ scan.cur \in Nat \ {0}
  /\ ~InBlock => scan.cur = 1
  /\ scan.pos = Len(Leaves[Done])

ScanRows(R) ==
  /\ Tracks(scan.notes, scan.txs, nfs, ScanTop, BatchEnd, Passed, Seen, R)
  /\ Extends(notes, scan.notes)
  /\ Untorn => Under(scan.notes, Passed) /\ Live(nfs, scan.notes)

ScanWitnesses(R) ==
  /\ Placed(bwits, scan.new, scan.notes)
  /\ Carries(DOMAIN bwits \cup DOMAIN scan.new, scan.notes, Passed, R)

Scan(R) == ppc = "scan" => ScanPlace /\ ScanRows(R) /\ ScanWitnesses(R)

(* Every checkpoint has the witnesses of the unspent notes of its chain,   *)
(* and a batch that is about to become one has them too.                   *)
DbWitnesses(R) ==
  /\ \A k \in DOMAIN wits : k[1] \in DOMAIN notes /\ wits[k].pos = notes[k[1]].nf[2]
  /\ \A h \in DOMAIN blocks :
       Carries({k[1] : k \in {w \in DOMAIN wits : w[2] = h}}, notes, Len(blocks[h].tree), R)
  /\ Written =>
       /\ Placed(bwits, scan.new, notes)
       /\ Carries(DOMAIN bwits \cup DOMAIN scan.new, notes, Len(Leaves[BatchEnd]), R)

NInv(R) ==
  /\ IInv /\ Mendable
  /\ OnTip /\ Panicked
  /\ DbNotes(R) /\ Watching(R) /\ Scan(R) /\ DbWitnesses(R)

-----------------------------------------------------------------------------
(* The ledger *)

(* A block after the activation block has its parent among its ancestors.  *)
LEMMA ParentIsAncestor ==
  ASSUME NEW b \in Block, b # Genesis
  PROVE  Parent[b] \in Block /\ Parent[b] \in Anc[b] /\ Anc[Parent[b]] \subseteq Anc[b]
<1>1. Parent[b] \in Block /\ Anc[b] = Anc[Parent[b]] \cup {b}
  BY Child
<1>2. Parent[b] \in Anc[Parent[b]]
  BY <1>1, LedgerAncestry
<1> QED BY <1>1, <1>2

(* A leaf of an ancestor is a leaf. *)
LEMMA LeafKept ==
  ASSUME NEW b \in Block, NEW a \in Anc[b], NEW p \in Nat, p < Len(Leaves[a])
  PROVE  p < Len(Leaves[b]) /\ Leaves[b][p + 1] = Leaves[a][p + 1]
<1>1. Leaves[a] \in Seq(Out) /\ Leaves[b] \in Seq(Out)
  BY LedgerTypes
<1>2. Len(Leaves[a]) \in Nat /\ Len(Leaves[b]) \in Nat /\ Len(Leaves[a]) <= Len(Leaves[b])
  BY <1>1, LedgerLeaves
<1>3. p + 1 \in 1..Len(Leaves[a])
  BY <1>2
<1> QED BY <1>2, <1>3, LedgerLeaves

(* The leaves of a block after those of its parent are its outputs.        *)
LEMMA LeavesOfBlock ==
  ASSUME NEW b \in Block, b # Genesis
  PROVE  /\ NOuts(b) \in Nat /\ Len(Leaves[b]) = Len(Leaves[Parent[b]]) + NOuts(b)
         /\ \A i \in 1..NOuts(b) : Leaves[b][Len(Leaves[Parent[b]]) + i] = Outs[b][i]
<1>1. Leaves[b] = Leaves[Parent[b]] \o Outs[b]
  BY LedgerTree
<1>2. Leaves[Parent[b]] \in Seq(Out) /\ Outs[b] \in Seq(Out)
  BY ParentIsAncestor, LedgerTypes
<1>3. Len(Outs[b]) \in Nat /\ Len(Leaves[Parent[b]]) \in Nat
  BY <1>2
<1>4. Len(Leaves[Parent[b]] \o Outs[b]) = Len(Leaves[Parent[b]]) + Len(Outs[b])
  BY <1>2
<1>5. \A i \in 1..Len(Outs[b]) :
        (Leaves[Parent[b]] \o Outs[b])[Len(Leaves[Parent[b]]) + i] = Outs[b][i]
  <2>1. ASSUME NEW u \in Seq(Out), NEW v \in Seq(Out), NEW i \in 1..Len(v)
        PROVE (u \o v)[Len(u) + i] = v[i]
    BY <2>1
  <2> QED BY <1>2, <2>1
<1> QED BY <1>1, <1>3, <1>4, <1>5 DEF NOuts

(* A chain creates a leaf in one block. *)
LEMMA OneBlock ==
  ASSUME NEW b \in Block, NEW a \in Anc[b], NEW c \in Anc[b], NEW p \in Nat,
         a # Genesis, Len(Leaves[Parent[a]]) <= p, p < Len(Leaves[a]),
         c # Genesis, Len(Leaves[Parent[c]]) <= p, p < Len(Leaves[c])
  PROVE  a = c
<1>1. a \in Block /\ c \in Block /\ (a \in Anc[c] \/ c \in Anc[a])
  BY Ancestor, LedgerAncestry
<1>3. ASSUME NEW d \in Block PROVE Len(Leaves[d]) \in Nat
  <2>1. Leaves[d] \in Seq(Out)
    BY LedgerTypes
  <2> QED BY <2>1
<1>4. ASSUME NEW x \in Block, NEW y \in Block, x \in Anc[y], x # y, y # Genesis,
             p < Len(Leaves[x]), Len(Leaves[Parent[y]]) <= p
      PROVE FALSE
  <2>1. x \in Anc[Parent[y]] /\ Parent[y] \in Block
    <3>1. Parent[y] \in Block /\ Anc[y] = Anc[Parent[y]] \cup {y}
      BY <1>4, Child
    <3> QED BY <1>4, <3>1
  <2>2. Len(Leaves[x]) <= Len(Leaves[Parent[y]])
    BY <2>1, LedgerLeaves
  <2> QED BY <1>3, <1>4, <2>1, <2>2
<1> QED BY <1>1, <1>4

(* The note of a nullifier that the chain of c reveals by the block b is   *)
(* one of an earlier block.                                                *)
LEMMA RevealedIsOld ==
  ASSUME NEW c \in Block, NEW b \in Anc[c], NEW nf \in Revealed(b),
         nf[2] < Len(Leaves[c]), Leaves[c][nf[2] + 1] = nf[1]
  PROVE  \E a \in Anc[b] \ {Genesis} : nf[2] < Len(Leaves[Parent[a]])
<1>1. PICK a \in Anc[b] : nf \in NfsIn(a)
  BY DEF Revealed
<1>2. a \in Anc[c]
  BY <1>1, Ancestor
<1>3. PICK s \in SpendsIn(a) : nf = s.nf
  BY <1>1 DEF NfsIn
<1>4. a # Genesis
  BY <1>3, LedgerSpends DEF SpendsIn
<1> QED BY <1>1, <1>2, <1>3, <1>4, LedgerSpends

(* A block adds its own nullifiers to those its parent's chain reveals.    *)
LEMMA RevealedStep ==
  ASSUME NEW b \in Block, b # Genesis
  PROVE  Revealed(b) = Revealed(Parent[b]) \cup NfsIn(b)
<1>1. Anc[b] = Anc[Parent[b]] \cup {b}
  BY Child
<1> QED BY <1>1 DEF Revealed

(* An ancestor reveals no more. *)
LEMMA RevealedKept ==
  ASSUME NEW b \in Block, NEW a \in Anc[b]
  PROVE  Revealed(a) \subseteq Revealed(b)
  BY Ancestor DEF Revealed

-----------------------------------------------------------------------------
(* The tables *)

(* What is genuine for an ancestor is genuine. *)
LEMMA GenuineKept ==
  ASSUME NEW b \in Block, NEW a \in Anc[b], NEW n, NEW row \in NoteRow, Genuine(n, row, a)
  PROVE  Genuine(n, row, b)
<1>1. row.nf[2] \in Nat
  BY DEF NoteRow, Nf
<1>2. row.nf[2] < Len(Leaves[b]) /\ Leaves[b][row.nf[2] + 1] = OutOf(n)
  BY <1>1, LeafKept DEF Genuine
<1>3. Anc[a] \subseteq Anc[b]
  BY Ancestor
<1> QED BY <1>2, <1>3 DEF Genuine

LEMMA SoundKept ==
  ASSUME NEW b \in Block, NEW a \in Anc[b], NEW t, IsTable(t, NoteId, NoteRow), NEW x,
         Sound(t, x, a)
  PROVE  Sound(t, x, b)
<1>1. \A n \in DOMAIN t : t[n] \in NoteRow
  BY DEF IsTable
<1> QED BY <1>1, GenuineKept DEF Sound

(* The rows that are genuine for a block are below its leaves.             *)
LEMMA SoundBelow ==
  ASSUME NEW b, NEW t, NEW x, Sound(t, x, b)
  PROVE  Under(t, Len(Leaves[b]))
  BY DEF Sound, Genuine, Under

(* A spend of a note we watch is recorded: the first pass over a block.    *)
LEMMA SpendRecorded ==
  ASSUME NEW t, IsTable(t, NoteId, NoteRow), NEW known, IsTable(known, Nf, NoteId),
         NEW x, NEW R, NEW seen, NEW f, NEW c, NEW e, Tracks(t, x, known, c, e, f, seen, R),
         NEW b \in Anc[c], NEW nf \in NfsIn(b), nf \in DOMAIN known,
         NEW u, Marked(u, t, known[nf], Height[b])
  PROVE  LET left == Restrict(known, DOMAIN known \ {nf}) IN
         /\ Tracks(u, x, left, c, e, f, seen \cup {nf}, R) /\ Extends(t, u)
         /\ Live(known, t) => Live(left, u)
<1> DEFINE left == Restrict(known, DOMAIN known \ {nf})
           m == known[nf]
<1>0. c \in Block /\ e \in Anc[c] /\ Sound(t, x, c) /\ Complete(t, e, f, seen, R)
      /\ Watches(known, t, R)
  BY DEF Tracks
<1>1. m \in DOMAIN t /\ t[m].nf = nf
  BY <1>0 DEF Watches
<1>2. \A n \in DOMAIN t : t[n] \in NoteRow
  BY DEF IsTable
<1>3. b \in Block /\ Height[b] \in Nat
  BY <1>0, Ancestor
<1>4. /\ DOMAIN u = DOMAIN t
      /\ \A n \in DOMAIN t : u[n].nf = t[n].nf /\ u[n].height = t[n].height
      /\ \A n \in DOMAIN t \ {m} : u[n] = t[n]
      /\ u[m].spent = Height[b]
  BY <1>1 DEF Marked
<1>5. Height[b] \notin Unspoken
  <2>1. b # Genesis
    BY LedgerSpends DEF NfsIn, SpendsIn
  <2>2. Height[b] = Height[Parent[b]] + 1 /\ Parent[b] \in Block
    BY <1>3, <2>1, Child
  <2>3. Height[Parent[b]] \in Nat
    BY <2>2, LedgerTypes
  <2> QED BY <1>3, <2>2, <2>3, WarpSyncConstants DEF Unspoken
<1>6. DOMAIN left = DOMAIN known \ {nf} /\ \A k \in DOMAIN left : left[k] = known[k]
  BY DEF Restrict
<1>7. Sound(u, x, c)
  <2>1. ASSUME NEW n \in DOMAIN u PROVE Genuine(n, u[n], c)
    <3>1. CASE n = m
      <4>1. Genuine(n, t[n], c) /\ u[n].nf = t[n].nf /\ u[n].height = t[n].height
            /\ u[n].spent = Height[b] /\ u[n].nf = nf
        BY <1>0, <1>1, <1>4, <3>1 DEF Sound
      <4>2. \E a \in Anc[c] : u[n].spent = Height[a] /\ u[n].nf \in NfsIn(a)
        BY <4>1
      <4> QED BY <4>1, <4>2 DEF Genuine
    <3>2. CASE n # m
      BY <1>0, <1>4, <3>2 DEF Sound
    <3> QED BY <3>1, <3>2
  <2>2. OnePerNf(u)
    BY <1>0, <1>4 DEF Sound, OnePerNf
  <2>3. HasTxs(u, x)
    BY <1>0, <1>4 DEF Sound, HasTxs
  <2> QED BY <2>1, <2>2, <2>3 DEF Sound
<1>8. Complete(u, e, f, seen \cup {nf}, R)
  <2>1. ASSUME NEW n \in DOMAIN u \ R, u[n].spent \in Unspoken
        PROVE u[n].nf \notin seen \cup {nf}
    <3>1. n # m /\ n \in DOMAIN t
      BY <1>4, <1>5, <2>1
    <3>2. t[n].nf # nf
      BY <1>0, <1>1, <3>1 DEF Sound, OnePerNf
    <3> QED BY <1>4, <2>1, <3>1, <3>2, <1>0 DEF Complete
  <2>2. ASSUME NEW p \in 0..(f - 1), Owner[Leaves[e][p + 1]] \in Account
        PROVE \E n \in DOMAIN u : u[n].nf = <<Leaves[e][p + 1], p>>
    <3>1. PICK n \in DOMAIN t : t[n].nf = <<Leaves[e][p + 1], p>>
      BY <1>0, <2>2 DEF Complete
    <3> QED BY <1>4, <3>1, Zenon
  <2> QED BY <2>1, <2>2 DEF Complete
<1>9. Watches(left, u, R)
  <2>1. ASSUME NEW n \in DOMAIN u \ R, u[n].spent \in Unspoken
        PROVE u[n].nf \in DOMAIN left
    <3>1. n # m /\ n \in DOMAIN t
      BY <1>4, <1>5, <2>1
    <3>2. t[n].nf # nf
      BY <1>0, <1>1, <3>1 DEF Sound, OnePerNf
    <3> QED BY <1>4, <1>6, <2>1, <3>1, <3>2, <1>0 DEF Watches
  <2>2. ASSUME NEW k \in DOMAIN left PROVE left[k] \in DOMAIN u /\ u[left[k]].nf = k
    <3>1. k \in DOMAIN known /\ left[k] = known[k]
      BY <1>6
    <3>2. known[k] \in DOMAIN t /\ t[known[k]].nf = k
      BY <1>0, <3>1 DEF Watches
    <3> QED BY <1>4, <3>1, <3>2
  <2> QED BY <2>1, <2>2 DEF Watches
<1>10. Extends(t, u)
  BY <1>1, <1>4, <1>5 DEF Extends
<1>11. Live(known, t) => Live(left, u)
  <2> SUFFICES ASSUME Live(known, t), NEW k \in DOMAIN left PROVE u[left[k]].spent \in Unspoken
    BY DEF Live
  <2>1. k # nf /\ k \in DOMAIN known /\ left[k] = known[k] /\ known[k] \in DOMAIN t
        /\ t[known[k]].nf = k
    BY <1>0, <1>6 DEF Watches
  <2>2. known[k] # m
    BY <1>1, <2>1
  <2> QED BY <1>4, <2>1, <2>2 DEF Live
<1> QED BY <1>0, <1>7, <1>8, <1>9, <1>10, <1>11 DEF Tracks

(* A spend that we do not watch is of no note that we take for unspent.    *)
LEMMA SpendPassed ==
  ASSUME NEW t, NEW x, NEW known, NEW R, NEW seen, NEW f, NEW c, NEW e, NEW nf,
         Tracks(t, x, known, c, e, f, seen, R), nf \notin DOMAIN known
  PROVE  Tracks(t, x, known, c, e, f, seen \cup {nf}, R)
  BY DEF Tracks, Complete, Watches

(* A note of ours that the scan passes is there and watched afterwards; if *)
(* an interrupted batch has stored it already, its row is kept.            *)
LEMMA NoteRecorded ==
  ASSUME NEW t, IsTable(t, NoteId, NoteRow), NEW known, IsTable(known, Nf, NoteId),
         NEW x, NEW y, NEW R, NEW seen, NEW f \in Nat, NEW c, NEW e,
         Tracks(t, x, known, c, e, f, seen, R), KeepsTxs(x, y),
         NEW id, NEW r, Fresh(id, r, t, y, c, e, f, seen)
  PROVE  LET u == Insert(t, id, r)
             more == Put(known, r.nf, id)
         IN
         /\ Tracks(u, y, more, c, e, f + 1, seen, R)
         /\ Extends(t, u) /\ Added(u, t, id, r.nf)
         /\ Under(t, f) /\ Live(known, t) => Under(u, f + 1) /\ Live(more, u)
<1> DEFINE u == Insert(t, id, r)
           more == Put(known, r.nf, id)
<1>0. /\ c \in Block /\ e \in Anc[c] /\ Sound(t, x, c) /\ Complete(t, e, f, seen, R)
      /\ Watches(known, t, R)
      /\ DOMAIN x \subseteq DOMAIN y /\ \A k \in DOMAIN x : y[k].txid = x[k].txid
      /\ id \in NoteId /\ r \in NoteRow
      /\ f < Len(Leaves[e]) /\ r.nf = <<Leaves[e][f + 1], f>> /\ r.spent = Null /\ r.nf \notin seen
      /\ Genuine(id, r, c) /\ id[1] \in DOMAIN y /\ y[id[1]].txid = TxOf[OutOf(id)]
      /\ (\E n \in DOMAIN t : t[n].nf = r.nf) => id \in DOMAIN t
  BY DEF Tracks, Fresh, KeepsTxs
<1>1. /\ DOMAIN u = DOMAIN t \cup {id} /\ \A n \in DOMAIN t : u[n] = t[n]
      /\ id \notin DOMAIN t => u[id] = r
  BY DEF Insert, InsertAll
<1>2. /\ DOMAIN more = DOMAIN known \cup {r.nf} /\ more[r.nf] = id
      /\ \A k \in DOMAIN known \ {r.nf} : more[k] = known[k]
  BY DEF Put, InsertAll
<1>3. \A n \in DOMAIN t : t[n] \in NoteRow
  BY DEF IsTable
<1> HIDE DEF u, more
<1>4. ASSUME id \in DOMAIN t PROVE t[id].nf = r.nf
  <2>1. Genuine(id, t[id], c) /\ t[id].nf \in Out \X Nat
    BY <1>0, <1>3, <1>4 DEF Sound, NoteRow, Nf
  <2> DEFINE p == t[id].nf[2]
  <2>2. p \in Nat /\ p < Len(Leaves[c]) /\ Leaves[c][p + 1] = OutOf(id) /\ t[id].nf[1] = OutOf(id)
    BY <1>0, <2>1 DEF Genuine
  <2>3. r.nf[1] = OutOf(id) /\ r.nf[1] = Leaves[e][f + 1]
    BY <1>0 DEF Genuine
  <2>4. f < Len(Leaves[c]) /\ Leaves[c][f + 1] = Leaves[e][f + 1]
    BY <1>0, LeafKept
  <2>5. Len(Leaves[c]) \in Nat
    <3>1. Leaves[c] \in Seq(Out)
      BY <1>0, LedgerTypes
    <3> QED BY <1>0, <3>1
  <2>6. p + 1 \in 1..Len(Leaves[c]) /\ f + 1 \in 1..Len(Leaves[c])
    <3>1. f \in Nat
      BY <1>0
    <3> HIDE DEF p
    <3> QED BY <2>2, <2>4, <2>5, <3>1
  <2>7. p + 1 = f + 1
    BY <1>0, <2>2, <2>3, <2>4, <2>6, LedgerLeaves
  <2>8. p = f
    BY <1>0, <2>2, <2>7
  <2>9. t[id].nf = <<t[id].nf[1], t[id].nf[2]>>
    BY <1>0, <2>1
  <2> QED BY <1>0, <2>2, <2>3, <2>8, <2>9
<1>5. u[id].nf = r.nf
  BY <1>0, <1>1, <1>4
<1>6. Sound(u, y, c)
  <2>1. ASSUME NEW n \in DOMAIN u PROVE Genuine(n, u[n], c)
    BY <1>0, <1>1 DEF Sound
  <2>2. OnePerNf(u)
    <3>1. ASSUME NEW n \in DOMAIN t, t[n].nf = r.nf PROVE n = id
      BY <1>0, <1>4, <3>1 DEF Sound, OnePerNf
    <3> QED BY <1>0, <1>1, <1>5, <3>1 DEF Sound, OnePerNf
  <2>3. HasTxs(u, y)
    BY <1>0, <1>1 DEF Sound, HasTxs
  <2> QED BY <1>0, <2>1, <2>2, <2>3 DEF Sound
<1>7. Complete(u, e, f + 1, seen, R)
  <2>1. ASSUME NEW n \in DOMAIN u \ R, u[n].spent \in Unspoken PROVE u[n].nf \notin seen
    BY <1>0, <1>1, <2>1 DEF Complete
  <2>2. ASSUME NEW p \in 0..f, Owner[Leaves[e][p + 1]] \in Account
        PROVE \E n \in DOMAIN u : u[n].nf = <<Leaves[e][p + 1], p>>
    <3>1. CASE p = f
      BY <1>0, <1>1, <1>5, <3>1, Zenon
    <3>2. CASE p # f
      <4>1. p \in 0..(f - 1)
        BY <1>0, <3>2
      <4>2. PICK n \in DOMAIN t : t[n].nf = <<Leaves[e][p + 1], p>>
        BY <1>0, <2>2, <4>1 DEF Complete
      <4> QED BY <1>0, <1>1, <4>2, Zenon
    <3> QED BY <1>0, <3>1, <3>2
  <2>3. (f + 1) - 1 = f
    OBVIOUS
  <2> QED BY <1>0, <2>1, <2>2, <2>3 DEF Complete
<1>8. Watches(more, u, R)
  <2>1. ASSUME NEW k \in DOMAIN more PROVE more[k] \in DOMAIN u /\ u[more[k]].nf = k
    BY <1>0, <1>1, <1>2, <1>5 DEF Watches
  <2>2. ASSUME NEW n \in DOMAIN u \ R, u[n].spent \in Unspoken PROVE u[n].nf \in DOMAIN more
    BY <1>0, <1>1, <1>2, <1>5, <2>2 DEF Watches
  <2> QED BY <1>0, <2>1, <2>2 DEF Watches
<1>9. Extends(t, u)
  BY <1>0, <1>1 DEF Extends
<1>10. ASSUME Under(t, f), Live(known, t) PROVE Under(u, f + 1) /\ Live(more, u)
  <2>1. r.nf[2] = f
    BY <1>0
  <2>2. id \notin DOMAIN t
    <3> SUFFICES ASSUME id \in DOMAIN t PROVE FALSE
      OBVIOUS
    <3> QED BY <1>0, <1>4, <1>10, <2>1 DEF Under
  <2>3. Under(u, f + 1)
    <3>1. ASSUME NEW n \in DOMAIN u PROVE u[n].nf[2] < f + 1
      <4>1. CASE n = id
        BY <1>0, <1>5, <2>1, <4>1
      <4>2. CASE n \in DOMAIN t
        <5>1. t[n].nf[2] \in Nat /\ t[n].nf[2] < f
          BY <1>0, <1>3, <1>10, <4>2 DEF Under, NoteRow, Nf
        <5> QED BY <1>0, <1>1, <4>2, <5>1
      <4> QED BY <1>0, <1>1, <4>1, <4>2
    <3> QED BY <1>0, <3>1 DEF Under
  <2>4. Live(more, u)
    BY <1>0, <1>1, <1>2, <1>10, <2>2 DEF Live, Watches, Unspoken
  <2> QED BY <1>0, <2>3, <2>4
<1> QED BY <1>0, <1>1, <1>5, <1>6, <1>7, <1>8, <1>9, <1>10 DEF Tracks, Added, u, more

(* Rows that are kept stay rows. *)
LEMMA ExtendsTransitive ==
  ASSUME NEW t, NEW u, NEW v, Extends(t, u), Extends(u, v)
  PROVE  Extends(t, v)
  BY DEF Extends

(* The witnesses of a batch fit a table that has more rows and spends.     *)
LEMMA PlacedKept ==
  ASSUME NEW t, NEW u, Extends(t, u), NEW old, NEW new, Placed(old, new, t)
  PROVE  Placed(old, new, u)
  BY DEF Extends, Placed

LEMMA CarriesKept ==
  ASSUME NEW t, NEW u, Extends(t, u), DOMAIN u = DOMAIN t, NEW s, NEW f, NEW R,
         Carries(s, t, f, R)
  PROVE  Carries(s, u, f, R)
  BY DEF Extends, Carries

(* The new note has a witness, at its position. *)
LEMMA NoteCarried ==
  ASSUME NEW t, IsTable(t, NoteId, NoteRow), NEW u, IsTable(u, NoteId, NoteRow),
         Extends(t, u), NEW id, NEW nf, Added(u, t, id, nf),
         NEW old, NEW new, Placed(old, new, t), NEW f \in Nat, NEW R,
         Carries(DOMAIN old \cup DOMAIN new, t, f, R),
         NEW c \in Block, NEW x, Sound(u, x, c), nf = <<Leaves[c][f + 1], f>>
  PROVE  /\ Placed(old, Put(new, id, f), u)
         /\ Carries(DOMAIN old \cup DOMAIN Put(new, id, f), u, f + 1, R)
<1> DEFINE now == Put(new, id, f)
<1>0. /\ DOMAIN u = DOMAIN t \cup {id} /\ \A n \in DOMAIN t : u[n] = t[n]
      /\ u[id].nf = nf /\ id \in DOMAIN u
  BY DEF Added
<1>1. /\ DOMAIN now = DOMAIN new \cup {id} /\ now[id] = f
      /\ \A n \in DOMAIN new \ {id} : now[n] = new[n]
  BY DEF Put, InsertAll
<1>2. u[id].nf[2] = f
  BY <1>0
<1>3. Placed(old, new, u)
  BY PlacedKept
<1>4. Placed(old, now, u)
  BY <1>0, <1>1, <1>2, <1>3 DEF Placed
<1>5. ASSUME NEW n \in DOMAIN u \ R, u[n].spent \in Unspoken, u[n].nf[2] < f + 1, n # id
      PROVE n \in DOMAIN old \cup DOMAIN new
  <2>1. n \in DOMAIN t /\ u[n] = t[n] /\ u[n] \in NoteRow
    BY <1>0, <1>5 DEF IsTable
  <2>2. u[n].nf \in Out \X Nat /\ u[n].nf[2] \in Nat /\ u[n].nf = <<u[n].nf[1], u[n].nf[2]>>
    BY <2>1 DEF NoteRow, Nf
  <2>3. Genuine(n, u[n], c)
    BY DEF Sound
  <2>4. u[n].nf[2] # f
    <3> SUFFICES ASSUME u[n].nf[2] = f PROVE FALSE
      OBVIOUS
    <3>1. u[n].nf[1] = Leaves[c][f + 1]
      BY <2>3 DEF Genuine
    <3>2. u[n].nf = u[id].nf
      BY <1>0, <2>2, <3>1
    <3> QED BY <1>0, <1>5, <3>2 DEF Sound, OnePerNf
  <2>5. u[n].nf[2] < f
    BY <1>0, <1>5, <2>2, <2>4
  <2> QED BY <1>0, <1>5, <2>1, <2>5 DEF Carries
<1>6. Carries(DOMAIN old \cup DOMAIN now, u, f + 1, R)
  BY <1>0, <1>1, <1>5 DEF Carries
<1> QED BY <1>4, <1>6

-----------------------------------------------------------------------------
(* The place of the scan *)

(* The scan is in a block of the batch, or past its last block.            *)
LEMMA ScanIsAt ==
  ASSUME IInv, ppc = "scan", ScanPlace
  PROVE  /\ BatchEnd \in Block /\ Done \in Block
         /\ Synced \in Anc[BatchEnd] /\ Done \in Anc[BatchEnd]
         /\ InBlock => /\ At \in Block \ {Genesis} /\ At \in Anc[BatchEnd]
                       /\ Parent[At] = Done
         /\ ~InBlock => Done = BatchEnd
<1>1. Follows(batch, Synced)
  BY PipelineParts DEF IInv, Running, Linkage
<1>2. batch \in Batch /\ batch.blocks # << >> /\ Synced \in Block /\ BatchEnd \in Block
  BY AllEndsTyped DEF IInv, TInv, BatchShape, InBatch
<1>3. batch.blocks \in Seq(Block) /\ BatchEnd = batch.blocks[Len(batch.blocks)]
  BY <1>2 DEF Batch, BatchEnd, EndOf, LastOf
<1>4. Len(batch.blocks) \in Nat \ {0}
  BY <1>2, <1>3
<1>5. Synced \in Anc[BatchEnd] /\ BatchEnd \in Anc[BatchEnd]
  BY <1>1, <1>2, LedgerAncestry DEF Follows, BatchEnd
<1>6. \A i \in 1..Len(batch.blocks) :
        /\ Parent[batch.blocks[i]] = IF i = 1 THEN Synced ELSE batch.blocks[i - 1]
        /\ batch.blocks[i] \in Block \ {Genesis} /\ batch.blocks[i] \in Anc[BatchEnd]
  BY <1>1, <1>3 DEF Follows, BatchEnd
<1>7. scan.blk \in 1..(Len(batch.blocks) + 1)
  BY DEF ScanPlace
<1>8. Done \in Block /\ Done \in Anc[BatchEnd]
  <2>1. CASE scan.blk = 1
    BY <1>2, <1>5, <2>1 DEF Done
  <2>2. CASE scan.blk # 1
    <3>1. scan.blk - 1 \in 1..Len(batch.blocks)
      BY <1>4, <1>7, <2>2
    <3> QED BY <1>6, <2>2, <3>1 DEF Done
  <2> QED BY <2>1, <2>2
<1>9. ASSUME InBlock
      PROVE At \in Block \ {Genesis} /\ At \in Anc[BatchEnd] /\ Parent[At] = Done
  <2>1. scan.blk \in 1..Len(batch.blocks)
    BY <1>4, <1>7, <1>9 DEF InBlock
  <2> QED BY <1>6, <2>1 DEF At, Done
<1>10. ASSUME ~InBlock PROVE Done = BatchEnd
  <2>1. scan.blk = Len(batch.blocks) + 1 /\ scan.blk # 1 /\ scan.blk - 1 = Len(batch.blocks)
    BY <1>4, <1>7, <1>10 DEF InBlock
  <2> QED BY <1>3, <2>1 DEF Done
<1> QED BY <1>2, <1>5, <1>8, <1>9, <1>10

(* The counts of a block are numbers, and so are the places in it. *)
LEMMA CountsTyped ==
  ASSUME NEW b \in Block
  PROVE  NSpends(b) \in Nat /\ NOuts(b) \in Nat /\ Len(Leaves[b]) \in Nat
<1>1. Spends[b] \in Seq(Spend) /\ Outs[b] \in Seq(Out) /\ Leaves[b] \in Seq(Out)
  BY LedgerTypes
<1> QED BY <1>1 DEF NSpends, NOuts

(* What the scan has passed and seen at a place.                           *)
LEMMA ScanHasPassed ==
  ASSUME IInv, ppc = "scan", ScanPlace
  PROVE  /\ Passed \in Nat /\ Passed <= Len(Leaves[BatchEnd])
         /\ ~InBlock => Passed = Len(Leaves[BatchEnd]) /\ Seen = Revealed(BatchEnd)
         /\ InBlock /\ scan.cur > NSpends(At) => Seen = Revealed(At)
         /\ InBlock /\ scan.cur - NSpends(At) \in 1..NOuts(At) =>
              /\ Passed = scan.pos + (scan.cur - NSpends(At)) - 1
              /\ Passed < Len(Leaves[BatchEnd])
              /\ Len(Leaves[Parent[At]]) <= Passed /\ Passed < Len(Leaves[At])
              /\ Leaves[BatchEnd][Passed + 1] = Outs[At][scan.cur - NSpends(At)]
         /\ Seen \subseteq Revealed(BatchEnd)
<1>1. /\ BatchEnd \in Block /\ Done \in Block
      /\ Synced \in Anc[BatchEnd] /\ Done \in Anc[BatchEnd]
      /\ InBlock => /\ At \in Block \ {Genesis} /\ At \in Anc[BatchEnd]
                    /\ Parent[At] = Done
      /\ ~InBlock => Done = BatchEnd
  BY ScanIsAt
<1>2. scan.pos = Len(Leaves[Done]) /\ scan.cur \in Nat \ {0} /\ scan.pos \in Nat
  BY <1>1, CountsTyped DEF ScanPlace
<1>3. Len(Leaves[BatchEnd]) \in Nat /\ Len(Leaves[Done]) <= Len(Leaves[BatchEnd])
  BY <1>1, CountsTyped, LedgerLeaves
<1>4. ASSUME ~InBlock
      PROVE Passed = Len(Leaves[BatchEnd]) /\ Seen = Revealed(BatchEnd)
  BY <1>1, <1>2, <1>4 DEF Passed, Seen
<1>5. ASSUME InBlock
      PROVE /\ NSpends(At) \in Nat /\ NOuts(At) \in Nat
            /\ Len(Leaves[At]) = scan.pos + NOuts(At)
            /\ Len(Leaves[At]) <= Len(Leaves[BatchEnd])
            /\ \A i \in 1..NOuts(At) : Leaves[At][scan.pos + i] = Outs[At][i]
            /\ Revealed(At) = Revealed(Done) \cup NfsIn(At)
            /\ Revealed(At) \subseteq Revealed(BatchEnd)
  <2>1. At \in Block /\ At # Genesis /\ At \in Anc[BatchEnd] /\ Parent[At] = Done
    BY <1>1, <1>5
  <2>2. NSpends(At) \in Nat
    BY <2>1, CountsTyped
  <2>3. /\ NOuts(At) \in Nat /\ Len(Leaves[At]) = scan.pos + NOuts(At)
        /\ \A i \in 1..NOuts(At) : Leaves[At][scan.pos + i] = Outs[At][i]
    BY <1>2, <2>1, LeavesOfBlock
  <2>4. Len(Leaves[At]) <= Len(Leaves[BatchEnd])
    BY <1>1, <2>1, LedgerLeaves
  <2>5. Revealed(At) = Revealed(Done) \cup NfsIn(At) /\ Revealed(At) \subseteq Revealed(BatchEnd)
    BY <1>1, <2>1, RevealedStep, RevealedKept
  <2> QED BY <2>2, <2>3, <2>4, <2>5
<1>6. ASSUME InBlock PROVE Passed \in Nat /\ Passed <= Len(Leaves[BatchEnd])
  <2> DEFINE p == scan.pos
             c == scan.cur
             s == NSpends(At)
             o == NOuts(At)
             l == Len(Leaves[At])
             e == Len(Leaves[BatchEnd])
  <2>1. p \in Nat /\ c \in Nat /\ s \in Nat /\ o \in Nat /\ e \in Nat
    BY <1>2, <1>3, <1>5, <1>6
  <2>2. l = p + o /\ l <= e
    BY <1>5, <1>6
  <2>3. Passed = IF c <= s THEN p ELSE IF c > s + o THEN p + o ELSE p + c - s - 1
    BY <1>6 DEF Passed
  <2>4. Passed \in Nat /\ Passed <= e
    <3> HIDE DEF p, c, s, o, l, e
    <3> QED BY <2>1, <2>2, <2>3
  <2> QED BY <2>4
<1>7. ASSUME InBlock
      PROVE {Spends[At][i].nf : i \in 1..NSpends(At)} = NfsIn(At)
  BY DEF NfsIn, SpendsIn, NSpends
<1>8. ASSUME InBlock, scan.cur > NSpends(At) PROVE Seen = Revealed(At)
  <2>1. {j \in 1..NSpends(At) : j < scan.cur} = 1..NSpends(At)
    BY <1>2, <1>5, <1>8
  <2> QED BY <1>5, <1>7, <1>8, <2>1 DEF Seen
<1>9. ASSUME InBlock, scan.cur - NSpends(At) \in 1..NOuts(At)
      PROVE /\ Passed = scan.pos + (scan.cur - NSpends(At)) - 1
            /\ Passed < Len(Leaves[BatchEnd])
            /\ Len(Leaves[Parent[At]]) <= Passed /\ Passed < Len(Leaves[At])
            /\ Leaves[BatchEnd][Passed + 1] = Outs[At][scan.cur - NSpends(At)]
  <2> DEFINE i == scan.cur - NSpends(At)
  <2>0. i \in Nat \ {0} /\ scan.cur > NSpends(At) /\ ~(scan.cur > NSpends(At) + NOuts(At))
    BY <1>2, <1>5, <1>9
  <2>1. Passed = scan.pos + i - 1 /\ Passed + 1 = scan.pos + i /\ Passed \in Nat
    <3>1. Passed = scan.pos + scan.cur - NSpends(At) - 1
      BY <1>2, <1>5, <1>9, <2>0 DEF Passed
    <3>2. NSpends(At) \in Nat /\ scan.cur \in Nat /\ scan.pos \in Nat
      BY <1>2, <1>5, <1>9
    <3>3. i = scan.cur - NSpends(At)
      OBVIOUS
    <3> HIDE DEF i
    <3> QED BY <2>0, <3>1, <3>2, <3>3
  <2>2. Len(Leaves[Parent[At]]) <= Passed /\ Passed < Len(Leaves[At])
    <3>1. Len(Leaves[Parent[At]]) = scan.pos /\ scan.pos \in Nat
      BY <1>1, <1>2, <1>9
    <3>2. Len(Leaves[At]) = scan.pos + NOuts(At) /\ NOuts(At) \in Nat /\ i \in 1..NOuts(At)
      BY <1>5, <1>9
    <3> HIDE DEF i
    <3> QED BY <2>1, <3>1, <3>2
  <2>3. Leaves[At][Passed + 1] = Outs[At][i]
    BY <1>5, <1>9, <2>1
  <2>4. Passed < Len(Leaves[BatchEnd]) /\ Leaves[BatchEnd][Passed + 1] = Leaves[At][Passed + 1]
    BY <1>1, <1>9, <2>1, <2>2, LeafKept
  <2> QED BY <2>1, <2>2, <2>3, <2>4
<1>10. Seen \subseteq Revealed(BatchEnd)
  <2>1. CASE InBlock
    <3>1. {Spends[At][i].nf : i \in {j \in 1..NSpends(At) : j < scan.cur}} \subseteq NfsIn(At)
      BY <1>7, <2>1
    <3> QED BY <1>5, <2>1, <3>1 DEF Seen
  <2> QED BY <1>4, <2>1
<1> QED BY <1>3, <1>4, <1>6, <1>8, <1>9, <1>10

(* The scan passes a spend, an output or a debit of a block.               *)
LEMMA ScanAdvances ==
  ASSUME IInv, ppc = "scan", ScanPlace, InBlock, UNCHANGED <<blocks, batch>>,
         scan'.blk = scan.blk, scan'.pos = scan.pos, scan'.cur = scan.cur + 1
  PROVE  /\ ScanPlace' /\ BatchEnd' = BatchEnd /\ Synced' = Synced
         /\ scan.cur \in 1..NSpends(At) =>
              Passed' = Passed /\ Seen' = Seen \cup {Spends[At][scan.cur].nf}
         /\ scan.cur - NSpends(At) \in 1..NOuts(At) => Passed' = Passed + 1 /\ Seen' = Seen
         /\ scan.cur - NSpends(At) - NOuts(At) \in 1..NSpends(At) =>
              Passed' = Passed /\ Seen' = Seen
<1>1. Synced' = Synced /\ BatchEnd' = BatchEnd /\ At' = At /\ Done' = Done /\ InBlock'
  <2>1. Synced' = Synced
    BY SyncedKept
  <2> QED BY <2>1 DEF BatchEnd, EndOf, LastOf, At, Done, InBlock
<1>2. At \in Block
  BY ScanIsAt
<1>3. NSpends(At) \in Nat /\ NOuts(At) \in Nat /\ scan.cur \in Nat \ {0} /\ scan.pos \in Nat
  <2>1. scan.pos \in Nat
    BY DEF IInv, TInv, TypeOK, ScanTypes
  <2> QED BY <1>2, <2>1, CountsTyped DEF ScanPlace
<1>4. ScanPlace'
  BY <1>1, <1>3 DEF ScanPlace
<1>5. ASSUME scan.cur \in 1..NSpends(At)
      PROVE Passed' = Passed /\ Seen' = Seen \cup {Spends[At][scan.cur].nf}
  <2>1. Passed' = Passed
    BY <1>1, <1>3, <1>5 DEF Passed
  <2>2. {j \in 1..NSpends(At) : j < scan.cur + 1}
          = {j \in 1..NSpends(At) : j < scan.cur} \cup {scan.cur}
    BY <1>3, <1>5
  <2>3. Seen' = Revealed(Done) \cup
                  {Spends[At][i].nf : i \in {j \in 1..NSpends(At) : j < scan.cur + 1}}
    BY <1>1 DEF Seen
  <2>4. Seen = Revealed(Done) \cup
                  {Spends[At][i].nf : i \in {j \in 1..NSpends(At) : j < scan.cur}}
    BY DEF Seen
  <2> QED BY <2>1, <2>2, <2>3, <2>4
<1>6. ASSUME scan.cur > NSpends(At) PROVE Seen' = Seen
  <2>1. {j \in 1..NSpends(At) : j < scan.cur + 1} = {j \in 1..NSpends(At) : j < scan.cur}
    BY <1>3, <1>6
  <2> QED BY <1>1, <2>1 DEF Seen
<1>7. ASSUME scan.cur - NSpends(At) \in 1..NOuts(At)
      PROVE Passed' = Passed + 1 /\ Seen' = Seen
  <2>1. Passed' = Passed + 1
    BY <1>1, <1>3, <1>7 DEF Passed
  <2>2. scan.cur > NSpends(At)
    BY <1>3, <1>7
  <2> QED BY <1>6, <2>1, <2>2
<1>8. ASSUME scan.cur - NSpends(At) - NOuts(At) \in 1..NSpends(At)
      PROVE Passed' = Passed /\ Seen' = Seen
  <2>1. scan.cur > NSpends(At) /\ scan.cur > NSpends(At) + NOuts(At)
    BY <1>3, <1>8
  <2>2. Passed' = Passed
    BY <1>1, <1>3, <2>1 DEF Passed
  <2> QED BY <1>6, <2>1, <2>2
<1> QED BY <1>1, <1>4, <1>5, <1>7, <1>8

(* The scan goes on to the next block. *)
LEMMA ScanLeavesBlock ==
  ASSUME IInv, ppc = "scan", ScanPlace, InBlock, UNCHANGED <<blocks, batch>>,
         scan.cur > 2 * NSpends(At) + NOuts(At),
         scan'.blk = scan.blk + 1, scan'.cur = 1, scan'.pos = scan.pos + NOuts(At)
  PROVE  /\ ScanPlace' /\ BatchEnd' = BatchEnd /\ Synced' = Synced
         /\ Passed' = Passed /\ Seen' = Seen
<1>1. Synced' = Synced /\ BatchEnd' = BatchEnd
  <2>1. Synced' = Synced
    BY SyncedKept
  <2> QED BY <2>1 DEF BatchEnd, EndOf, LastOf
<1>2. At \in Block /\ At # Genesis /\ Parent[At] = Done
  BY ScanIsAt
<1>3. NSpends(At) \in Nat /\ NOuts(At) \in Nat /\ scan.cur \in Nat \ {0} /\ scan.pos \in Nat
  <2>1. scan.pos \in Nat
    BY DEF IInv, TInv, TypeOK, ScanTypes
  <2> QED BY <1>2, <2>1, CountsTyped DEF ScanPlace
<1>4. scan.blk \in 1..Len(batch.blocks) /\ Len(batch.blocks) \in Nat
  <2>1. batch.blocks \in Seq(Block)
    BY AllEndsTyped DEF Batch
  <2> QED BY <2>1 DEF ScanPlace, InBlock
<1>5. Done' = At
  BY <1>4 DEF Done, At
<1>6. scan'.pos = Len(Leaves[At])
  BY <1>2, LeavesOfBlock DEF ScanPlace
<1>7. ScanPlace'
  <2>1. scan'.blk \in 1..(Len(batch'.blocks) + 1)
    BY <1>4
  <2> QED BY <1>5, <1>6, <2>1 DEF ScanPlace
<1>8. scan.cur > NSpends(At) /\ scan.cur > NSpends(At) + NOuts(At)
  BY <1>3
<1>9. Passed = scan.pos + NOuts(At)
  BY <1>3, <1>8 DEF Passed
<1>10. InBlock' => At' \in Block
  <2>1. InBlock' => scan.blk + 1 \in 1..Len(batch.blocks)
    BY <1>4 DEF InBlock
  <2>2. batch.blocks \in Seq(Block)
    BY AllEndsTyped DEF Batch
  <2> QED BY <2>1, <2>2 DEF At
<1>11. InBlock' => NSpends(At') \in Nat /\ NOuts(At') \in Nat
  BY <1>10, CountsTyped
<1>12. Passed' = scan.pos + NOuts(At)
  BY <1>3, <1>11 DEF Passed
<1>13. Seen = Revealed(At)
  BY <1>8, ScanHasPassed
<1>14. Seen' = Revealed(At)
  <2>1. InBlock' => {j \in 1..NSpends(At') : j < 1} = {}
    BY <1>11
  <2>2. Seen' = Revealed(At) \cup
          (IF InBlock' THEN {Spends[At'][i].nf : i \in {j \in 1..NSpends(At') : j < 1}} ELSE {})
    BY <1>5 DEF Seen
  <2> QED BY <2>1, <2>2
<1> QED BY <1>1, <1>7, <1>9, <1>12, <1>13, <1>14

-----------------------------------------------------------------------------
(* The steps of the scan *)

(* What a step of the scan starts from. *)
LEMMA ScanContext ==
  ASSUME NEW R, NInv(R), ppc = "scan"
  PROVE  /\ IInv /\ ScanPlace /\ ScanRows(R) /\ ScanWitnesses(R)
         /\ IsTable(scan.notes, NoteId, NoteRow) /\ IsTable(scan.txs, TxId, TxRow)
         /\ IsTable(nfs, Nf, NoteId)
         /\ ScanTop \in Block /\ BatchEnd \in Block /\ BatchEnd \in Anc[ScanTop]
         /\ Passed \in Nat
         /\ scan = [blk |-> scan.blk, cur |-> scan.cur, pos |-> scan.pos, mine |-> scan.mine,
                    found |-> scan.found, new |-> scan.new, notes |-> scan.notes,
                    txs |-> scan.txs]
<1>1. IInv /\ ScanPlace /\ ScanRows(R) /\ ScanWitnesses(R)
  BY DEF NInv, Scan
<1>2. TypeOK
  BY <1>1 DEF IInv, TInv
<1>3. batch.blocks # << >> /\ BatchEnd \in Block /\ tip \in Block
  BY <1>1, <1>2, AllEndsTyped DEF IInv, TInv, BatchShape, InBatch, TypeOK
<1>4. BatchEnd = LastOf(batch)
  BY <1>3 DEF BatchEnd, EndOf
<1>5. ScanTop \in Block /\ BatchEnd \in Anc[ScanTop]
  <2>1. CASE Untorn
    BY <1>3, <2>1, LedgerAncestry DEF ScanTop
  <2>2. CASE ~Untorn
    BY <1>3, <1>4, <2>2 DEF ScanTop, NInv, Mendable, OnTip
  <2> QED BY <2>1, <2>2
<1>6. Passed \in Nat
  BY <1>1, ScanHasPassed
<1> QED BY <1>1, <1>2, <1>3, <1>5, <1>6 DEF TypeOK, ScanTypes, PrTypes

(* Tracking goes on when the transactions are kept. *)
LEMMA TxsKept ==
  ASSUME NEW t, NEW x, NEW y, NEW known, NEW c, NEW e, NEW f, NEW seen, NEW R,
         Tracks(t, x, known, c, e, f, seen, R), KeepsTxs(x, y)
  PROVE  Tracks(t, y, known, c, e, f, seen, R)
  BY DEF Tracks, KeepsTxs, Sound, HasTxs

(* Storing a transaction and adding to its value keeps those stored.       *)
LEMMA TxStored ==
  ASSUME IsTable(scan.txs, TxId, TxRow), NEW b, NEW t \in Tx, NEW a, TxKey(b, t, a) \in TxId
  PROVE  /\ KeepsTxs(scan.txs, StoreTransaction(b, t, a))
         /\ IsTable(StoreTransaction(b, t, a), TxId, TxRow)
<1> DEFINE table == StoreTransaction(b, t, a)
<1>1. [txid |-> t, value |-> 0] \in TxRow
  BY DEF TxRow
<1>2. IsTable(table, TxId, TxRow)
  BY <1>1, InsertTable DEF StoreTransaction
<1>3. DOMAIN table = DOMAIN scan.txs \cup {TxKey(b, t, a)}
      /\ \A k \in DOMAIN scan.txs : table[k] = scan.txs[k]
  BY DEF StoreTransaction, Insert, InsertAll
<1> QED BY <1>2, <1>3 DEF KeepsTxs

LEMMA ValueAdded ==
  ASSUME NEW x, NEW table, KeepsTxs(x, table), IsTable(table, TxId, TxRow), NEW row, NEW v
  PROVE  LET y == [table EXCEPT ![row].value = v] IN
         KeepsTxs(x, y) /\ DOMAIN y = DOMAIN table
         /\ \A k \in DOMAIN table : y[k].txid = table[k].txid
<1> DEFINE y == [table EXCEPT ![row].value = v]
<1>1. \A k \in DOMAIN table : table[k] \in TxRow
  BY DEF IsTable
<1>2. DOMAIN y = DOMAIN table /\ \A k \in DOMAIN table : y[k].txid = table[k].txid
  BY <1>1 DEF TxRow
<1> QED BY <1>2 DEF KeepsTxs

(* A note that the scan finds has the next position, and no block of its   *)
(* chain has spent it.                                                     *)
LEMMA NewNotePlace ==
  ASSUME IInv, ppc = "scan", ScanPlace, InBlock, AtOutput(At)
  PROVE  /\ NewNf(At) = <<Leaves[BatchEnd][Passed + 1], Passed>>
         /\ NewNf(At) \in Nf
         /\ Passed \in Nat /\ Passed < Len(Leaves[BatchEnd])
         /\ Len(Leaves[Parent[At]]) <= Passed /\ Passed < Len(Leaves[At])
         /\ Leaves[At][Passed + 1] = NewNf(At)[1]
         /\ NewNf(At) \notin Seen
<1> DEFINE i == scan.cur - NSpends(At)
<1>1. /\ At \in Block /\ At # Genesis /\ At \in Anc[BatchEnd] /\ BatchEnd \in Block
  BY ScanIsAt
<1>2. i \in 1..NOuts(At) /\ NOuts(At) \in Nat /\ NSpends(At) \in Nat
  BY <1>1, CountsTyped DEF AtOutput
<1>3. /\ Passed \in Nat /\ Passed = scan.pos + i - 1
      /\ Passed < Len(Leaves[BatchEnd])
      /\ Len(Leaves[Parent[At]]) <= Passed /\ Passed < Len(Leaves[At])
      /\ Leaves[BatchEnd][Passed + 1] = Outs[At][i]
  BY <1>2, ScanHasPassed
<1>4. NewNf(At) = <<Leaves[BatchEnd][Passed + 1], Passed>>
  BY <1>3 DEF NewNf
<1>5. Leaves[At][Passed + 1] = Leaves[BatchEnd][Passed + 1]
  BY <1>1, <1>3, LeafKept
<1>6. NewNf(At) \in Nf
  <2>1. Outs[At] \in Seq(Out)
    BY <1>1, LedgerTypes
  <2>2. Outs[At][i] \in Out
    BY <1>2, <2>1 DEF NOuts
  <2> QED BY <1>3, <1>4, <2>2 DEF Nf
<1>7. Seen = Revealed(At)
  <2>1. scan.cur > NSpends(At)
    BY <1>2 DEF ScanPlace
  <2> QED BY <2>1, ScanHasPassed
<1>8. NewNf(At) \notin Seen
  <2> SUFFICES ASSUME NewNf(At) \in Revealed(At) PROVE FALSE
    BY <1>7
  <2>1. PICK a \in Anc[At] \ {Genesis} : NewNf(At)[2] < Len(Leaves[Parent[a]])
    <3>1. NewNf(At)[2] = Passed /\ NewNf(At)[1] = Leaves[At][Passed + 1] /\ At \in Anc[At]
      BY <1>1, <1>4, <1>5, LedgerAncestry
    <3> QED BY <1>1, <1>3, <3>1, RevealedIsOld
  <2>2. Parent[a] \in Anc[Parent[At]] /\ Parent[At] \in Block /\ Parent[a] \in Block
    <3>1. a \in Block
      BY <1>1, Ancestor
    <3>2. Parent[a] \in Block /\ Parent[a] \in Anc[a]
      BY <2>1, <3>1, ParentIsAncestor
    <3>3. Parent[At] \in Block /\ Anc[At] = Anc[Parent[At]] \cup {At}
      BY <1>1, Child
    <3>4. CASE a = At
      BY <3>3, <3>4, LedgerAncestry
    <3>5. CASE a # At
      <4>1. a \in Anc[Parent[At]]
        BY <2>1, <3>3, <3>5
      <4>2. Anc[a] \subseteq Anc[Parent[At]]
        BY <3>3, <4>1, Ancestor
      <4> QED BY <3>2, <3>3, <4>2
    <3> QED BY <3>4, <3>5
  <2>3. Len(Leaves[Parent[a]]) <= Len(Leaves[Parent[At]])
    BY <2>2, LedgerLeaves
  <2>4. Len(Leaves[Parent[a]]) \in Nat /\ Len(Leaves[Parent[At]]) \in Nat
    BY <2>2, CountsTyped
  <2>5. NewNf(At)[2] = Passed
    BY <1>4
  <2> QED BY <1>3, <2>1, <2>3, <2>4, <2>5
<1> QED BY <1>3, <1>4, <1>5, <1>6, <1>8

(* The spends of a block: those of our notes are recorded. *)
LEMMA ScanOfSpend ==
  ASSUME NEW R, NInv(R), ScanSpend
  PROVE  Scan(R)'
<1>0. PICK b \in Block :
        /\ Scanning(b) /\ scan.cur \in 1..NSpends(b)
        /\ LET nf == Spends[b][scan.cur].nf IN
           IF nf \in DOMAIN nfs
             THEN /\ scan' = [scan EXCEPT !.cur = @ + 1, !.mine = @ \cup {nf},
                        !.notes = [n \in DOMAIN @ |->
                           IF n = nfs[nf] THEN [@[n] EXCEPT !.spent = Height[b]] ELSE @[n]]]
                  /\ nfs' = Restrict(nfs, DOMAIN nfs \ {nf})
             ELSE scan' = [scan EXCEPT !.cur = @ + 1] /\ UNCHANGED nfs
  BY DEF ScanSpend
<1> DEFINE nf == Spends[b][scan.cur].nf
<1>1. ppc = "scan" /\ InBlock /\ b = At
  BY <1>0 DEF Scanning, InBlock, At
<1>2. /\ IInv /\ ScanPlace /\ ScanRows(R) /\ ScanWitnesses(R)
      /\ IsTable(scan.notes, NoteId, NoteRow) /\ IsTable(nfs, Nf, NoteId)
      /\ ScanTop \in Block /\ BatchEnd \in Block /\ BatchEnd \in Anc[ScanTop]
      /\ scan = [blk |-> scan.blk, cur |-> scan.cur, pos |-> scan.pos, mine |-> scan.mine,
                 found |-> scan.found, new |-> scan.new, notes |-> scan.notes,
                 txs |-> scan.txs]
  BY <1>1, ScanContext
<1>3. UNCHANGED <<tip, blocks, notes, batch, bwits, ppc>>
  BY DEF ScanSpend, dbVars
<1>4. scan'.blk = scan.blk /\ scan'.pos = scan.pos /\ scan'.cur = scan.cur + 1
      /\ scan'.txs = scan.txs /\ scan'.new = scan.new
  BY <1>0, <1>2
<1>5. /\ ScanPlace' /\ BatchEnd' = BatchEnd /\ Passed' = Passed /\ Seen' = Seen \cup {nf}
  BY <1>0, <1>1, <1>2, <1>3, <1>4, ScanAdvances
<1>6. ScanTop' = ScanTop
  BY <1>3, <1>5 DEF ScanTop
<1>7. b \in Anc[ScanTop] /\ nf \in NfsIn(b)
  <2>1. b \in Anc[BatchEnd]
    BY <1>1, <1>2, ScanIsAt
  <2>2. Spends[b][scan.cur] \in SpendsIn(b)
    BY <1>0 DEF SpendsIn, NSpends
  <2> QED BY <1>2, <2>1, <2>2, Ancestor DEF NfsIn
<1>8. CASE nf \in DOMAIN nfs
  <2> DEFINE t == scan.notes
             u == [n \in DOMAIN t |-> IF n = nfs[nf] THEN [t[n] EXCEPT !.spent = Height[b]] ELSE t[n]]
             left == Restrict(nfs, DOMAIN nfs \ {nf})
  <2>1. scan'.notes = u /\ nfs' = left /\ DOMAIN u = DOMAIN t
    BY <1>0, <1>2, <1>8
  <2> HIDE DEF u
  <2>2. /\ Tracks(u, scan.txs, left, ScanTop, BatchEnd, Passed, Seen \cup {nf}, R)
        /\ Extends(t, u) /\ (Live(nfs, t) => Live(left, u))
    <3>1. Tracks(t, scan.txs, nfs, ScanTop, BatchEnd, Passed, Seen, R)
      BY <1>2 DEF ScanRows
    <3> HIDE DEF t, nf, left
    <3>2. Marked(u, t, nfs[nf], Height[b])
      <4>1. \A n \in DOMAIN t : t[n] \in NoteRow
        BY <1>2 DEF t, IsTable
      <4> QED BY <4>1 DEF Marked, u, NoteRow
    <3>3. IsTable(t, NoteId, NoteRow)
      BY <1>2 DEF t
    <3> QED BY <1>2, <1>7, <1>8, <3>1, <3>2, <3>3, SpendRecorded DEF left
  <2>3. Extends(notes, u)
    BY <1>2, <2>2, ExtendsTransitive DEF ScanRows
  <2>4. Untorn => Under(u, Passed) /\ Live(left, u)
    <3>1. \A n \in DOMAIN t : u[n].nf = t[n].nf
      BY <2>2 DEF Extends
    <3>2. Untorn => Under(t, Passed) /\ Live(nfs, t)
      BY <1>2 DEF ScanRows
    <3> QED BY <2>1, <2>2, <3>1, <3>2 DEF Under
  <2>5. ScanRows(R)'
    BY <1>3, <1>4, <1>5, <1>6, <2>1, <2>2, <2>3, <2>4 DEF ScanRows
  <2>6. ScanWitnesses(R)'
    <3>1. Placed(bwits, scan.new, u)
          /\ Carries(DOMAIN bwits \cup DOMAIN scan.new, u, Passed, R)
      BY <1>2, <2>1, <2>2, PlacedKept, CarriesKept DEF ScanWitnesses
    <3> QED BY <1>3, <1>4, <1>5, <2>1, <3>1 DEF ScanWitnesses
  <2> QED BY <1>5, <2>5, <2>6 DEF Scan
<1>9. CASE nf \notin DOMAIN nfs
  <2>1. scan'.notes = scan.notes /\ nfs' = nfs
    BY <1>0, <1>2, <1>9
  <2>2. Tracks(scan.notes, scan.txs, nfs, ScanTop, BatchEnd, Passed, Seen \cup {nf}, R)
    BY <1>2, <1>9, SpendPassed DEF ScanRows
  <2>3. ScanRows(R)'
    BY <1>2, <1>3, <1>4, <1>5, <1>6, <2>1, <2>2 DEF ScanRows
  <2>4. ScanWitnesses(R)'
    BY <1>2, <1>3, <1>4, <1>5, <2>1 DEF ScanWitnesses
  <2> QED BY <1>5, <2>3, <2>4 DEF Scan
<1> QED BY <1>8, <1>9

(* The outputs of a block: ours are added, with a witness and a nullifier  *)
(* to watch for.                                                           *)
LEMMA ScanOfNote ==
  ASSUME NEW R, NInv(R), ScanNote
  PROVE  Scan(R)'
<1>a. PICK b \in Block :
        /\ AtOutput(b) /\ Mine(NewNf(b)[1])
        /\ LET nf == NewNf(b)
               o == nf[1]
               table == StoreTransaction(b, TxOf[o], Owner[o])
           IN \E row \in TxRows(table, TxOf[o], Owner[o]) :
                LET id == <<row, o>> IN
                /\ NoteFound(id, nf)
                /\ scan' = [scan EXCEPT !.cur = @ + 1, !.found = TRUE,
                      !.notes = Insert(@, id, [nf |-> nf, height |-> Height[b], spent |-> Null]),
                      !.txs = [table EXCEPT ![row].value = @ + Value[o]],
                      !.new = Put(@, id, nf[2])]
                /\ nfs' = Learn(nf, id)
  BY DEF ScanNote
<1> DEFINE nf == NewNf(b)
           o == nf[1]
           table == StoreTransaction(b, TxOf[o], Owner[o])
<1>b. PICK row \in TxRows(table, TxOf[o], Owner[o]) :
        /\ NoteFound(<<row, o>>, nf)
        /\ scan' = [scan EXCEPT !.cur = @ + 1, !.found = TRUE,
              !.notes = Insert(@, <<row, o>>, [nf |-> nf, height |-> Height[b], spent |-> Null]),
              !.txs = [table EXCEPT ![row].value = @ + Value[o]],
              !.new = Put(@, <<row, o>>, nf[2])]
        /\ nfs' = Learn(nf, <<row, o>>)
  BY <1>a
<1> DEFINE id == <<row, o>>
           r == [nf |-> nf, height |-> Height[b], spent |-> Null]
           t == scan.notes
           u == Insert(t, id, r)
           y == [table EXCEPT ![row].value = @ + Value[o]]
           more == Put(nfs, nf, id)
           new == Put(scan.new, id, Passed)
<1>0. /\ AtOutput(b) /\ Mine(o) /\ row \in TxRows(table, TxOf[o], Owner[o])
      /\ NoteFound(id, nf)
      /\ scan' = [scan EXCEPT !.cur = @ + 1, !.found = TRUE,
            !.notes = u, !.txs = y, !.new = Put(@, id, nf[2])]
      /\ nfs' = Learn(nf, id)
  BY <1>a, <1>b
<1>1. ppc = "scan" /\ InBlock /\ b = At
  BY <1>0 DEF AtOutput, Scanning, InBlock, At
<1>2. /\ IInv /\ ScanPlace /\ ScanRows(R) /\ ScanWitnesses(R)
      /\ IsTable(t, NoteId, NoteRow) /\ IsTable(nfs, Nf, NoteId)
      /\ IsTable(scan.txs, TxId, TxRow)
      /\ ScanTop \in Block /\ BatchEnd \in Block /\ BatchEnd \in Anc[ScanTop]
      /\ scan = [blk |-> scan.blk, cur |-> scan.cur, pos |-> scan.pos, mine |-> scan.mine,
                 found |-> scan.found, new |-> scan.new, notes |-> scan.notes,
                 txs |-> scan.txs]
  BY <1>1, ScanContext
<1>3. UNCHANGED <<tip, blocks, notes, batch, bwits, ppc>>
  BY DEF ScanNote, dbVars
<1>4. /\ nf = <<Leaves[BatchEnd][Passed + 1], Passed>> /\ nf \in Nf
      /\ Passed \in Nat /\ Passed < Len(Leaves[BatchEnd])
      /\ Len(Leaves[Parent[b]]) <= Passed /\ Passed < Len(Leaves[b])
      /\ Leaves[b][Passed + 1] = o
      /\ nf \notin Seen
  BY <1>0, <1>1, <1>2, NewNotePlace
<1>5. nf[2] = Passed /\ o \in Out /\ Owner[o] \in Account /\ TxOf[o] \in Tx
  <2>1. nf[2] = Passed
    BY <1>4
  <2>2. o \in Out
    BY <1>4 DEF Nf
  <2> QED BY <1>0, <2>1, <2>2, LedgerTypes DEF Mine
<1>6. scan'.blk = scan.blk /\ scan'.pos = scan.pos /\ scan'.cur = scan.cur + 1
      /\ scan'.txs = y /\ scan'.new = new /\ scan'.notes = u /\ nfs' = more
  <2>1. Learn(nf, id) = more
    BY DEF Learn
  <2> QED BY <1>0, <1>2, <1>5, <2>1
<1>7. /\ row \in DOMAIN table /\ row[3] = Owner[o] /\ table[row].txid = TxOf[o]
  BY <1>0 DEF TxRows
<1>8. TxKey(b, TxOf[o], Owner[o]) \in TxId
  BY <1>5, LedgerTypes DEF TxKey, TxId
<1>9. KeepsTxs(scan.txs, y) /\ row \in DOMAIN y /\ y[row].txid = TxOf[o] /\ row \in TxId
  <2>1. KeepsTxs(scan.txs, table) /\ IsTable(table, TxId, TxRow)
    BY <1>2, <1>5, <1>8, TxStored
  <2>2. y = [table EXCEPT ![row].value = table[row].value + Value[o]]
    OBVIOUS
  <2>3. /\ KeepsTxs(scan.txs, y) /\ DOMAIN y = DOMAIN table
        /\ \A k \in DOMAIN table : y[k].txid = table[k].txid
    <3> HIDE DEF table
    <3> QED BY <2>1, <2>2, ValueAdded
  <2>4. row \in TxId
    BY <1>7, <2>1 DEF IsTable
  <2> QED BY <1>7, <2>3, <2>4
<1>10. /\ ScanPlace' /\ BatchEnd' = BatchEnd /\ Passed' = Passed + 1 /\ Seen' = Seen
  <2>1. scan.cur - NSpends(At) \in 1..NOuts(At)
    BY <1>0, <1>1 DEF AtOutput
  <2> QED BY <1>1, <1>2, <1>3, <1>6, <2>1, ScanAdvances
<1>11. ScanTop' = ScanTop
  BY <1>3, <1>10 DEF ScanTop
<1>12. id \in NoteId /\ r \in NoteRow /\ OutOf(id) = o /\ AccountOf(id) = Owner[o] /\ id[1] = row
  <2>1. Height[b] \in Nat
    BY LedgerTypes
  <2> QED BY <1>4, <1>5, <1>7, <1>9, <2>1 DEF NoteId, NoteRow, OutOf, AccountOf
<1>13. Genuine(id, r, ScanTop)
  <2>1. b \in Anc[BatchEnd] /\ b # Genesis /\ b \in Anc[b]
    BY <1>1, <1>2, ScanIsAt, LedgerAncestry
  <2>2. b \in Anc[ScanTop]
    BY <1>2, <2>1, Ancestor
  <2>3. r.nf = nf /\ r.height = Height[b] /\ r.spent = Null
    OBVIOUS
  <2>4. Genuine(id, r, b)
    <3> HIDE DEF r, id, nf
    <3> QED BY <1>4, <1>5, <1>12, <2>1, <2>3 DEF Genuine, Unspoken
  <2> QED BY <1>2, <1>12, <2>2, <2>4, GenuineKept
<1>14. (\E n \in DOMAIN t : t[n].nf = nf) => id \in DOMAIN t
  BY <1>0 DEF NoteFound, NoteTaken
<1>15. /\ Tracks(t, scan.txs, nfs, ScanTop, BatchEnd, Passed, Seen, R) /\ Extends(notes, t)
       /\ (Untorn => Under(t, Passed) /\ Live(nfs, t))
  BY <1>2 DEF ScanRows
<1>16. r.nf = nf /\ r.spent = Null
  OBVIOUS
<1>17. IsTable(u, NoteId, NoteRow)
  BY <1>2, <1>12, InsertTable
<1> HIDE DEF r, nf, id, y, u, more, new, o, t
<1>18. Fresh(id, r, t, y, ScanTop, BatchEnd, Passed, Seen)
  BY <1>4, <1>9, <1>12, <1>13, <1>14, <1>16 DEF Fresh
<1>c. IsTable(t, NoteId, NoteRow) /\ IsTable(nfs, Nf, NoteId) /\ Passed \in Nat
  BY <1>2, <1>4
<1>22. /\ Tracks(u, y, more, ScanTop, BatchEnd, Passed + 1, Seen, R)
       /\ Extends(t, u) /\ Added(u, t, id, nf)
       /\ (Under(t, Passed) /\ Live(nfs, t) => Under(u, Passed + 1) /\ Live(more, u))
  BY <1>c, <1>9, <1>15, <1>16, <1>18, NoteRecorded DEF u, more
<1>19. Extends(notes, u)
  BY <1>15, <1>22, ExtendsTransitive
<1>20. ScanRows(R)'
  BY <1>3, <1>6, <1>10, <1>11, <1>15, <1>22, <1>19 DEF ScanRows
<1>21. ScanWitnesses(R)'
  <2>1. Placed(bwits, scan.new, t)
        /\ Carries(DOMAIN bwits \cup DOMAIN scan.new, t, Passed, R)
    BY <1>2 DEF ScanWitnesses, t
  <2>2. nf = <<Leaves[ScanTop][Passed + 1], Passed>>
    BY <1>2, <1>4, LeafKept
  <2>6. Sound(u, y, ScanTop)
    BY <1>22 DEF Tracks
  <2>3. /\ Placed(bwits, new, u)
        /\ Carries(DOMAIN bwits \cup DOMAIN new, u, Passed + 1, R)
    BY <1>2, <1>4, <1>17, <1>22, <2>1, <2>2, <2>6, NoteCarried DEF new
  <2> QED BY <1>3, <1>6, <1>10, <2>3 DEF ScanWitnesses
<1> QED BY <1>10, <1>20, <1>21 DEF Scan

(* The outputs of others: no row can be for the position that they take.   *)
LEMMA ScanOfOthers ==
  ASSUME NEW R, NInv(R), SkipOutput
  PROVE  Scan(R)'
<1>0. PICK b \in Block : AtOutput(b) /\ ~Mine(NewNf(b)[1])
  BY DEF SkipOutput
<1>1. ppc = "scan" /\ InBlock /\ b = At
  BY <1>0 DEF AtOutput, Scanning, InBlock, At
<1>2. /\ IInv /\ ScanPlace /\ ScanRows(R) /\ ScanWitnesses(R)
      /\ IsTable(scan.notes, NoteId, NoteRow)
      /\ ScanTop \in Block /\ BatchEnd \in Block /\ BatchEnd \in Anc[ScanTop]
      /\ scan = [blk |-> scan.blk, cur |-> scan.cur, pos |-> scan.pos, mine |-> scan.mine,
                 found |-> scan.found, new |-> scan.new, notes |-> scan.notes,
                 txs |-> scan.txs]
  BY <1>1, ScanContext
<1>3. UNCHANGED <<tip, blocks, notes, batch, bwits, ppc, nfs>>
      /\ scan' = [scan EXCEPT !.cur = @ + 1]
  BY DEF SkipOutput, dbVars
<1>4. scan'.blk = scan.blk /\ scan'.pos = scan.pos /\ scan'.cur = scan.cur + 1
      /\ scan'.txs = scan.txs /\ scan'.new = scan.new /\ scan'.notes = scan.notes
  BY <1>2, <1>3
<1>5. /\ NewNf(b) = <<Leaves[BatchEnd][Passed + 1], Passed>>
      /\ Passed \in Nat /\ Passed < Len(Leaves[BatchEnd])
  BY <1>0, <1>1, <1>2, NewNotePlace
<1>6. Owner[Leaves[BatchEnd][Passed + 1]] \notin Account
  BY <1>0, <1>5 DEF Mine
<1>7. /\ ScanPlace' /\ BatchEnd' = BatchEnd /\ Passed' = Passed + 1 /\ Seen' = Seen
  <2>1. scan.cur - NSpends(At) \in 1..NOuts(At)
    BY <1>0, <1>1 DEF AtOutput
  <2> QED BY <1>1, <1>2, <1>3, <1>4, <2>1, ScanAdvances
<1>8. ScanTop' = ScanTop
  BY <1>3, <1>7 DEF ScanTop
<1>9. /\ Tracks(scan.notes, scan.txs, nfs, ScanTop, BatchEnd, Passed, Seen, R)
      /\ Extends(notes, scan.notes)
      /\ (Untorn => Under(scan.notes, Passed) /\ Live(nfs, scan.notes))
  BY <1>2 DEF ScanRows
<1>10. Tracks(scan.notes, scan.txs, nfs, ScanTop, BatchEnd, Passed + 1, Seen, R)
  <2>1. Complete(scan.notes, BatchEnd, Passed, Seen, R)
    BY <1>9 DEF Tracks
  <2>2. ASSUME NEW p \in 0..((Passed + 1) - 1), Owner[Leaves[BatchEnd][p + 1]] \in Account
        PROVE \E n \in DOMAIN scan.notes : scan.notes[n].nf = <<Leaves[BatchEnd][p + 1], p>>
    <3>1. p # Passed
      BY <1>6, <2>2
    <3>2. p \in 0..(Passed - 1)
      BY <1>5, <3>1
    <3> QED BY <2>1, <2>2, <3>2 DEF Complete
  <2>3. Complete(scan.notes, BatchEnd, Passed + 1, Seen, R)
    BY <2>1, <2>2 DEF Complete
  <2> QED BY <1>9, <2>3 DEF Tracks
<1>11. \A n \in DOMAIN scan.notes : scan.notes[n].nf[2] \in Nat /\ scan.notes[n].nf[2] # Passed
  <2> TAKE n \in DOMAIN scan.notes
  <2>1. scan.notes[n] \in NoteRow /\ n \in NoteId
    BY <1>2 DEF IsTable
  <2>2. scan.notes[n].nf[2] \in Nat
    BY <2>1 DEF NoteRow, Nf
  <2>3. Genuine(n, scan.notes[n], ScanTop)
    BY <1>9 DEF Tracks, Sound
  <2>4. Owner[OutOf(n)] \in Account
    <3>1. AccountOf(n) \in Account
      BY <2>1 DEF NoteId, TxId, AccountOf
    <3> QED BY <2>3, <3>1 DEF Genuine
  <2>5. Leaves[ScanTop][Passed + 1] = Leaves[BatchEnd][Passed + 1]
    BY <1>2, <1>5, LeafKept
  <2>6. Leaves[ScanTop][scan.notes[n].nf[2] + 1] = OutOf(n)
    BY <2>3 DEF Genuine
  <2> QED BY <1>6, <2>2, <2>4, <2>5, <2>6
<1>12. Untorn => Under(scan.notes, Passed + 1)
  <2>1. ASSUME Under(scan.notes, Passed) PROVE Under(scan.notes, Passed + 1)
    BY <1>5, <1>11, <2>1 DEF Under
  <2> QED BY <1>9, <2>1
<1>13. ScanRows(R)'
  BY <1>3, <1>4, <1>7, <1>8, <1>9, <1>10, <1>12 DEF ScanRows
<1>14. ScanWitnesses(R)'
  <2>1. /\ Placed(bwits, scan.new, scan.notes)
        /\ Carries(DOMAIN bwits \cup DOMAIN scan.new, scan.notes, Passed, R)
    BY <1>2 DEF ScanWitnesses
  <2>2. Carries(DOMAIN bwits \cup DOMAIN scan.new, scan.notes, Passed + 1, R)
    <3>1. \A n \in DOMAIN scan.notes :
            scan.notes[n].nf[2] < Passed + 1 => scan.notes[n].nf[2] < Passed
      BY <1>5, <1>11
    <3> QED BY <2>1, <3>1 DEF Carries
  <2> QED BY <1>3, <1>4, <1>7, <2>1, <2>2 DEF ScanWitnesses
<1> QED BY <1>7, <1>13, <1>14 DEF Scan

(* The second pass over the spends writes the values of the transactions,  *)
(* and the end of a block goes on to the next: neither touches the notes.  *)
LEMMA ScanKeepsNotes ==
  ASSUME NEW R, NInv(R), ppc = "scan", UNCHANGED <<tip, blocks, notes, batch, bwits, ppc, nfs>>,
         scan'.new = scan.new, scan'.notes = scan.notes, KeepsTxs(scan.txs, scan'.txs),
         ScanPlace', BatchEnd' = BatchEnd, Passed' = Passed, Seen' = Seen
  PROVE  Scan(R)'
<1>1. ScanRows(R) /\ ScanWitnesses(R)
  BY ScanContext
<1>2. ScanTop' = ScanTop
  BY DEF ScanTop
<1>3. Tracks(scan.notes, scan'.txs, nfs, ScanTop, BatchEnd, Passed, Seen, R)
  BY <1>1, TxsKept DEF ScanRows
<1>4. ScanRows(R)'
  BY <1>1, <1>2, <1>3 DEF ScanRows
<1>5. ScanWitnesses(R)'
  BY <1>1 DEF ScanWitnesses
<1> QED BY <1>4, <1>5 DEF Scan

LEMMA ScanOfDebit ==
  ASSUME NEW R, NInv(R), ScanDebit \/ SkipSpend
  PROVE  Scan(R)'
<1>0. PICK b \in Block : AtDebit(b)
  BY DEF ScanDebit, SkipSpend
<1>1. ppc = "scan" /\ InBlock /\ b = At
  <2>1. \A c \in Block : AtDebit(c) => ppc = "scan" /\ InBlock /\ c = At
    BY DEF AtDebit, Scanning, InBlock, At
  <2> QED BY <1>0, <2>1
<1>2. /\ IInv /\ ScanPlace /\ IsTable(scan.txs, TxId, TxRow)
      /\ IsTable(scan.notes, NoteId, NoteRow)
      /\ scan = [blk |-> scan.blk, cur |-> scan.cur, pos |-> scan.pos, mine |-> scan.mine,
                 found |-> scan.found, new |-> scan.new, notes |-> scan.notes,
                 txs |-> scan.txs]
  BY <1>1, ScanContext
<1>3. UNCHANGED <<tip, blocks, notes, batch, bwits, ppc, nfs>>
  BY DEF ScanDebit, SkipSpend, dbVars
<1>4. KeepsTxs(scan.txs, scan'.txs)
      /\ scan'.blk = scan.blk /\ scan'.pos = scan.pos /\ scan'.cur = scan.cur + 1
      /\ scan'.new = scan.new /\ scan'.notes = scan.notes
  <2>1. CASE SkipSpend
    <3>1. scan' = [scan EXCEPT !.cur = @ + 1]
      BY <2>1 DEF SkipSpend
    <3> QED BY <1>2, <3>1 DEF KeepsTxs
  <2>2. CASE ScanDebit
    <3>1. PICK c \in Block :
            /\ AtDebit(c)
            /\ \E n \in DebitNotes(Debit(c).nf) :
                 LET table == StoreTransaction(c, Debit(c).tx, AccountOf(n)) IN
                 \E row \in TxRows(table, Debit(c).tx, AccountOf(n)) :
                   scan' = [scan EXCEPT !.cur = @ + 1, !.found = TRUE,
                              !.txs = [table EXCEPT ![row].value = @ - Value[OutOf(n)]]]
      BY <2>2 DEF ScanDebit
    <3>2. PICK n \in DebitNotes(Debit(c).nf) :
            LET table == StoreTransaction(c, Debit(c).tx, AccountOf(n)) IN
            \E row \in TxRows(table, Debit(c).tx, AccountOf(n)) :
              scan' = [scan EXCEPT !.cur = @ + 1, !.found = TRUE,
                         !.txs = [table EXCEPT ![row].value = @ - Value[OutOf(n)]]]
      BY <3>1
    <3> DEFINE table == StoreTransaction(c, Debit(c).tx, AccountOf(n))
    <3>3. PICK row \in TxRows(table, Debit(c).tx, AccountOf(n)) :
            scan' = [scan EXCEPT !.cur = @ + 1, !.found = TRUE,
                       !.txs = [table EXCEPT ![row].value = @ - Value[OutOf(n)]]]
      BY <3>2
    <3> DEFINE y == [table EXCEPT ![row].value = @ - Value[OutOf(n)]]
    <3>4. scan'.txs = y /\ scan'.blk = scan.blk /\ scan'.pos = scan.pos
          /\ scan'.cur = scan.cur + 1 /\ scan'.new = scan.new /\ scan'.notes = scan.notes
      BY <1>2, <3>3
    <3>5. Debit(c).tx \in Tx /\ AccountOf(n) \in Account
      <4>1. c \in Block /\ Spends[c] \in Seq(Spend)
        BY LedgerTypes
      <4>2. scan.cur - NSpends(c) - NOuts(c) \in 1..Len(Spends[c])
        BY <3>1 DEF AtDebit, NSpends
      <4>3. Debit(c) \in Spend
        BY <4>1, <4>2 DEF Debit
      <4>4. n \in NoteId
        BY <1>2 DEF DebitNotes, IsTable
      <4> QED BY <4>3, <4>4 DEF Spend, NoteId, TxId, AccountOf
    <3>6. TxKey(c, Debit(c).tx, AccountOf(n)) \in TxId
      BY <3>5, LedgerTypes DEF TxKey, TxId
    <3>7. KeepsTxs(scan.txs, table) /\ IsTable(table, TxId, TxRow)
      BY <1>2, <3>5, <3>6, TxStored
    <3>8. y = [table EXCEPT ![row].value = table[row].value - Value[OutOf(n)]]
      OBVIOUS
    <3>9. KeepsTxs(scan.txs, y)
      <4> HIDE DEF table
      <4> QED BY <3>7, <3>8, ValueAdded
    <3> QED BY <3>4, <3>9
  <2> QED BY <2>1, <2>2
<1>5. /\ ScanPlace' /\ BatchEnd' = BatchEnd /\ Passed' = Passed /\ Seen' = Seen
  <2>1. scan.cur - NSpends(At) - NOuts(At) \in 1..NSpends(At)
    BY <1>0, <1>1 DEF AtDebit
  <2> QED BY <1>1, <1>2, <1>3, <1>4, <2>1, ScanAdvances
<1> QED BY <1>1, <1>3, <1>4, <1>5, ScanKeepsNotes

LEMMA ScanOfBlock ==
  ASSUME NEW R, NInv(R), EndBlock
  PROVE  Scan(R)'
<1>0. PICK b \in Block :
        /\ Scanning(b) /\ scan.cur > 2 * NSpends(b) + NOuts(b)
        /\ scan' = [scan EXCEPT !.blk = @ + 1, !.cur = 1, !.mine = {}, !.pos = @ + NOuts(b)]
  BY DEF EndBlock
<1>1. ppc = "scan" /\ InBlock /\ b = At
  BY <1>0 DEF Scanning, InBlock, At
<1>2. /\ IInv /\ ScanPlace
      /\ scan = [blk |-> scan.blk, cur |-> scan.cur, pos |-> scan.pos, mine |-> scan.mine,
                 found |-> scan.found, new |-> scan.new, notes |-> scan.notes,
                 txs |-> scan.txs]
  BY <1>1, ScanContext
<1>3. UNCHANGED <<tip, blocks, notes, batch, bwits, ppc, nfs>>
  BY DEF EndBlock, dbVars
<1>4. scan'.blk = scan.blk + 1 /\ scan'.cur = 1 /\ scan'.pos = scan.pos + NOuts(b)
      /\ scan'.txs = scan.txs /\ scan'.new = scan.new /\ scan'.notes = scan.notes
  BY <1>0, <1>2
<1>5. /\ ScanPlace' /\ BatchEnd' = BatchEnd /\ Passed' = Passed /\ Seen' = Seen
  BY <1>0, <1>1, <1>2, <1>3, <1>4, ScanLeavesBlock
<1>6. KeepsTxs(scan.txs, scan'.txs)
  BY <1>4 DEF KeepsTxs
<1> QED BY <1>1, <1>3, <1>4, <1>5, <1>6, ScanKeepsNotes

-----------------------------------------------------------------------------
(* The database *)

(* The first f leaves of a chain are those of each block that has them. *)
LEMMA CompleteMoved ==
  ASSUME NEW c \in Block, NEW b \in Anc[c], NEW f \in Nat, f <= Len(Leaves[b]),
         NEW t, NEW seen, NEW R
  PROVE  Complete(t, b, f, seen, R) <=> Complete(t, c, f, seen, R)
<1>1. ASSUME NEW p \in 0..(f - 1) PROVE Leaves[c][p + 1] = Leaves[b][p + 1]
  <2>1. Len(Leaves[b]) \in Nat
    BY Ancestor, CountsTyped
  <2>2. p \in Nat /\ p < Len(Leaves[b])
    BY <2>1
  <2> QED BY <2>2, LeafKept
<1> QED BY <1>1 DEF Complete

(* A table that is complete for a block is complete for its ancestors. *)
LEMMA CompleteBefore ==
  ASSUME NEW c \in Block, NEW b \in Anc[c], NEW t, NEW R, CompleteTo(t, c, R)
  PROVE  CompleteTo(t, b, R)
<1>1. b \in Block
  BY Ancestor
<1>2. Len(Leaves[b]) \in Nat /\ Len(Leaves[c]) \in Nat /\ Len(Leaves[b]) <= Len(Leaves[c])
  BY <1>1, CountsTyped, LedgerLeaves
<1>3. Revealed(b) \subseteq Revealed(c)
  BY RevealedKept
<1>4. 0..(Len(Leaves[b]) - 1) \subseteq 0..(Len(Leaves[c]) - 1)
  BY <1>2
<1>5. Complete(t, c, Len(Leaves[b]), Revealed(b), R)
  BY <1>3, <1>4 DEF CompleteTo, Complete
<1> QED BY <1>2, <1>5, CompleteMoved DEF CompleteTo

(* The typed tables of the database, the resume point and the batch. *)
LEMMA DbContext ==
  ASSUME IInv
  PROVE  /\ IsTable(notes, NoteId, NoteRow) /\ IsTable(wits, NoteId \X Nat, Witness)
         /\ Synced \in Block /\ BatchEnd \in Block /\ tip \in Block
         /\ Running => Synced \in Anc[BatchEnd]
         /\ \A h \in DOMAIN blocks :
              /\ blocks[h].hash \in Block /\ blocks[h].hash \in Anc[Synced]
              /\ blocks[h].tree = Leaves[blocks[h].hash]
<1>1. TypeOK /\ Synced \in Block /\ BatchEnd \in Block
  BY AllEndsTyped DEF IInv, TInv
<1>2. Running => Synced \in Anc[BatchEnd]
  BY PipelineParts DEF IInv, Linkage, Follows, BatchEnd
<1>3. ASSUME NEW h \in DOMAIN blocks
      PROVE /\ blocks[h].hash \in Block /\ blocks[h].hash \in Anc[Synced]
            /\ blocks[h].tree = Leaves[blocks[h].hash]
  <2>1. blocks # EmptyTable
    BY EmptyTableTyped
  <2>2. SyncedHeight \in DOMAIN blocks /\ h <= SyncedHeight
        /\ Synced = blocks[SyncedHeight].hash
    BY <2>1, SyncedTyped DEF IInv, TInv
  <2>3. blocks[h].hash \in Anc[Synced] /\ blocks[h].tree = Leaves[blocks[h].hash]
    BY <2>2 DEF IInv, CheckpointsExact
  <2> QED BY <1>1, <2>3, Ancestor
<1> QED BY <1>1, <1>2, <1>3 DEF TypeOK, DbTypes

(* The scan of a batch starts at the synced block.                         *)
LEMMA LoadPlace ==
  ASSUME IInv, LoadTree
  PROVE  /\ batch.blocks # << >> /\ batch \in Batch
         /\ SyncedTree = Leaves[Synced] /\ Len(Leaves[Synced]) \in Nat
         /\ scan'.new = EmptyTable /\ scan'.notes = notes /\ scan'.txs = txs
         /\ Synced' = Synced /\ BatchEnd' = BatchEnd /\ ScanPlace'
         /\ Passed' = Len(Leaves[Synced]) /\ Seen' = Revealed(Synced)
<1>1. /\ ppc = "load" /\ ppc' = "scan" /\ tree' = SyncedTree /\ bwits' = StoredWitnesses
      /\ scan' = [EmptyScan EXCEPT !.pos = Len(SyncedTree), !.notes = notes, !.txs = txs]
      /\ UNCHANGED <<tip, blocks, notes, wits, nfs, batch>>
  BY DEF LoadTree, dbVars
<1>2. /\ IsTable(notes, NoteId, NoteRow) /\ IsTable(wits, NoteId \X Nat, Witness)
      /\ Synced \in Block /\ BatchEnd \in Block /\ tip \in Block
      /\ Synced \in Anc[BatchEnd]
  BY <1>1, DbContext DEF Running
<1>3. SyncedTree = Leaves[Synced] /\ batch.blocks # << >> /\ batch \in Batch
      /\ Len(Leaves[Synced]) \in Nat
  <2>1. SyncedTree = Leaves[Synced]
    BY SyncedExact DEF IInv
  <2>2. batch.blocks # << >>
    BY <1>1 DEF IInv, TInv, BatchShape, InBatch
  <2> QED BY <1>2, <2>1, <2>2, AllEndsTyped, CountsTyped
<1>4. /\ scan'.blk = 1 /\ scan'.cur = 1 /\ scan'.pos = Len(Leaves[Synced])
      /\ scan'.new = EmptyTable /\ scan'.notes = notes /\ scan'.txs = txs
  BY <1>1, <1>3 DEF EmptyScan
<1>5. Synced' = Synced /\ BatchEnd' = BatchEnd
  <2>1. Synced' = Synced
    BY <1>1, SyncedKept
  <2> QED BY <1>1, <2>1 DEF BatchEnd, EndOf, LastOf
<1>6. Len(batch.blocks) \in Nat \ {0} /\ batch.blocks[1] \in Block
  <2>1. batch.blocks \in Seq(Block)
    BY <1>3 DEF Batch
  <2>2. Len(batch.blocks) \in Nat \ {0}
    BY <1>3, <2>1
  <2>3. batch.blocks[1] \in Block
    BY <2>1, <2>2
  <2> QED BY <2>2, <2>3
<1>7. Done' = Synced /\ InBlock' /\ At' = batch.blocks[1]
  BY <1>1, <1>4, <1>5, <1>6 DEF Done, InBlock, At
<1>8. ScanPlace'
  <2>1. scan'.blk \in 1..(Len(batch'.blocks) + 1)
    BY <1>1, <1>4, <1>6
  <2> QED BY <1>4, <1>7, <2>1 DEF ScanPlace
<1>9. NSpends(At') \in Nat /\ NOuts(At') \in Nat
  BY <1>6, <1>7, CountsTyped
<1>10. Passed' = Len(Leaves[Synced])
  BY <1>3, <1>4, <1>7, <1>9 DEF Passed
<1>11. Seen' = Revealed(Synced)
  <2>1. {j \in 1..NSpends(At') : j < 1} = {}
    BY <1>9
  <2>2. Seen' = Revealed(Synced) \cup
                  {Spends[At'][i].nf : i \in {j \in 1..NSpends(At') : j < 1}}
    BY <1>4, <1>7 DEF Seen
  <2> QED BY <2>1, <2>2
<1> QED BY <1>3, <1>4, <1>5, <1>8, <1>10, <1>11

(* The scan of a batch starts at the synced block, with what the database  *)
(* holds.                                                                  *)
LEMMA ScanOfLoad ==
  ASSUME NEW R, NInv(R), LoadTree
  PROVE  Scan(R)'
<1>1. /\ ppc = "load" /\ ppc' = "scan" /\ tree' = SyncedTree /\ bwits' = StoredWitnesses
      /\ scan' = [EmptyScan EXCEPT !.pos = Len(SyncedTree), !.notes = notes, !.txs = txs]
      /\ UNCHANGED <<tip, blocks, notes, wits, nfs, batch>>
  BY DEF LoadTree, dbVars
<1>2. IInv /\ DbNotes(R) /\ Watching(R) /\ DbWitnesses(R) /\ OnTip /\ Mendable
  BY DEF NInv
<1>3. /\ IsTable(notes, NoteId, NoteRow) /\ IsTable(wits, NoteId \X Nat, Witness)
      /\ Synced \in Block /\ BatchEnd \in Block /\ tip \in Block
      /\ Synced \in Anc[BatchEnd]
  BY <1>1, <1>2, DbContext DEF Running
<1>4. /\ batch.blocks # << >> /\ batch \in Batch
      /\ SyncedTree = Leaves[Synced] /\ Len(Leaves[Synced]) \in Nat
      /\ scan'.new = EmptyTable /\ scan'.notes = notes /\ scan'.txs = txs
      /\ Synced' = Synced /\ BatchEnd' = BatchEnd /\ ScanPlace'
      /\ Passed' = Len(Leaves[Synced]) /\ Seen' = Revealed(Synced)
  BY <1>2, LoadPlace
<1>5. Sound(notes, txs, DbTop) /\ (Untorn => DbTop = Synced) /\ (~Untorn => DbTop = tip)
  BY <1>1, <1>2 DEF DbNotes, DbTop, Written
<1>6. /\ ScanTop' \in Block /\ BatchEnd \in Anc[ScanTop'] /\ Sound(notes, txs, ScanTop')
  <2>1. CASE Untorn
    <3>1. ScanTop' = BatchEnd
      BY <1>4, <2>1 DEF ScanTop
    <3>2. Sound(notes, txs, BatchEnd)
      BY <1>3, <1>5, <2>1, SoundKept
    <3> QED BY <1>3, <3>1, <3>2, LedgerAncestry
  <2>2. CASE ~Untorn
    <3>1. ScanTop' = tip
      BY <1>1, <2>2 DEF ScanTop
    <3>2. BatchEnd \in Anc[tip]
      BY <1>2, <1>4, <2>2 DEF Mendable, OnTip, BatchEnd, EndOf
    <3> QED BY <1>3, <1>5, <2>2, <3>1, <3>2
  <2> QED BY <2>1, <2>2
<1>7. Complete(notes, BatchEnd, Len(Leaves[Synced]), Revealed(Synced), R)
  <2>1. Complete(notes, Synced, Len(Leaves[Synced]), Revealed(Synced), R)
    BY <1>2 DEF DbNotes, CompleteTo
  <2>2. Len(Leaves[Synced]) <= Len(Leaves[Synced])
    BY <1>4
  <2> QED BY <1>3, <1>4, <2>1, <2>2, CompleteMoved
<1>8. Watches(nfs, notes, R) /\ (Untorn => Live(nfs, notes))
  BY <1>1, <1>2 DEF Watching
<1>9. Untorn => Under(notes, Len(Leaves[Synced]))
  BY <1>5, SoundBelow
<1>10. Extends(notes, notes)
  BY DEF Extends
<1>11. Tracks(notes, txs, nfs, ScanTop', BatchEnd, Len(Leaves[Synced]), Revealed(Synced), R)
  BY <1>6, <1>7, <1>8 DEF Tracks
<1>12. ScanRows(R)'
  BY <1>1, <1>4, <1>8, <1>9, <1>10, <1>11 DEF ScanRows
<1>13. Placed(StoredWitnesses, EmptyTable, notes)
  <2>1. DOMAIN EmptyTable = {}
    BY DEF EmptyTable
  <2>2. ASSUME NEW n \in DOMAIN StoredWitnesses
        PROVE n \in DOMAIN notes /\ StoredWitnesses[n].pos = notes[n].nf[2]
    <3>1. n \in Unspent(notes) /\ <<n, SyncedHeight>> \in DOMAIN wits
          /\ StoredWitnesses[n] = wits[<<n, SyncedHeight>>]
      BY DEF StoredWitnesses
    <3>2. \A k \in DOMAIN wits : wits[k].pos = notes[k[1]].nf[2]
      BY <1>2 DEF DbWitnesses
    <3>3. wits[<<n, SyncedHeight>>].pos = notes[<<n, SyncedHeight>>[1]].nf[2]
      BY <3>1, <3>2
    <3> QED BY <3>1, <3>3 DEF Unspent
  <2> QED BY <2>1, <2>2 DEF Placed
<1>14. Carries(DOMAIN StoredWitnesses \cup DOMAIN EmptyTable, notes, Len(Leaves[Synced]), R)
  <2> SUFFICES ASSUME NEW n \in DOMAIN notes \ R, notes[n].spent \in Unspoken,
                      notes[n].nf[2] < Len(Leaves[Synced])
               PROVE n \in DOMAIN StoredWitnesses
    BY DEF Carries
  <2>1. notes[n].nf[2] \in Nat
    BY <1>3 DEF IsTable, NoteRow, Nf
  <2>2. blocks # EmptyTable
    <3> SUFFICES ASSUME blocks = EmptyTable PROVE FALSE
      OBVIOUS
    <3>1. Synced = Genesis
      BY <1>2, SyncedTyped DEF IInv, TInv
    <3>2. Leaves[Synced] = << >>
      BY <3>1, LedgerTree
    <3>3. Len(Leaves[Synced]) = 0
      BY <3>2
    <3> QED BY <2>1, <3>3
  <2>3. SyncedHeight \in DOMAIN blocks /\ blocks[SyncedHeight].tree = Leaves[Synced]
    BY <1>2, <2>2, SyncedTyped, SyncedExact DEF IInv, TInv
  <2>4. n \in {k[1] : k \in {w \in DOMAIN wits : w[2] = SyncedHeight}}
    BY <1>2, <2>3 DEF DbWitnesses, Carries
  <2>5. PICK k \in DOMAIN wits : k[2] = SyncedHeight /\ k[1] = n
    BY <2>4
  <2>6. k \in NoteId \X Nat
    BY <1>3 DEF IsTable
  <2>7. <<n, SyncedHeight>> \in DOMAIN wits
    BY <2>5, <2>6
  <2>8. n \in Unspent(notes)
    BY DEF Unspent, Unspoken
  <2> QED BY <2>2, <2>7, <2>8 DEF StoredWitnesses
<1>15. ScanWitnesses(R)'
  BY <1>1, <1>4, <1>13, <1>14 DEF ScanWitnesses
<1> QED BY <1>4, <1>12, <1>15 DEF Scan

(* The database after a step, in the conjuncts of the invariant about it. *)
Db(R) == DbNotes(R) /\ Watching(R) /\ DbWitnesses(R)

(* The first transaction of a batch writes the rows of the scan. *)
LEMMA DbAtCommit ==
  ASSUME NEW R, NInv(R), Commit
  PROVE  Db(R)'
<1>1. /\ ppc = "scan" /\ ~InBlock /\ notes' = scan.notes /\ txs' = scan.txs
      /\ ppc' \in {"details", "store"}
      /\ UNCHANGED <<tip, blocks, wits, nfs, batch, bwits, scan>>
  <2>1. batch.blocks \in Seq(Block)
    BY AllEndsTyped DEF NInv, Batch
  <2>2. Len(batch.blocks) \in Nat /\ scan.blk \in Nat
    BY <2>1 DEF NInv, IInv, TInv, TypeOK, ScanTypes
  <2> QED BY <2>2 DEF Commit, InBlock
<1>2. /\ IInv /\ ScanPlace /\ ScanRows(R) /\ ScanWitnesses(R)
      /\ IsTable(scan.notes, NoteId, NoteRow)
      /\ ScanTop \in Block /\ BatchEnd \in Block /\ BatchEnd \in Anc[ScanTop]
  BY <1>1, ScanContext
<1>3. /\ IsTable(notes, NoteId, NoteRow)
      /\ Synced \in Block /\ Synced \in Anc[BatchEnd]
      /\ \A h \in DOMAIN blocks :
           /\ blocks[h].hash \in Block /\ blocks[h].hash \in Anc[Synced]
           /\ blocks[h].tree = Leaves[blocks[h].hash]
  BY <1>1, <1>2, DbContext DEF Running
<1>4. Passed = Len(Leaves[BatchEnd]) /\ Seen = Revealed(BatchEnd)
  BY <1>1, <1>2, ScanHasPassed
<1>5. /\ Sound(scan.notes, scan.txs, ScanTop) /\ CompleteTo(scan.notes, BatchEnd, R)
      /\ Watches(nfs, scan.notes, R) /\ Extends(notes, scan.notes)
      /\ (Untorn => Live(nfs, scan.notes))
  BY <1>2, <1>4 DEF ScanRows, Tracks, CompleteTo
<1>6. Synced' = Synced /\ BatchEnd' = BatchEnd
  <2>1. Synced' = Synced
    BY <1>1, SyncedKept
  <2> QED BY <1>1, <2>1 DEF BatchEnd, EndOf, LastOf
<1>7. DbNotes(R)'
  <2>1. Written' /\ DbTop' = ScanTop
    BY <1>1, <1>6 DEF Written, DbTop, ScanTop
  <2>2. CompleteTo(scan.notes, Synced, R)
    BY <1>2, <1>3, <1>5, CompleteBefore
  <2> QED BY <1>1, <1>5, <1>6, <2>1, <2>2 DEF DbNotes
<1>8. Watching(R)'
  BY <1>1, <1>5 DEF Watching
<1>9. DbWitnesses(R)'
  <2>1. /\ \A k \in DOMAIN wits : k[1] \in DOMAIN notes /\ wits[k].pos = notes[k[1]].nf[2]
        /\ \A h \in DOMAIN blocks :
             Carries({k[1] : k \in {w \in DOMAIN wits : w[2] = h}}, notes, Len(blocks[h].tree), R)
    BY DEF NInv, DbWitnesses
  <2>2. \A k \in DOMAIN wits :
          k[1] \in DOMAIN scan.notes /\ wits[k].pos = scan.notes[k[1]].nf[2]
    BY <1>5, <2>1 DEF Extends
  <2>3. ASSUME NEW h \in DOMAIN blocks, NEW n \in DOMAIN scan.notes \ R,
               scan.notes[n].spent \in Unspoken, scan.notes[n].nf[2] < Len(blocks[h].tree)
        PROVE n \in {k[1] : k \in {w \in DOMAIN wits : w[2] = h}}
    <3> DEFINE p == scan.notes[n].nf[2]
               c == blocks[h].hash
    <3>1. scan.notes[n] \in NoteRow /\ n \in NoteId
      BY <1>2 DEF IsTable
    <3>2. scan.notes[n].nf \in Out \X Nat /\ p \in Nat
      BY <3>1 DEF NoteRow, Nf
    <3>3. c \in Block /\ c \in Anc[Synced] /\ p < Len(Leaves[c])
      BY <1>3, <2>3
    <3>4. p < Len(Leaves[Synced]) /\ p < Len(Leaves[ScanTop])
          /\ Leaves[ScanTop][p + 1] = Leaves[Synced][p + 1]
      <4>1. p < Len(Leaves[Synced])
        BY <1>3, <3>2, <3>3, LeafKept
      <4>2. Synced \in Anc[ScanTop]
        BY <1>2, <1>3, Ancestor
      <4> QED BY <1>2, <3>2, <4>1, <4>2, LeafKept
    <3>5. Genuine(n, scan.notes[n], ScanTop)
      BY <1>5 DEF Sound
    <3>6. Owner[Leaves[Synced][p + 1]] \in Account
      <4>1. AccountOf(n) \in Account
        BY <3>1 DEF NoteId, TxId, AccountOf
      <4> QED BY <3>4, <3>5, <4>1 DEF Genuine
    <3>7. PICK m \in DOMAIN notes : notes[m].nf = <<Leaves[Synced][p + 1], p>>
      <4>1. Complete(notes, Synced, Len(Leaves[Synced]), Revealed(Synced), R)
        BY DEF NInv, DbNotes, CompleteTo
      <4>2. p \in 0..(Len(Leaves[Synced]) - 1)
        <5>1. Len(Leaves[Synced]) \in Nat
          BY <1>3, CountsTyped
        <5> QED BY <3>2, <3>4, <5>1
      <4> HIDE DEF p
      <4> QED BY <3>6, <4>1, <4>2 DEF Complete
    <3>8. scan.notes[n].nf = <<Leaves[Synced][p + 1], p>>
      <4>1. scan.notes[n].nf[1] = Leaves[Synced][p + 1]
        BY <3>4, <3>5 DEF Genuine
      <4> QED BY <3>2, <4>1
    <3>9. m = n
      <4>1. m \in DOMAIN scan.notes /\ scan.notes[m].nf = notes[m].nf
        BY <1>5 DEF Extends
      <4>2. scan.notes[m].nf = scan.notes[n].nf
        BY <3>7, <3>8, <4>1
      <4> QED BY <1>5, <2>3, <4>1, <4>2 DEF Sound, OnePerNf
    <3>10. n \in DOMAIN notes /\ notes[n].nf = scan.notes[n].nf /\ notes[n].spent \in Unspoken
      BY <1>5, <2>3, <3>9 DEF Extends
    <3> QED BY <2>1, <2>3, <3>10 DEF Carries
  <2>4. Placed(bwits, scan.new, scan.notes)
        /\ Carries(DOMAIN bwits \cup DOMAIN scan.new, scan.notes, Len(Leaves[BatchEnd]), R)
    BY <1>2, <1>4 DEF ScanWitnesses
  <2>5. \A h \in DOMAIN blocks :
          Carries({k[1] : k \in {w \in DOMAIN wits : w[2] = h}}, scan.notes,
                  Len(blocks[h].tree), R)
    BY <2>3 DEF Carries
  <2> QED BY <1>1, <1>6, <2>2, <2>4, <2>5 DEF DbWitnesses
<1> QED BY <1>7, <1>8, <1>9 DEF Db

(* The second transaction moves the resume point to the end of the batch,  *)
(* and stores the witnesses of its notes.                                  *)
LEMMA DbAtStore ==
  ASSUME NEW R, NInv(R), Store
  PROVE  Db(R)'
<1> DEFINE h == Height[LastOf(batch)]
           rows == [k \in {<<n, h>> : n \in DOMAIN NewWitnesses} |-> NewWitnesses[k[1]]]
<1>1. /\ ppc = "store" /\ ppc' = "recv" /\ wits' = InsertAll(wits, rows)
      /\ UNCHANGED <<tip, notes, txs, nfs>>
  BY DEF Store
<1>2. IInv /\ DbNotes(R) /\ Watching(R) /\ DbWitnesses(R)
  BY DEF NInv
<1>3. /\ Synced' = BatchEnd /\ BatchEnd \in Block
      /\ h \in Nat /\ \A g \in DOMAIN blocks : g < h
      /\ DOMAIN blocks' = DOMAIN blocks \cup {h}
      /\ \A g \in DOMAIN blocks : blocks'[g] = blocks[g]
      /\ blocks'[h].tree = Leaves[BatchEnd]
      /\ NewTree = Leaves[BatchEnd]
  <2>1. LastOf(batch) \in Block /\ LastOf(batch) = BatchEnd /\ Synced' = LastOf(batch)
        /\ h \in Nat /\ (\A g \in DOMAIN blocks : g < h)
        /\ DOMAIN blocks' = DOMAIN blocks \cup {h}
        /\ (\A g \in DOMAIN blocks : blocks'[g] = blocks[g])
        /\ blocks'[h] = [hash |-> LastOf(batch), tree |-> Leaves[LastOf(batch)]]
        /\ NewTree = Leaves[LastOf(batch)]
    BY <1>2, StoreEffect
  <2> QED BY <2>1
<1>4. /\ Sound(notes, txs, DbTop) /\ CompleteTo(notes, BatchEnd, R)
  BY <1>1, <1>2 DEF DbNotes, Written
<1>5. DbNotes(R)'
  <2>1. ~Written' /\ DbTop' = DbTop
    BY <1>1, <1>3 DEF Written, DbTop
  <2> QED BY <1>1, <1>3, <1>4, <2>1 DEF DbNotes
<1>6. Watching(R)'
  BY <1>1, <1>2 DEF Watching
<1>7. /\ DOMAIN NewWitnesses = DOMAIN bwits \cup DOMAIN scan.new
      /\ \A n \in DOMAIN NewWitnesses : n \in DOMAIN notes /\ NewWitnesses[n].pos = notes[n].nf[2]
  <2> DEFINE old == [n \in DOMAIN bwits |-> [bwits[n] EXCEPT !.leaves = @ \o batch.outs]]
             new == [n \in DOMAIN scan.new |-> [pos |-> scan.new[n], leaves |-> NewTree]]
  <2>1. NewWitnesses = InsertAll(old, new)
    BY DEF NewWitnesses
  <2>2. Placed(bwits, scan.new, notes)
    BY <1>1, <1>2 DEF DbWitnesses, Written
  <2>3. \A n \in DOMAIN bwits : bwits[n] \in Witness
    BY <1>2 DEF IInv, TInv, TypeOK, PrTypes, IsTable
  <2>4. DOMAIN old = DOMAIN bwits /\ \A n \in DOMAIN bwits : old[n].pos = bwits[n].pos
    BY <2>3 DEF Witness
  <2>5. DOMAIN new = DOMAIN scan.new /\ \A n \in DOMAIN scan.new : new[n].pos = scan.new[n]
    OBVIOUS
  <2> HIDE DEF old, new
  <2> QED BY <2>1, <2>2, <2>4, <2>5 DEF InsertAll, Placed
<1> HIDE DEF h
<1>8. /\ DOMAIN wits' = DOMAIN wits \cup {<<n, h>> : n \in DOMAIN NewWitnesses}
      /\ \A k \in DOMAIN wits : wits'[k] = wits[k]
      /\ \A k \in DOMAIN wits' \ DOMAIN wits :
           k[1] \in DOMAIN NewWitnesses /\ wits'[k] = NewWitnesses[k[1]]
  BY <1>1 DEF InsertAll
<1>9. \A k \in DOMAIN wits' : k[1] \in DOMAIN notes /\ wits'[k].pos = notes[k[1]].nf[2]
  <2> TAKE k \in DOMAIN wits'
  <2>1. CASE k \in DOMAIN wits
    BY <1>2, <1>8, <2>1 DEF DbWitnesses
  <2>2. CASE k \notin DOMAIN wits
    BY <1>7, <1>8, <2>2
  <2> QED BY <2>1, <2>2
<1>10. ASSUME NEW g \in DOMAIN blocks'
       PROVE Carries({k[1] : k \in {w \in DOMAIN wits' : w[2] = g}}, notes,
                     Len(blocks'[g].tree), R)
  <2>1. CASE g = h
    <3>1. Carries(DOMAIN bwits \cup DOMAIN scan.new, notes, Len(Leaves[BatchEnd]), R)
      BY <1>1, <1>2 DEF DbWitnesses, Written
    <3>2. ASSUME NEW n \in DOMAIN bwits \cup DOMAIN scan.new
          PROVE n \in {k[1] : k \in {w \in DOMAIN wits' : w[2] = h}}
      <4>1. <<n, h>> \in DOMAIN wits' /\ <<n, h>>[2] = h /\ <<n, h>>[1] = n
        BY <1>7, <1>8
      <4> QED BY <4>1
    <3> QED BY <1>3, <2>1, <3>1, <3>2 DEF Carries
  <2>2. CASE g \in DOMAIN blocks
    <3>1. Carries({k[1] : k \in {w \in DOMAIN wits : w[2] = g}}, notes, Len(blocks[g].tree), R)
      BY <1>2, <2>2 DEF DbWitnesses
    <3>2. {k[1] : k \in {w \in DOMAIN wits : w[2] = g}}
            \subseteq {k[1] : k \in {w \in DOMAIN wits' : w[2] = g}}
      BY <1>8
    <3> QED BY <1>3, <2>2, <3>1, <3>2 DEF Carries
  <2> QED BY <1>3, <2>1, <2>2
<1>11. DbWitnesses(R)'
  BY <1>1, <1>9, <1>10 DEF DbWitnesses, Written
<1> QED BY <1>5, <1>6, <1>11 DEF Db

(* The purge keeps all witnesses of the checkpoints that it keeps. *)
LEMMA DbAtFinish ==
  ASSUME NEW R, NInv(R), Finish
  PROVE  Db(R)'
<1>1. /\ ppc = "finish" /\ ppc' = "done" /\ UNCHANGED <<tip, notes, txs>>
  BY DEF Finish, ProcessorEnds
<1>2. IInv /\ DbNotes(R) /\ DbWitnesses(R)
  BY DEF NInv
<1>3. /\ DOMAIN blocks' \subseteq DOMAIN blocks /\ DOMAIN wits' \subseteq DOMAIN wits
      /\ \A g \in DOMAIN blocks' : blocks'[g] = blocks[g]
      /\ \A k \in DOMAIN wits' : wits'[k] = wits[k]
      /\ \A k \in DOMAIN wits : k[2] \in DOMAIN blocks' => k \in DOMAIN wits'
      /\ Synced' = Synced
  BY <1>2, FinishEffect
<1>4. DbNotes(R)'
  <2>1. ~Written /\ ~Written' /\ DbTop' = DbTop
    BY <1>1, <1>3 DEF Written, DbTop
  <2> QED BY <1>1, <1>2, <1>3, <2>1 DEF DbNotes
<1>5. Watching(R)'
  BY <1>1 DEF Watching
<1>6. DbWitnesses(R)'
  <2>1. \A k \in DOMAIN wits' : k[1] \in DOMAIN notes /\ wits'[k].pos = notes[k[1]].nf[2]
    BY <1>2, <1>3 DEF DbWitnesses
  <2>2. ASSUME NEW g \in DOMAIN blocks'
        PROVE Carries({k[1] : k \in {w \in DOMAIN wits' : w[2] = g}}, notes,
                      Len(blocks'[g].tree), R)
    <3>1. Carries({k[1] : k \in {w \in DOMAIN wits : w[2] = g}}, notes, Len(blocks[g].tree), R)
      BY <1>2, <1>3 DEF DbWitnesses
    <3>2. {k[1] : k \in {w \in DOMAIN wits : w[2] = g}}
            \subseteq {k[1] : k \in {w \in DOMAIN wits' : w[2] = g}}
      BY <1>3
    <3> QED BY <1>3, <3>1, <3>2 DEF Carries
  <2> QED BY <1>1, <2>1, <2>2 DEF DbWitnesses, Written
<1> QED BY <1>4, <1>5, <1>6 DEF Db

-----------------------------------------------------------------------------
(* The other steps *)

(* A step that writes no table, when the batch stays or none is torn by    *)
(* its going.                                                              *)
LEMMA DbKept ==
  ASSUME NEW R, NInv(R), UNCHANGED <<tip, blocks, notes, txs, wits>>,
         Written' => Written /\ UNCHANGED <<batch, bwits, scan>>,
         Untorn /\ Written => Written'
  PROVE  DbNotes(R)' /\ DbWitnesses(R)'
<1>1. DbNotes(R) /\ DbWitnesses(R)
  BY DEF NInv
<1>2. Synced' = Synced
  BY SyncedKept
<1>3. Written' => BatchEnd' = BatchEnd
  BY <1>2 DEF BatchEnd, EndOf, LastOf
<1>4. DbTop' = DbTop
  BY <1>2, <1>3 DEF DbTop
<1>5. DbNotes(R)'
  BY <1>1, <1>2, <1>3, <1>4 DEF DbNotes
<1>6. DbWitnesses(R)'
  BY <1>1, <1>3 DEF DbWitnesses
<1> QED BY <1>5, <1>6

Looking == ppc \in {"recv", "load", "details", "store"}

LEMMA WatchingKept ==
  ASSUME NEW R, NInv(R), UNCHANGED notes, Looking' => Looking /\ UNCHANGED nfs
  PROVE  Watching(R)'
  BY DEF NInv, Watching, Looking

(* A step that leaves the processor alone, while the chain of the tip      *)
(* grows if at all.                                                        *)
LEMMA ScanStays ==
  ASSUME NEW R, NInv(R), UNCHANGED <<blocks, notes, batch, nfs, bwits, scan, ppc>>,
         tip' \in Block, ~Untorn => tip \in Anc[tip']
  PROVE  Scan(R)'
<1> SUFFICES ASSUME ppc = "scan" PROVE Scan(R)'
  BY DEF Scan
<1>1. /\ ScanPlace /\ ScanRows(R) /\ ScanWitnesses(R)
      /\ IsTable(scan.notes, NoteId, NoteRow)
      /\ ScanTop \in Block /\ BatchEnd \in Anc[ScanTop] /\ BatchEnd \in Block
  BY ScanContext
<1>2. Synced' = Synced /\ BatchEnd' = BatchEnd
  <2>1. Synced' = Synced
    BY SyncedKept
  <2> QED BY <2>1 DEF BatchEnd, EndOf, LastOf
<1>3. Done' = Done /\ At' = At /\ InBlock' = InBlock
  BY <1>2 DEF Done, At, InBlock
<1>4. Passed' = Passed /\ Seen' = Seen /\ ScanPlace'
  BY <1>1, <1>3 DEF Passed, Seen, ScanPlace
<1>5. ScanTop' \in Block /\ ScanTop \in Anc[ScanTop']
  BY <1>1, <1>2, LedgerAncestry DEF ScanTop
<1>6. Tracks(scan.notes, scan.txs, nfs, ScanTop', BatchEnd, Passed, Seen, R)
  <2>1. Tracks(scan.notes, scan.txs, nfs, ScanTop, BatchEnd, Passed, Seen, R)
    BY <1>1 DEF ScanRows
  <2>2. Sound(scan.notes, scan.txs, ScanTop)
    BY <2>1 DEF Tracks
  <2>3. Sound(scan.notes, scan.txs, ScanTop')
    BY <1>1, <1>5, <2>2, SoundKept
  <2>4. BatchEnd \in Anc[ScanTop']
    BY <1>1, <1>5, Ancestor
  <2> QED BY <1>5, <2>1, <2>3, <2>4 DEF Tracks
<1>7. ScanRows(R)'
  BY <1>1, <1>2, <1>4, <1>6 DEF ScanRows
<1>8. ScanWitnesses(R)'
  BY <1>1, <1>4 DEF ScanWitnesses
<1> QED BY <1>4, <1>7, <1>8 DEF Scan


(* The chunks in flight are on the chain of the tip. *)
LEMMA OnTipKept ==
  ASSUME OnTip, "reorg" \notin Faults => tip' \in Block /\ tip \in Anc[tip'], Synced' = Synced,
         \A c \in {batch', Queued', outbox', cbs'} :
           c \in {batch, Queued, outbox, cbs} \/ c.blocks = << >>
  PROVE  OnTip'
<1> SUFFICES ASSUME "reorg" \notin Faults PROVE OnTip'
  BY DEF OnTip
<1>1. Anc[tip] \subseteq Anc[tip']
  BY Ancestor
<1> QED BY <1>1 DEF OnTip

(* The steps of the server: the chain of the tip grows, unless it is       *)
(* reorganized.                                                            *)
LEMMA NotesServer ==
  ASSUME NEW R, NInv(R), Server
  PROVE  OnTip' /\ Panicked' /\ Db(R)' /\ Scan(R)'
<1>1. UNCHANGED <<blocks, notes, txs, wits, dpc, cbs, outbox, dres, chan, ppc, nfs, batch, bwits,
                  scan>>
  BY DEF Server, MineBlock, Reorg, dbVars, dlVars, prVars
<1>2. IInv /\ Mendable
  BY DEF NInv
<1>3. tip \in Block /\ tip' \in Block
  BY <1>2 DEF IInv, TInv, TypeOK, Server, MineBlock, Reorg
<1>4. "reorg" \notin Faults => tip \in Anc[tip']
  <2> SUFFICES ASSUME "reorg" \notin Faults PROVE tip \in Anc[tip']
    OBVIOUS
  <2>1. tip' # Genesis /\ Parent[tip'] = tip
    BY DEF Server, MineBlock, Reorg
  <2> QED BY <1>3, <2>1, ParentIsAncestor
<1>5. Synced' = Synced /\ Queued' = Queued /\ BatchEnd' = BatchEnd
  BY <1>1, ChunksKept
<1>6. OnTip'
  BY <1>1, <1>3, <1>4, <1>5, OnTipKept DEF NInv
<1>7. Panicked'
  BY <1>1 DEF NInv, Panicked
<1>8. Scan(R)'
  BY <1>1, <1>2, <1>3, <1>4, ScanStays DEF Mendable
<1>9. DbNotes(R)'
  <2>1. DbTop \in Block /\ DbTop' \in Block /\ DbTop \in Anc[DbTop']
    <3>1. Synced \in Block /\ BatchEnd \in Block
      BY <1>2, DbContext
    <3>2. DbTop' = IF Untorn THEN DbTop ELSE tip'
      BY <1>1, <1>5 DEF DbTop, Written
    <3>3. DbTop \in Block /\ (~Untorn => DbTop = tip)
      BY <1>3, <3>1 DEF DbTop
    <3> QED BY <1>2, <1>3, <1>4, <3>2, <3>3, LedgerAncestry DEF Mendable
  <2>2. IsTable(notes, NoteId, NoteRow)
    BY <1>2, DbContext
  <2>3. Sound(notes, txs, DbTop')
    BY <2>1, <2>2, SoundKept DEF NInv, DbNotes
  <2> QED BY <1>1, <1>5, <2>3 DEF NInv, DbNotes, Written
<1>10. Watching(R)'
  BY <1>1, WatchingKept DEF Looking
<1>11. DbWitnesses(R)'
  BY <1>1, <1>5 DEF NInv, DbWitnesses, Written
<1> QED BY <1>6, <1>7, <1>8, <1>9, <1>10, <1>11 DEF Db

(* The steps of the call: a pass starts with nothing in flight, and only a *)
(* crash ends one between the two transactions of a batch.                 *)
LEMMA NotesCall ==
  ASSUME NEW R, NInv(R), Call
  PROVE  OnTip' /\ Panicked' /\ Db(R)' /\ Scan(R)'
<1>1. UNCHANGED <<tip, blocks, notes, txs, wits>>
  BY DEF Call, WarpStart, BeginPass, ConnectFail, Join, JoinPanic, Crash, CancelWarp, Die, dbVars
<1>2. IInv /\ Mendable /\ tip \in Block /\ tip \in Anc[tip]
  <2>1. IInv /\ Mendable /\ tip \in Block
    BY DEF NInv, IInv, TInv, TypeOK
  <2> QED BY <2>1, LedgerAncestry
<1>3. Synced' = Synced
  BY <1>1, SyncedKept
<1>4. CASE Join \/ JoinPanic \/ Crash
  <2>1. ppc' = "none" /\ dres' = "none" /\ cbs' = EmptyBatch /\ outbox' = EmptyBatch
        /\ chan' = << >> /\ batch' = EmptyBatch
    BY <1>4 DEF Join, JoinPanic, Crash, Die, ResetTasks
  <2>2. Queued' = EmptyBatch
    BY <2>1 DEF Queued
  <2>3. OnTip'
    <3>1. EmptyBatch.blocks = << >>
      BY EmptyBatchTyped
    <3> QED BY <1>1, <1>2, <1>3, <2>1, <2>2, <3>1, OnTipKept DEF NInv
  <2>4. Untorn => ~Written
    <3>1. CASE Join \/ JoinPanic
      BY <3>1 DEF Join, JoinPanic, NInv, Panicked, Written
    <3>2. CASE Crash
      BY <3>2 DEF Crash, Fault, Untorn
    <3> QED BY <1>4, <3>1, <3>2
  <2>5. ~Written' /\ ~Looking' /\ Scan(R)' /\ Panicked'
    BY <2>1 DEF Written, Looking, Scan, Panicked
  <2>6. DbNotes(R)' /\ DbWitnesses(R)'
    BY <1>1, <2>4, <2>5, DbKept
  <2>7. Watching(R)'
    BY <1>1, <2>5, WatchingKept
  <2> QED BY <2>3, <2>5, <2>6, <2>7 DEF Db
<1>5. CASE WarpStart \/ ConnectFail \/ CancelWarp
  <2>1. UNCHANGED <<dpc, cbs, outbox, dres, chan, ppc, nfs, batch, bwits, scan>>
    BY <1>5 DEF WarpStart, ConnectFail, CancelWarp, dlVars, prVars
  <2>2. OnTip'
    <3>1. Queued' = Queued
      BY <2>1 DEF Queued
    <3> QED BY <1>1, <1>2, <1>3, <2>1, <3>1, OnTipKept DEF NInv
  <2>3. Panicked' /\ Scan(R)'
    <3>1. Panicked'
      BY <2>1 DEF NInv, Panicked
    <3> QED BY <1>1, <1>2, <2>1, <3>1, ScanStays
  <2>4. Written' = Written /\ Looking' = Looking
    BY <2>1 DEF Written, Looking
  <2>5. DbNotes(R)' /\ DbWitnesses(R)'
    BY <1>1, <2>1, <2>4, DbKept
  <2>6. Watching(R)'
    BY <1>1, <2>1, <2>4, WatchingKept
  <2> QED BY <2>2, <2>3, <2>5, <2>6 DEF Db
<1>6. CASE BeginPass
  <2>1. dpc = "none" /\ ppc = "none" /\ ppc' \in {"none", "open"}
        /\ UNCHANGED <<cbs, outbox, dres, chan, nfs, batch, bwits, scan>>
    BY <1>2, <1>6 DEF BeginPass, IInv, TInv, BatchShape
  <2>2. OnTip'
    <3>1. Queued' = Queued
      BY <2>1 DEF Queued
    <3> QED BY <1>1, <1>2, <1>3, <2>1, <3>1, OnTipKept DEF NInv
  <2>3. Panicked' /\ Scan(R)'
    BY <2>1 DEF NInv, Panicked, Scan
  <2>4. ~Written /\ ~Written' /\ ~Looking'
    BY <2>1 DEF Written, Looking
  <2>5. DbNotes(R)' /\ DbWitnesses(R)'
    BY <1>1, <2>4, DbKept
  <2>6. Watching(R)'
    BY <1>1, <2>4, WatchingKept
  <2> QED BY <2>2, <2>3, <2>5, <2>6 DEF Db
<1> QED BY <1>4, <1>5, <1>6 DEF Call

(* The steps of the downloader: the blocks that it takes are on the chain  *)
(* that the tip has then.                                                  *)
LEMMA NotesDownloader ==
  ASSUME NEW R, NInv(R), Downloader
  PROVE  OnTip' /\ Panicked' /\ Db(R)' /\ Scan(R)'
<1>1. UNCHANGED <<tip, blocks, notes, txs, wits, ppc, nfs, batch, bwits, scan>>
  BY DEF Downloader, TakeBlock, DetectReorg, StreamEnd, StreamShort, StreamError, Send,
    SendPanic, SendLast, dbVars, prVars
<1>2. IInv /\ Mendable /\ tip \in Block /\ tip \in Anc[tip]
  <2>1. IInv /\ Mendable /\ tip \in Block
    BY DEF NInv, IInv, TInv, TypeOK
  <2> QED BY <2>1, LedgerAncestry
<1>3. Synced' = Synced
  BY <1>1, SyncedKept
<1>4. cbs \in Batch /\ EmptyBatch.blocks = << >> /\ EmptyBatch \in Batch
  BY <1>2, AllEndsTyped, EmptyBatchTyped
<1>5. OnTip'
  <2>1. CASE TakeBlock
    <3>1. PICK b \in Block :
            /\ b \in Anc[tip]
            /\ cbs' \in {Push(EmptyBatch, b), Push(cbs, b)} /\ outbox' \in {outbox, cbs}
      BY <2>1 DEF TakeBlock, Streamed
    <3>2. LastOf(cbs') = b
      BY <1>4, <3>1, PushTyped
    <3>3. Queued' = Queued
      BY <2>1 DEF TakeBlock, Queued
    <3> QED BY <1>1, <1>3, <3>1, <3>2, <3>3 DEF NInv, OnTip
  <2>2. CASE ~TakeBlock
    <3>1. cbs' \in {cbs, EmptyBatch} /\ outbox' \in {outbox, cbs, EmptyBatch}
          /\ (chan' = chan \/ (chan = << >> /\ chan' = Append(chan, outbox)))
      BY <2>2 DEF Downloader, DetectReorg, StreamEnd, StreamShort, StreamError, Send, SendPanic,
        SendLast, DownloaderEnds, Slot
    <3>2. Queued' \in {Queued, outbox}
      <4>1. CASE chan' = chan
        BY <4>1 DEF Queued
      <4>2. CASE chan = << >> /\ chan' = Append(chan, outbox)
        <5>1. chan' # << >> /\ Head(chan') = outbox
          BY <4>2
        <5> QED BY <5>1 DEF Queued
      <4> QED BY <3>1, <4>1, <4>2
    <3> QED BY <1>1, <1>2, <1>3, <1>4, <3>1, <3>2, OnTipKept DEF NInv
  <2> QED BY <2>1, <2>2
<1>6. Panicked'
  <2>1. CASE SendPanic
    BY <1>1, <2>1 DEF SendPanic, DownloaderEnds, ReceiverDropped, Panicked
  <2>2. CASE ~SendPanic
    <3>1. dres' = "panic" => dres = "panic" /\ (dpc' = dpc \/ dpc' = "done")
      <4>1. dpc # "done"
        BY <2>2 DEF Downloader, TakeBlock, Streamed, DetectReorg, StreamEnd, StreamShort,
          StreamError, Send, SendLast
      <4>2. dres # "panic"
        BY <4>1 DEF NInv, Panicked
      <4>3. dres' \in {dres, "ok", "reorg", "err"}
        BY <2>2 DEF Downloader, TakeBlock, DetectReorg, StreamEnd, StreamShort, StreamError, Send,
          SendLast, DownloaderEnds
      <4> QED BY <4>2, <4>3
    <3> QED BY <1>1, <3>1 DEF NInv, Panicked
  <2> QED BY <2>1, <2>2
<1>7. Scan(R)'
  BY <1>1, <1>2, ScanStays
<1>8. Written' = Written /\ Looking' = Looking
  BY <1>1 DEF Written, Looking
<1>9. DbNotes(R)' /\ DbWitnesses(R)'
  BY <1>1, <1>8, DbKept
<1>10. Watching(R)'
  BY <1>1, <1>8, WatchingKept
<1> QED BY <1>5, <1>6, <1>7, <1>9, <1>10 DEF Db

(* The processor reads the nullifiers of the unspent notes. *)
LEMMA WatchingOpened ==
  ASSUME NEW R, NInv(R), OpenDb
  PROVE  Watching(R)'
<1>1. nfs' = Nullifiers /\ notes' = notes
  BY DEF OpenDb, dbVars
<1>2. \A nf \in DOMAIN Nullifiers : Nullifiers[nf] \in Unspent(notes) /\ notes[Nullifiers[nf]].nf = nf
  <2> SUFFICES ASSUME NEW nf \in DOMAIN Nullifiers
               PROVE Nullifiers[nf] \in Unspent(notes) /\ notes[Nullifiers[nf]].nf = nf
    OBVIOUS
  <2>1. \E n \in Unspent(notes) : notes[n].nf = nf
    BY DEF Nullifiers
  <2>2. Nullifiers[nf] = CHOOSE n \in Unspent(notes) : notes[n].nf = nf
    BY DEF Nullifiers
  <2> QED BY <2>1, <2>2
<1>3. \A n \in Unspent(notes) : notes[n].nf \in DOMAIN Nullifiers
  BY DEF Nullifiers
<1>4. \A n \in DOMAIN notes : n \in Unspent(notes) <=> notes[n].spent \in Unspoken
  BY DEF Unspent, Unspoken
<1>5. Watches(Nullifiers, notes, R)
  BY <1>2, <1>3, <1>4 DEF Watches, Unspent
<1>6. Live(Nullifiers, notes)
  BY <1>2, <1>4 DEF Live, Unspent
<1> QED BY <1>1, <1>5, <1>6 DEF Watching

(* The chunks in flight after a step of the processor. *)
LEMMA OnTipProcessor ==
  ASSUME NEW R, NInv(R), Processor
  PROVE  OnTip'
<1>1. UNCHANGED <<tip, cbs, outbox>>
  BY DEF Processor, OpenDb, Recv, RecvClosed, LoadTree, ScanSpend, ScanNote, SkipOutput, ScanDebit,
    SkipSpend, ScanFail, EndBlock, Commit, DetailsOk, DetailsFail, Store, Finish, dlVars
<1>2. IInv /\ OnTip /\ tip \in Block /\ tip \in Anc[tip]
  <2>1. IInv /\ OnTip /\ tip \in Block
    BY DEF NInv, IInv, TInv, TypeOK
  <2> QED BY <2>1, LedgerAncestry
<1>3. EmptyBatch.blocks = << >>
  BY EmptyBatchTyped
<1>4. CASE Store
  <2>1. Synced' = LastOf(batch) /\ batch' = EmptyBatch /\ Queued' = Queued
    <3>1. Synced' = LastOf(batch)
      BY <1>2, <1>4, StoreEffect
    <3> QED BY <1>4, <3>1 DEF Store, Queued
  <2>2. batch.blocks # << >>
    BY <1>2, <1>4 DEF Store, IInv, TInv, BatchShape, InBatch
  <2> QED BY <1>1, <1>2, <1>3, <2>1, <2>2 DEF OnTip
<1>5. CASE ~Store
  <2>1. Synced' = Synced
    <3>1. CASE Finish
      BY <1>2, <3>1, FinishEffect
    <3>2. CASE ~Finish
      BY <1>5, <3>2, OthersKeepBlocks, SyncedKept DEF Next
    <3> QED BY <3>1, <3>2
  <2>2. CASE Recv
    <3>1. batch' \in {batch, Queued}
      BY <2>2 DEF Recv, Queued
    <3>2. Queued' = EmptyBatch
      <4>1. chan \in Seq(Batch) /\ Len(chan) <= 1 /\ chan # << >> /\ chan' = Tail(chan)
        BY <1>2, <2>2 DEF Recv, IInv, TInv, TypeOK, ChanTypes
      <4>2. chan' = << >>
        BY <4>1
      <4> QED BY <4>2 DEF Queued
    <3> QED BY <1>1, <1>2, <1>3, <2>1, <3>1, <3>2, OnTipKept
  <2>3. CASE ~Recv
    <3>1. chan' = chan /\ batch' \in {batch, EmptyBatch}
      BY <1>5, <2>3 DEF Processor, OpenDb, RecvClosed, LoadTree, ScanSpend, ScanNote, SkipOutput,
        ScanDebit, SkipSpend, ScanFail, EndBlock, Commit, DetailsOk, DetailsFail, Finish,
        ProcessorEnds
    <3>2. Queued' = Queued
      BY <3>1 DEF Queued
    <3> QED BY <1>1, <1>2, <1>3, <2>1, <3>1, <3>2, OnTipKept
  <2> QED BY <2>2, <2>3
<1> QED BY <1>4, <1>5

(* The steps of the processor. *)
LEMMA NotesProcessor ==
  ASSUME NEW R, NInv(R), Processor
  PROVE  OnTip' /\ Panicked' /\ Db(R)' /\ Scan(R)'
<1>1. OnTip'
  BY OnTipProcessor
<1>2. Panicked'
  <2>1. UNCHANGED <<dpc, dres>>
    BY DEF Processor, OpenDb, Recv, RecvClosed, LoadTree, ScanSpend, ScanNote, SkipOutput, ScanDebit,
      SkipSpend, ScanFail, EndBlock, Commit, DetailsOk, DetailsFail, Store, Finish, dlVars
  <2>2. ppc # "done"
    BY DEF Processor, OpenDb, Recv, RecvClosed, LoadTree, ScanSpend, ScanNote, SkipOutput, ScanDebit,
      SkipSpend, ScanFail, EndBlock, Commit, DetailsOk, DetailsFail, Store, Finish,
      Scanning, AtOutput, AtDebit
  <2> QED BY <2>1, <2>2 DEF NInv, Panicked
<1>3. CASE OpenDb
  <2>1. ppc = "open" /\ ppc' = "recv" /\ UNCHANGED <<tip, blocks, notes, txs, wits>>
    BY <1>3 DEF OpenDb, dbVars
  <2>2. DbNotes(R)' /\ DbWitnesses(R)'
    BY <2>1, DbKept DEF Written
  <2>3. Watching(R)' /\ Scan(R)'
    BY <1>3, <2>1, WatchingOpened DEF Scan
  <2> QED BY <1>1, <1>2, <2>2, <2>3 DEF Db
<1>4. CASE Recv \/ RecvClosed
  <2>1. /\ ppc = "recv" /\ ppc' \in {"recv", "load", "finish"}
        /\ UNCHANGED <<tip, blocks, notes, txs, wits, nfs>>
    BY <1>4 DEF Recv, RecvClosed, dbVars
  <2>2. DbNotes(R)' /\ DbWitnesses(R)'
    BY <2>1, DbKept DEF Written
  <2>3. Watching(R)' /\ Scan(R)'
    BY <2>1, WatchingKept DEF Looking, Scan
  <2> QED BY <1>1, <1>2, <2>2, <2>3 DEF Db
<1>5. CASE LoadTree
  <2>1. ppc = "load" /\ ppc' = "scan" /\ UNCHANGED <<tip, blocks, notes, txs, wits>>
    BY <1>5 DEF LoadTree, dbVars
  <2>2. DbNotes(R)' /\ DbWitnesses(R)'
    BY <2>1, DbKept DEF Written
  <2>3. Watching(R)' /\ Scan(R)'
    BY <1>5, <2>1, ScanOfLoad, WatchingKept DEF Looking
  <2> QED BY <1>1, <1>2, <2>2, <2>3 DEF Db
<1>6. CASE ScanSpend \/ ScanNote \/ SkipOutput \/ ScanDebit \/ SkipSpend \/ EndBlock
  <2>1. ppc = "scan" /\ ppc' = "scan" /\ UNCHANGED <<tip, blocks, notes, txs, wits>>
    BY <1>6 DEF ScanSpend, ScanNote, SkipOutput, ScanDebit, SkipSpend, EndBlock, Scanning,
      AtOutput, AtDebit, dbVars
  <2>2. DbNotes(R)' /\ DbWitnesses(R)'
    BY <2>1, DbKept DEF Written
  <2>3. Watching(R)' /\ Scan(R)'
    <3>1. Scan(R)'
      BY <1>6, ScanOfSpend, ScanOfNote, ScanOfOthers, ScanOfDebit, ScanOfBlock
    <3> QED BY <2>1, <3>1, WatchingKept DEF Looking
  <2> QED BY <1>1, <1>2, <2>2, <2>3 DEF Db
<1>7. CASE ScanFail \/ DetailsFail
  <2>1. ppc \in {"scan", "details"} /\ ppc' = "done" /\ UNCHANGED <<tip, blocks, notes, txs, wits>>
    BY <1>7 DEF ScanFail, DetailsFail, Scanning, AtOutput, AtDebit, ProcessorEnds, dbVars
  <2>2. Untorn => ~Written
    BY <1>7 DEF ScanFail, DetailsFail, Fault, Scanning, AtOutput, AtDebit, Untorn, Written
  <2>3. DbNotes(R)' /\ DbWitnesses(R)'
    BY <2>1, <2>2, DbKept DEF Written
  <2>4. Watching(R)' /\ Scan(R)'
    BY <2>1, WatchingKept DEF Looking, Scan
  <2> QED BY <1>1, <1>2, <2>3, <2>4 DEF Db
<1>8. CASE DetailsOk
  <2>1. /\ ppc = "details" /\ ppc' = "store"
        /\ UNCHANGED <<tip, blocks, notes, txs, wits, nfs, batch, bwits, scan>>
    BY <1>8 DEF DetailsOk, dbVars
  <2>2. DbNotes(R)' /\ DbWitnesses(R)'
    BY <2>1, DbKept DEF Written
  <2>3. Watching(R)' /\ Scan(R)'
    BY <2>1, WatchingKept DEF Looking, Scan
  <2> QED BY <1>1, <1>2, <2>2, <2>3 DEF Db
<1>9. CASE Commit \/ Store \/ Finish
  <2>1. Db(R)'
    BY <1>9, DbAtCommit, DbAtStore, DbAtFinish
  <2>2. ppc' # "scan"
    BY <1>9 DEF Commit, Store, Finish, ProcessorEnds
  <2> QED BY <1>1, <1>2, <2>1, <2>2 DEF Scan
<1> QED BY <1>3, <1>4, <1>5, <1>6, <1>7, <1>8, <1>9 DEF Processor

-----------------------------------------------------------------------------
(* The invariant *)

LEMMA NInvInit ==
  ASSUME NEW R, Init, Mendable
  PROVE  NInv(R)
<1>1. IInv
  BY InitInv
<1>2. /\ tip \in Block /\ Synced = Genesis
      /\ DOMAIN notes = {} /\ DOMAIN blocks = {} /\ DOMAIN wits = {}
      /\ ppc = "none" /\ dres = "none"
      /\ batch = EmptyBatch /\ Queued = EmptyBatch /\ outbox = EmptyBatch /\ cbs = EmptyBatch
  BY EmptyTableTyped DEF Init, Idle, Synced, Queued
<1>3. OnTip
  BY <1>2, LedgerAncestry, EmptyBatchTyped DEF OnTip
<1>4. Panicked /\ Watching(R) /\ Scan(R)
  BY <1>2 DEF Panicked, Watching, Scan
<1>5. DbNotes(R)
  <2>1. Leaves[Genesis] = << >>
    BY LedgerTree
  <2>2. Len(Leaves[Synced]) = 0
    BY <1>2, <2>1
  <2>3. 0..(0 - 1) = {}
    OBVIOUS
  <2>4. CompleteTo(notes, Synced, R)
    BY <1>2, <2>2, <2>3 DEF CompleteTo, Complete
  <2> QED BY <1>2, <2>4 DEF DbNotes, Sound, OnePerNf, HasTxs, Written
<1>6. DbWitnesses(R)
  BY <1>2 DEF DbWitnesses, Written
<1> QED BY <1>1, <1>3, <1>4, <1>5, <1>6 DEF NInv

LEMMA NInvStep ==
  ASSUME NEW R, NInv(R), [Next]_vars
  PROVE  NInv(R)'
<1>1. IInv' /\ Mendable
  BY StepInv DEF NInv
<1>2. OnTip' /\ Panicked' /\ Db(R)' /\ Scan(R)'
  <2>1. CASE Next
    BY <2>1, NotesServer, NotesCall, NotesDownloader, NotesProcessor DEF Next
  <2>2. CASE UNCHANGED vars
    <3>1. /\ UNCHANGED <<tip, blocks, notes, txs, wits, dpc, cbs, outbox, dres, chan>>
          /\ UNCHANGED <<ppc, nfs, batch, bwits, scan>>
      BY <2>2 DEF vars
    <3>2. tip \in Block /\ tip \in Anc[tip]
      <4>1. tip \in Block
        BY DEF NInv, IInv, TInv, TypeOK
      <4> QED BY <4>1, LedgerAncestry
    <3>3. Synced' = Synced /\ Queued' = Queued
      BY <3>1, SyncedKept DEF Queued
    <3>4. OnTip' /\ Panicked'
      BY <3>1, <3>3 DEF NInv, OnTip, Panicked
    <3>5. Scan(R)'
      BY <3>1, <3>2, ScanStays
    <3>6. Written' = Written /\ Looking' = Looking
      BY <3>1 DEF Written, Looking
    <3>7. Db(R)'
      BY <3>1, <3>6, DbKept, WatchingKept DEF Db
    <3> QED BY <3>4, <3>5, <3>7
  <2> QED BY <2>1, <2>2
<1>3. Mendable'
  BY <1>1 DEF Mendable, Untorn
<1> QED BY <1>1, <1>2, <1>3 DEF NInv, Db

(* What a wallet that syncs knows of its notes holds in every state. *)
THEOREM NotesInvariance == Mendable => (Spec => []NInv({}))
<1> SUFFICES ASSUME Mendable PROVE Spec => []NInv({})
  OBVIOUS
<1>1. Init => NInv({})
  BY NInvInit
<1>2. NInv({}) /\ [Next]_vars => NInv({})'
  BY NInvStep
<1> QED BY <1>1, <1>2, PTL DEF Spec

-----------------------------------------------------------------------------
(* The rows of the synced chain *)

LEMMA PositionIs ==
  ASSUME NEW b \in Block, NEW p \in Nat, p < Len(Leaves[b])
  PROVE  Position(Leaves[b][p + 1], b) = p
<1> DEFINE at == {i \in 1..Len(Leaves[b]) : Leaves[b][i] = Leaves[b][p + 1]}
           i == CHOOSE j \in 1..Len(Leaves[b]) : Leaves[b][j] = Leaves[b][p + 1]
<1>1. Len(Leaves[b]) \in Nat
  BY CountsTyped
<1>2. p + 1 \in 1..Len(Leaves[b])
  BY <1>1
<1>3. i \in 1..Len(Leaves[b]) /\ Leaves[b][i] = Leaves[b][p + 1]
  BY <1>2
<1>4. b \in Anc[b]
  BY LedgerAncestry
<1>5. i = p + 1
  BY <1>2, <1>3, LedgerLeaves
<1>6. Position(Leaves[b][p + 1], b) = i - 1
  BY DEF Position
<1> HIDE DEF i
<1> QED BY <1>5, <1>6

(* The outputs that trial decryption of a block finds are leaves of it. *)
LEMMA ReceivedIsLeaf ==
  ASSUME NEW b \in Block, NEW a \in Anc[b], NEW o \in Received(a)
  PROVE  /\ a # Genesis /\ Owner[o] \in Account
         /\ \E p \in Nat :
              /\ Len(Leaves[Parent[a]]) <= p /\ p < Len(Leaves[a]) /\ p < Len(Leaves[b])
              /\ Leaves[b][p + 1] = o /\ Position(o, b) = p
<1>1. a \in Block
  BY Ancestor
<1>2. PICK i \in 1..Len(Outs[a]) : o = Outs[a][i] /\ Owner[o] \in Account
  BY DEF Received
<1>3. a # Genesis
  <2>1. Outs[Genesis] = << >>
    BY LedgerTree
  <2> QED BY <1>2, <2>1
<1>4. /\ NOuts(a) \in Nat /\ Len(Leaves[a]) = Len(Leaves[Parent[a]]) + NOuts(a)
      /\ Leaves[a][Len(Leaves[Parent[a]]) + i] = Outs[a][i] /\ Len(Leaves[Parent[a]]) \in Nat
      /\ i \in 1..NOuts(a)
  <2>1. Parent[a] \in Block
    BY <1>1, <1>3, Child
  <2>2. i \in 1..NOuts(a)
    BY DEF NOuts
  <2> QED BY <1>1, <1>3, <2>1, <2>2, LeavesOfBlock, CountsTyped
<1> DEFINE p == Len(Leaves[Parent[a]]) + i - 1
<1>5. p \in Nat /\ Len(Leaves[Parent[a]]) <= p /\ p < Len(Leaves[a])
      /\ p + 1 = Len(Leaves[Parent[a]]) + i
  BY <1>4
<1> HIDE DEF p
<1>6. p < Len(Leaves[b]) /\ Leaves[b][p + 1] = Leaves[a][p + 1]
  BY <1>5, LeafKept
<1>7. Leaves[b][p + 1] = o
  BY <1>2, <1>4, <1>5, <1>6
<1>8. Position(o, b) = p
  BY <1>5, <1>6, <1>7, PositionIs
<1> QED BY <1>2, <1>3, <1>5, <1>6, <1>7, <1>8

LEMMA LeafIsReceived ==
  ASSUME NEW a \in Block \ {Genesis}, NEW p \in Nat,
         Len(Leaves[Parent[a]]) <= p, p < Len(Leaves[a]),
         Owner[Leaves[a][p + 1]] \in Account
  PROVE  Leaves[a][p + 1] \in Received(a)
<1> DEFINE before == Len(Leaves[Parent[a]])
           after == Len(Leaves[a])
           i == p + 1 - before
<1>1. NOuts(a) \in Nat /\ before \in Nat /\ before <= p /\ p < after
  BY Child, CountsTyped
<1>2. after = before + NOuts(a) /\ \A j \in 1..NOuts(a) : Leaves[a][before + j] = Outs[a][j]
  BY LeavesOfBlock
<1> HIDE DEF before, after
<1>3. i \in 1..NOuts(a) /\ before + i = p + 1
  BY <1>1, <1>2
<1>4. Leaves[a][p + 1] = Outs[a][i]
  BY <1>2, <1>3
<1> HIDE DEF i
<1> QED BY <1>3, <1>4 DEF Received, NOuts

(* The resume point is on the chain that the rows are genuine for. *)
LEMMA SyncedBelowTop ==
  ASSUME NEW R, NInv(R)
  PROVE  /\ DbTop \in Block /\ Synced \in Block /\ Synced \in Anc[DbTop]
         /\ Height[Synced] = SyncedHeight /\ SyncedHeight \in Nat
<1>1. IInv /\ Mendable /\ OnTip
  BY DEF NInv
<1>2. Synced \in Block /\ BatchEnd \in Block /\ tip \in Block
      /\ (Running => Synced \in Anc[BatchEnd])
  BY <1>1, DbContext
<1>3. Synced \in Anc[Synced]
  BY <1>2, LedgerAncestry
<1>4. DbTop \in Block /\ Synced \in Anc[DbTop]
  <2>1. CASE Untorn
    BY <1>2, <1>3, <2>1 DEF DbTop, Written, Running
  <2>2. CASE ~Untorn
    BY <1>1, <1>2, <2>2 DEF DbTop, Mendable, OnTip
  <2> QED BY <2>1, <2>2
<1>5. Height[Synced] = SyncedHeight
  BY <1>1, SyncedExact DEF IInv
<1> QED BY <1>2, <1>4, <1>5, LedgerTypes

(* On one chain, the blocks up to a height are the ancestors of the block  *)
(* there.                                                                  *)
LEMMA BelowIsAncestor ==
  ASSUME NEW c \in Block, NEW b \in Anc[c], NEW a \in Anc[c]
  PROVE  a \in Anc[b] <=> Height[a] <= Height[b]
<1>1. a \in Block /\ b \in Block /\ a \in Anc[a] /\ b \in Anc[b]
  BY Ancestor, LedgerAncestry
<1>2. Height[a] \in Nat /\ Height[b] \in Nat
  BY <1>1, LedgerTypes
<1>3. a \in Anc[b] => Height[a] <= Height[b]
  BY <1>1, Ancestor
<1>4. ASSUME Height[a] <= Height[b], a \notin Anc[b] PROVE FALSE
  <2>1. b \in Anc[a]
    BY <1>4, LedgerAncestry
  <2>2. Height[b] <= Height[a]
    BY <1>1, <2>1, Ancestor
  <2>3. b = a
    BY <1>1, <1>2, <1>4, <2>1, <2>2, Ancestor
  <2> QED BY <1>1, <1>4, <2>3
<1> QED BY <1>3, <1>4

(* A row at or below the synced height is of an output that a block of the *)
(* synced chain creates.                                                   *)
LEMMA SyncedRow ==
  ASSUME NEW R, NInv(R), NEW n \in SyncedNotes
  PROVE  /\ n \in NoteId /\ notes[n] \in NoteRow
         /\ OutOf(n) = notes[n].nf[1] /\ AccountOf(n) = Owner[OutOf(n)]
         /\ notes[n].nf[2] \in Nat /\ notes[n].nf[2] < Len(Leaves[Synced])
         /\ notes[n].nf = <<OutOf(n), Position(OutOf(n), Synced)>>
         /\ Position(OutOf(n), Synced) = notes[n].nf[2]
         /\ \E a \in Anc[Synced] \ {Genesis} :
              notes[n].height = Height[a] /\ OutOf(n) \in Received(a)
<1> DEFINE p == notes[n].nf[2]
<1>1. /\ DbTop \in Block /\ Synced \in Block /\ Synced \in Anc[DbTop]
      /\ Height[Synced] = SyncedHeight /\ SyncedHeight \in Nat
  BY SyncedBelowTop
<1>2. IsTable(notes, NoteId, NoteRow) /\ Sound(notes, txs, DbTop)
  BY DbContext DEF NInv, DbNotes
<1>3. n \in DOMAIN notes /\ notes[n].height <= SyncedHeight /\ n \in NoteId /\ notes[n] \in NoteRow
  BY <1>2 DEF SyncedNotes, IsTable
<1>4. notes[n].nf \in Out \X Nat /\ p \in Nat /\ AccountOf(n) \in Account
  BY <1>3 DEF NoteRow, Nf, NoteId, TxId, AccountOf
<1>5. Genuine(n, notes[n], DbTop)
  BY <1>2, <1>3 DEF Sound
<1>6. OutOf(n) = notes[n].nf[1] /\ AccountOf(n) = Owner[OutOf(n)]
      /\ p < Len(Leaves[DbTop]) /\ Leaves[DbTop][p + 1] = OutOf(n)
  BY <1>5 DEF Genuine
<1>7. PICK a \in Anc[DbTop] \ {Genesis} :
        /\ notes[n].height = Height[a]
        /\ Len(Leaves[Parent[a]]) <= p /\ p < Len(Leaves[a])
  BY <1>5 DEF Genuine
<1>8. a \in Anc[Synced] /\ a \in Block
  BY <1>1, <1>3, <1>7, BelowIsAncestor, Ancestor
<1>9. p < Len(Leaves[Synced]) /\ Leaves[Synced][p + 1] = Leaves[a][p + 1]
      /\ Leaves[DbTop][p + 1] = Leaves[a][p + 1]
  BY <1>1, <1>4, <1>7, <1>8, LeafKept
<1>10. Leaves[Synced][p + 1] = OutOf(n) /\ Leaves[a][p + 1] = OutOf(n)
  BY <1>6, <1>9
<1>11. Position(OutOf(n), Synced) = p
  BY <1>1, <1>4, <1>9, <1>10, PositionIs
<1>12. OutOf(n) \in Received(a)
  BY <1>4, <1>6, <1>7, <1>8, <1>10, LeafIsReceived
<1>13. notes[n].nf = <<OutOf(n), Position(OutOf(n), Synced)>>
  BY <1>4, <1>6, <1>11
<1> QED BY <1>3, <1>4, <1>6, <1>7, <1>8, <1>9, <1>11, <1>12, <1>13

(* The output that a block of the synced chain creates has a row. *)
LEMMA ReceivedHasRow ==
  ASSUME NEW R, NInv(R), NEW a \in Anc[Synced], NEW o \in Received(a)
  PROVE  \E n \in SyncedNotes :
           notes[n].nf = <<o, Position(o, Synced)>> /\ notes[n].height = Height[a]
<1>1. /\ DbTop \in Block /\ Synced \in Block /\ Synced \in Anc[DbTop]
      /\ Height[Synced] = SyncedHeight /\ SyncedHeight \in Nat
  BY SyncedBelowTop
<1>2. PICK p \in Nat :
        /\ Len(Leaves[Parent[a]]) <= p /\ p < Len(Leaves[a]) /\ p < Len(Leaves[Synced])
        /\ Leaves[Synced][p + 1] = o /\ Position(o, Synced) = p
  BY <1>1, ReceivedIsLeaf
<1>3. a # Genesis /\ Owner[o] \in Account /\ a \in Block
  BY <1>1, ReceivedIsLeaf, Ancestor
<1>4. PICK n \in DOMAIN notes : notes[n].nf = <<Leaves[Synced][p + 1], p>>
  <2>1. p \in 0..(Len(Leaves[Synced]) - 1)
    BY <1>1, <1>2, CountsTyped
  <2> QED BY <1>2, <1>3, <2>1 DEF NInv, DbNotes, CompleteTo, Complete
<1>5. notes[n].nf = <<o, p>> /\ notes[n].nf[2] = p
  BY <1>2, <1>4
<1>6. Genuine(n, notes[n], DbTop)
  BY DEF NInv, DbNotes, Sound
<1>7. PICK c \in Anc[DbTop] \ {Genesis} :
        /\ notes[n].height = Height[c]
        /\ Len(Leaves[Parent[c]]) <= p /\ p < Len(Leaves[c])
  BY <1>5, <1>6 DEF Genuine
<1>8. a \in Anc[DbTop]
  BY <1>1, Ancestor
<1>9. c = a
  BY <1>1, <1>2, <1>3, <1>7, <1>8, OneBlock
<1>10. Height[a] <= Height[Synced]
  BY <1>1, Ancestor
<1>11. n \in SyncedNotes
  BY <1>1, <1>7, <1>9, <1>10 DEF SyncedNotes
<1> QED BY <1>2, <1>5, <1>7, <1>9, <1>11

-----------------------------------------------------------------------------
(* The properties *)

(* The spends of a note of the synced chain: the row has the height of one *)
(* of them, if there are any.                                              *)
LEMMA SpendsOfRow ==
  ASSUME NEW R, NInv(R), NEW n \in SyncedNotes
  PROVE  /\ SpentBySync(n) => notes[n].spent \in SpentAt(notes[n].nf, Synced)
         /\ n \notin R /\ ~SpentBySync(n) => SpentAt(notes[n].nf, Synced) = {}
<1>1. /\ DbTop \in Block /\ Synced \in Block /\ Synced \in Anc[DbTop]
      /\ Height[Synced] = SyncedHeight /\ SyncedHeight \in Nat
  BY SyncedBelowTop
<1>2. n \in DOMAIN notes /\ notes[n] \in NoteRow
  BY SyncedRow DEF SyncedNotes
<1>3. Genuine(n, notes[n], DbTop)
  BY <1>2 DEF NInv, DbNotes, Sound
<1>4. ASSUME notes[n].spent \notin Unspoken
      PROVE \E a \in Anc[DbTop] :
              notes[n].spent = Height[a] /\ Height[a] \in Nat /\ notes[n].nf \in NfsIn(a)
  BY <1>1, <1>3, <1>4, Ancestor DEF Genuine
<1>5. ASSUME SpentBySync(n) PROVE notes[n].spent \in SpentAt(notes[n].nf, Synced)
  <2>1. notes[n].spent # Null /\ notes[n].spent \in 1..SyncedHeight
    BY <1>5 DEF SpentBySync
  <2>2. PICK a \in Anc[DbTop] :
          notes[n].spent = Height[a] /\ Height[a] \in Nat /\ notes[n].nf \in NfsIn(a)
    BY <1>1, <1>4, <2>1 DEF Unspoken
  <2>3. a \in Anc[Synced]
    BY <1>1, <2>1, <2>2, BelowIsAncestor
  <2>4. \E s \in SpendsIn(a) : s.nf = notes[n].nf
    BY <2>2 DEF NfsIn
  <2> QED BY <2>2, <2>3, <2>4 DEF SpentAt
<1>6. ASSUME n \notin R, ~SpentBySync(n), NEW c \in Anc[Synced], NEW s \in SpendsIn(c),
             s.nf = notes[n].nf
      PROVE FALSE
  <2>1. notes[n].nf \in Revealed(Synced)
    BY <1>6 DEF Revealed, NfsIn
  <2>2. notes[n].spent \notin Unspoken
    BY <1>2, <1>6, <2>1 DEF NInv, DbNotes, CompleteTo, Complete
  <2>3. PICK a \in Anc[DbTop] :
          notes[n].spent = Height[a] /\ Height[a] \in Nat /\ notes[n].nf \in NfsIn(a)
    BY <1>4, <2>2
  <2>4. c \in Anc[DbTop]
    BY <1>1, Ancestor
  <2>5. PICK t \in SpendsIn(a) : t.nf = notes[n].nf
    BY <2>3 DEF NfsIn
  <2>6. a = c
    BY <1>1, <1>6, <2>3, <2>4, <2>5, LedgerSpends
  <2>7. Height[a] <= SyncedHeight
    BY <1>1, <2>6, Ancestor
  <2>8. notes[n].spent \in 1..SyncedHeight /\ notes[n].spent # Null
    BY <1>1, <2>2, <2>3, <2>7 DEF Unspoken
  <2> QED BY <1>6, <2>8 DEF SpentBySync
<1>7. ASSUME n \notin R, ~SpentBySync(n) PROVE SpentAt(notes[n].nf, Synced) = {}
  BY <1>6, <1>7 DEF SpentAt
<1> QED BY <1>5, <1>7

LEMMA ChainNotesHaveRows ==
  ASSUME NEW R, NInv(R)
  PROVE  {[nf |-> notes[n].nf, in |-> notes[n].height] : n \in SyncedNotes}
           = {[nf |-> c.nf, in |-> Height[c.in]] : c \in ChainNotes(Synced)}
<1> DEFINE Rows == {[nf |-> notes[n].nf, in |-> notes[n].height] : n \in SyncedNotes}
           Facts == {[nf |-> c.nf, in |-> Height[c.in]] : c \in ChainNotes(Synced)}
           Row(a, o) == [nf |-> <<o, Position(o, Synced)>>, in |-> Height[a]]
           Fact(a, o) == [nf |-> <<o, Position(o, Synced)>>, in |-> a]
<1>1. ASSUME NEW a \in Anc[Synced], NEW o \in Received(a)
      PROVE Fact(a, o) \in ChainNotes(Synced)
  BY DEF ChainNotes
<1>2. ASSUME NEW c \in ChainNotes(Synced)
      PROVE \E a \in Anc[Synced] : \E o \in Received(a) : c = Fact(a, o)
  BY DEF ChainNotes
<1>3. ASSUME NEW n \in SyncedNotes
      PROVE [nf |-> notes[n].nf, in |-> notes[n].height] \in Facts
  <2>1. PICK a \in Anc[Synced] \ {Genesis} :
          notes[n].height = Height[a] /\ OutOf(n) \in Received(a)
    BY SyncedRow
  <2>2. notes[n].nf = <<OutOf(n), Position(OutOf(n), Synced)>>
    BY SyncedRow
  <2>3. Fact(a, OutOf(n)) \in ChainNotes(Synced)
    BY <1>1, <2>1
  <2>4. [nf |-> Fact(a, OutOf(n)).nf, in |-> Height[Fact(a, OutOf(n)).in]]
          = [nf |-> notes[n].nf, in |-> notes[n].height]
    BY <2>1, <2>2
  <2> QED BY <2>3, <2>4
<1>4. ASSUME NEW c \in ChainNotes(Synced)
      PROVE [nf |-> c.nf, in |-> Height[c.in]] \in Rows
  <2>1. PICK a \in Anc[Synced] : \E o \in Received(a) : c = Fact(a, o)
    BY <1>2
  <2>2. PICK o \in Received(a) : c = Fact(a, o)
    BY <2>1
  <2>3. PICK n \in SyncedNotes :
          notes[n].nf = <<o, Position(o, Synced)>> /\ notes[n].height = Height[a]
    BY ReceivedHasRow
  <2>4. [nf |-> c.nf, in |-> Height[c.in]] = [nf |-> notes[n].nf, in |-> notes[n].height]
    BY <2>2, <2>3
  <2> QED BY <2>3, <2>4
<1>5. Rows \subseteq Facts
  BY <1>3
<1>6. Facts \subseteq Rows
  BY <1>4
<1> QED BY <1>5, <1>6

LEMMA NotesExactFromInv ==
  ASSUME NInv({})
  PROVE  NotesExact
<1>1. ASSUME NEW n \in SyncedNotes
      PROVE /\ OutOf(n) = notes[n].nf[1] /\ AccountOf(n) = Owner[OutOf(n)]
            /\ n[1] \in DOMAIN txs /\ txs[n[1]].txid = TxOf[OutOf(n)]
            /\ IF SpentBySync(n)
                 THEN notes[n].spent \in SpentAt(notes[n].nf, Synced)
                 ELSE SpentAt(notes[n].nf, Synced) = {}
  <2>1. OutOf(n) = notes[n].nf[1] /\ AccountOf(n) = Owner[OutOf(n)]
    BY SyncedRow
  <2>2. n[1] \in DOMAIN txs /\ txs[n[1]].txid = TxOf[OutOf(n)]
    BY DEF NInv, DbNotes, Sound, HasTxs, SyncedNotes
  <2> QED BY <2>1, <2>2, SpendsOfRow
<1> QED BY <1>1, ChainNotesHaveRows DEF NotesExact

LEMMA WitnessesExactFromInv ==
  ASSUME NEW R, NInv(R)
  PROVE  \A n \in (SyncedNotes \cap Unspent(notes)) \ R :
           /\ <<n, SyncedHeight>> \in DOMAIN wits
           /\ wits[<<n, SyncedHeight>>] =
                [pos |-> Position(OutOf(n), Synced), leaves |-> Leaves[Synced]]
<1> SUFFICES ASSUME NEW n \in (SyncedNotes \cap Unspent(notes)) \ R
             PROVE /\ <<n, SyncedHeight>> \in DOMAIN wits
                   /\ wits[<<n, SyncedHeight>>] =
                        [pos |-> Position(OutOf(n), Synced), leaves |-> Leaves[Synced]]
  OBVIOUS
<1>1. IInv /\ TypeOK /\ HasLast /\ DbWitnesses(R)
  BY DEF NInv, IInv, TInv
<1>2. n \in DOMAIN notes /\ notes[n].spent \in Unspoken
  BY DEF Unspent, Unspoken
<1>3. notes[n].nf[2] \in Nat /\ notes[n].nf[2] < Len(Leaves[Synced])
      /\ Position(OutOf(n), Synced) = notes[n].nf[2]
  BY SyncedRow
<1>4. SyncedHeight \in DOMAIN blocks /\ Synced = blocks[SyncedHeight].hash
      /\ blocks[SyncedHeight].tree = Leaves[Synced]
  <2>1. blocks # EmptyTable
    <3>1. \E a \in Anc[Synced] : a # Genesis
      BY SyncedRow
    <3>2. Synced # Genesis
      BY <3>1, LedgerAncestry
    <3> QED BY <3>2 DEF Synced
  <2>2. SyncedHeight \in DOMAIN blocks /\ Synced = blocks[SyncedHeight].hash
    BY <1>1, <2>1, SyncedTyped
  <2> QED BY <1>1, <2>2 DEF IInv, CheckpointsExact
<1>5. Carries({k[1] : k \in {w \in DOMAIN wits : w[2] = SyncedHeight}}, notes,
              Len(Leaves[Synced]), R)
  BY <1>1, <1>4 DEF DbWitnesses
<1>6. n \in {k[1] : k \in {w \in DOMAIN wits : w[2] = SyncedHeight}}
  BY <1>2, <1>3, <1>5 DEF Carries
<1>7. PICK w \in DOMAIN wits : w[2] = SyncedHeight /\ w[1] = n
  BY <1>6
<1>8. w \in NoteId \X Nat /\ wits[w] \in Witness
  BY <1>1 DEF TypeOK, DbTypes, IsTable
<1>9. w = <<n, SyncedHeight>>
  BY <1>7, <1>8
<1>10. wits[w].pos = Position(OutOf(n), Synced)
  BY <1>1, <1>3, <1>7 DEF DbWitnesses
<1>11. wits[w].leaves = Leaves[Synced]
  BY <1>1, <1>4, <1>7 DEF IInv, AnchorsAgree
<1>12. wits[w] = [pos |-> Position(OutOf(n), Synced), leaves |-> Leaves[Synced]]
  BY <1>8, <1>10, <1>11 DEF Witness
<1> QED BY <1>7, <1>9, <1>12

LEMMA NullifiersFreshFromInv ==
  ASSUME NInv({}), Untorn
  PROVE  NullifiersFresh
<1> SUFFICES ASSUME ppc = "recv" PROVE nfs = Nullifiers
  BY DEF NullifiersFresh
<1>1. Watches(nfs, notes, {}) /\ Live(nfs, notes) /\ OnePerNf(notes)
  BY DEF NInv, Watching, DbNotes, Sound
<1>2. nfs = [nf \in DOMAIN nfs |-> nfs[nf]]
  BY DEF NInv, IInv, TInv, TypeOK, PrTypes, IsTable
<1>3. \A n \in DOMAIN notes : n \in Unspent(notes) <=> notes[n].spent \in Unspoken
  BY DEF Unspent, Unspoken
<1>4. DOMAIN nfs = {notes[n].nf : n \in Unspent(notes)}
  <2>1. ASSUME NEW nf \in DOMAIN nfs PROVE nf \in {notes[n].nf : n \in Unspent(notes)}
    <3>1. nfs[nf] \in Unspent(notes) /\ notes[nfs[nf]].nf = nf
      BY <1>1, <1>3 DEF Watches, Live
    <3> QED BY <3>1
  <2>2. ASSUME NEW n \in Unspent(notes) PROVE notes[n].nf \in DOMAIN nfs
    BY <1>1, <1>3 DEF Watches, Unspent
  <2> QED BY <2>1, <2>2
<1>5. ASSUME NEW nf \in DOMAIN nfs
      PROVE nfs[nf] = CHOOSE n \in Unspent(notes) : notes[n].nf = nf
  <2> DEFINE m == CHOOSE n \in Unspent(notes) : notes[n].nf = nf
  <2>1. nfs[nf] \in Unspent(notes) /\ notes[nfs[nf]].nf = nf
    BY <1>1, <1>3 DEF Watches, Live
  <2>2. m \in Unspent(notes) /\ notes[m].nf = nf
    BY <2>1
  <2> HIDE DEF m
  <2>3. nfs[nf] = m
    BY <1>1, <2>1, <2>2 DEF OnePerNf, Unspent
  <2> QED BY <2>3 DEF m
<1> QED BY <1>2, <1>4, <1>5 DEF Nullifiers

(* The wallet holds exactly the notes of the chain it has synced, and      *)
(* knows which of them the chain spends (rows of store_received_note and   *)
(* mark_spent).  Torn batches and reorganizations do not come together.    *)
THEOREM NotesAreExact == Mendable => (Spec => []NotesExact)
<1> SUFFICES ASSUME Mendable PROVE Spec => []NotesExact
  OBVIOUS
<1>1. NInv({}) => NotesExact
  BY NotesExactFromInv
<1>2. Spec => []NInv({})
  BY NotesInvariance
<1> QED BY <1>1, <1>2, PTL

(* Every unspent note has a witness at the checkpoint sync resumes from    *)
(* (store_witness, get_tree), for its position in the whole tree.          *)
THEOREM WitnessesAreExact == Mendable => (Spec => []WitnessesExact)
<1> SUFFICES ASSUME Mendable PROVE Spec => []WitnessesExact
  OBVIOUS
<1>1. NInv({}) => WitnessesExact
  BY WitnessesExactFromInv DEF WitnessesExact
<1>2. Spec => []NInv({})
  BY NotesInvariance
<1> QED BY <1>1, <1>2, PTL

(* The processor reads the nullifiers once, and after every batch they are *)
(* still those that get_nullifiers would return, unless a batch was torn.  *)
THEOREM NullifiersAreFresh == Untorn => (Spec => []NullifiersFresh)
<1> SUFFICES ASSUME Untorn PROVE Spec => []NullifiersFresh
  OBVIOUS
<1>1. NInv({}) => NullifiersFresh
  BY NullifiersFreshFromInv
<1>2. Spec => []NInv({})
  BY NotesInvariance DEF Mendable
<1> QED BY <1>1, <1>2, PTL

-----------------------------------------------------------------------------
(* Warp sync implements the normal sync *)

ReceivedOn(b) == UNION {Normal!NotesOf(a) : a \in Anc[b]}
SpentOn(b) == ReceivedOn(b) \cap Revealed(b)
ReceivedRows == {notes[n].nf : n \in SyncedNotes}
SpentRows == {notes[n].nf : n \in {m \in SyncedNotes : SpentBySync(m)}}

(* The notes that a block creates have the same positions on every chain.  *)
LEMMA NotesOfBlock ==
  ASSUME NEW b \in Block, NEW a \in Anc[b]
  PROVE  Normal!NotesOf(a) = {<<o, Position(o, b)>> : o \in Received(a)}
<1>1. a \in Block /\ a \in Anc[a]
  BY Ancestor, LedgerAncestry
<1>2. ASSUME NEW o \in Received(a)
      PROVE Position(o, a) = Position(o, b)
  <2>1. PICK p \in Nat :
          /\ Len(Leaves[Parent[a]]) <= p /\ p < Len(Leaves[a])
          /\ Leaves[b][p + 1] = o /\ Position(o, b) = p
    BY ReceivedIsLeaf
  <2>2. Leaves[a][p + 1] = o
    BY <2>1, LeafKept
  <2>3. Position(o, a) = p
    BY <1>1, <2>1, <2>2, PositionIs
  <2> QED BY <2>1, <2>3
<1> QED BY <1>2 DEF Normal!NotesOf, Normal!Position, Normal!Received, Position, Received

(* The tables say of the notes what the synced block does. *)
LEMMA RowsOfSynced ==
  ASSUME NInv({})
  PROVE  ReceivedRows = ReceivedOn(Synced) /\ SpentRows = SpentOn(Synced)
<1>1. Synced \in Block
  BY SyncedBelowTop
<1>2. ASSUME NEW n \in SyncedNotes PROVE notes[n].nf \in ReceivedOn(Synced)
  <2>1. PICK a \in Anc[Synced] : OutOf(n) \in Received(a)
    BY SyncedRow
  <2>2. notes[n].nf = <<OutOf(n), Position(OutOf(n), Synced)>>
    BY SyncedRow
  <2>3. notes[n].nf \in Normal!NotesOf(a)
    BY <1>1, <2>1, <2>2, NotesOfBlock
  <2> QED BY <2>3 DEF ReceivedOn
<1>3. ASSUME NEW nf \in ReceivedOn(Synced) PROVE \E n \in SyncedNotes : notes[n].nf = nf
  <2>1. PICK a \in Anc[Synced] : nf \in Normal!NotesOf(a)
    BY DEF ReceivedOn
  <2>2. PICK o \in Received(a) : nf = <<o, Position(o, Synced)>>
    BY <1>1, <2>1, NotesOfBlock
  <2> QED BY <2>2, ReceivedHasRow
<1>4. ReceivedRows = ReceivedOn(Synced)
  <2>1. ReceivedRows \subseteq ReceivedOn(Synced)
    BY <1>2 DEF ReceivedRows
  <2>2. ReceivedOn(Synced) \subseteq ReceivedRows
    BY <1>3 DEF ReceivedRows
  <2> QED BY <2>1, <2>2
<1>5. ASSUME NEW n \in SyncedNotes PROVE SpentBySync(n) <=> notes[n].nf \in Revealed(Synced)
  <2>1. SpentAt(notes[n].nf, Synced) # {} <=> notes[n].nf \in Revealed(Synced)
    BY DEF SpentAt, Revealed, NfsIn
  <2> QED BY <2>1, SpendsOfRow
<1>6. SpentRows = SpentOn(Synced)
  <2>1. ASSUME NEW nf \in SpentRows PROVE nf \in SpentOn(Synced)
    <3>1. PICK n \in SyncedNotes : SpentBySync(n) /\ nf = notes[n].nf
      BY DEF SpentRows
    <3> QED BY <1>2, <1>5, <3>1 DEF SpentOn
  <2>2. ASSUME NEW nf \in SpentOn(Synced) PROVE nf \in SpentRows
    <3>1. PICK n \in SyncedNotes : notes[n].nf = nf
      BY <1>3 DEF SpentOn
    <3> QED BY <1>5, <3>1 DEF SpentOn, SpentRows
  <2> QED BY <2>1, <2>2
<1> QED BY <1>4, <1>6

(* A note that is created after block b is not spent on the chain of b.    *)
LEMMA SpentAfterReceived ==
  ASSUME NEW c \in Block, NEW b \in Anc[c], NEW a \in Path(b, c),
         NEW nf \in Normal!NotesOf(a)
  PROVE  nf \notin Revealed(b)
<1> SUFFICES ASSUME nf \in Revealed(b) PROVE FALSE
  OBVIOUS
<1>1. a \in Anc[c] /\ a \notin Anc[b] /\ a \in Block /\ b \in Block
  BY Ancestor DEF Path
<1>2. PICK o \in Received(a) : nf = <<o, Position(o, c)>>
  BY <1>1, NotesOfBlock
<1>3. PICK p \in Nat :
        /\ Len(Leaves[Parent[a]]) <= p /\ p < Len(Leaves[a]) /\ p < Len(Leaves[c])
        /\ Leaves[c][p + 1] = o /\ Position(o, c) = p
  BY <1>1, ReceivedIsLeaf
<1>4. nf[2] = p /\ nf[1] = o
  BY <1>2, <1>3
<1>5. a # Genesis
  BY <1>1, LedgerAncestry
<1>6. Parent[a] \in Block /\ Parent[a] \in Anc[c] /\ b \in Anc[Parent[a]]
  <2>1. Parent[a] \in Block /\ Parent[a] \in Anc[c] /\ Height[a] = Height[Parent[a]] + 1
    BY <1>1, <1>5, ParentIsAncestor, Ancestor, Child
  <2>2. Height[b] < Height[a]
    <3>1. ~(Height[a] <= Height[b])
      <4>1. \A x, y \in Anc[c] : x \in Anc[y] <=> Height[x] <= Height[y]
        BY BelowIsAncestor
      <4> QED BY <1>1, <4>1
    <3>2. Height[a] \in Nat /\ Height[b] \in Nat
      BY <1>1, LedgerTypes
    <3> QED BY <3>1, <3>2
  <2>3. Height[b] <= Height[Parent[a]]
    <3>1. Height[b] \in Nat /\ Height[Parent[a]] \in Nat
      BY <1>1, <2>1, LedgerTypes
    <3> QED BY <2>1, <2>2, <3>1
  <2> QED BY <2>1, <2>3, BelowIsAncestor
<1>7. PICK d \in Anc[b] \ {Genesis} : nf[2] < Len(Leaves[Parent[d]])
  BY <1>3, <1>4, RevealedIsOld
<1>8. Parent[d] \in Anc[Parent[a]]
  <2>1. d \in Block /\ Parent[d] \in Anc[d] /\ d \in Anc[Parent[a]]
    BY <1>1, <1>6, <1>7, Ancestor, ParentIsAncestor
  <2> QED BY <1>6, <2>1, Ancestor
<1>9. p < Len(Leaves[Parent[a]])
  BY <1>4, <1>6, <1>7, <1>8, LeafKept
<1>10. Len(Leaves[Parent[a]]) \in Nat
  BY <1>6, CountsTyped
<1> QED BY <1>3, <1>9, <1>10

(* The blocks of a path add what they receive and what they spend.         *)
LEMMA OnPath ==
  ASSUME NEW c \in Block, NEW b \in Anc[c]
  PROVE  /\ ReceivedOn(c) = ReceivedOn(b) \cup UNION {Normal!NotesOf(a) : a \in Path(b, c)}
         /\ SpentOn(c) =
              SpentOn(b) \cup (ReceivedOn(c) \cap UNION {Normal!NfsOf(a) : a \in Path(b, c)})
<1>1. Anc[c] = Anc[b] \cup Path(b, c)
  BY Ancestor DEF Path
<1>2. ReceivedOn(c) = ReceivedOn(b) \cup UNION {Normal!NotesOf(a) : a \in Path(b, c)}
  BY <1>1 DEF ReceivedOn
<1>3. \A a : Normal!NfsOf(a) = NfsIn(a)
  BY DEF Normal!NfsOf, NfsIn, SpendsIn
<1>4. Revealed(c) = Revealed(b) \cup UNION {Normal!NfsOf(a) : a \in Path(b, c)}
  BY <1>1, <1>3 DEF Revealed
<1>5. ReceivedOn(c) \cap Revealed(b) = SpentOn(b)
  <2>1. \A a \in Path(b, c) : \A nf \in Normal!NotesOf(a) : nf \notin Revealed(b)
    BY SpentAfterReceived
  <2> QED BY <1>2, <2>1 DEF SpentOn
<1> QED BY <1>2, <1>4, <1>5 DEF SpentOn

RowsFollow ==
  Synced \in Block /\ ReceivedRows = ReceivedOn(Synced) /\ SpentRows = SpentOn(Synced)

LEMMA RowsFollowAfter == NInv({})' => RowsFollow'
<1>1. NInv({}) => RowsFollow
  BY RowsOfSynced, SyncedBelowTop DEF RowsFollow
<1> QED BY <1>1, PTL

(* A step of warp sync is a step of the normal sync, or stutters.          *)
LEMMA NormalStep ==
  ASSUME NInv({}), [Next]_vars
  PROVE  [Normal!Next]_(Normal!vars)
<1>1. IInv /\ NInv({})'
  BY NInvStep DEF NInv
<1>2. RowsFollow /\ RowsFollow'
  BY <1>1, RowsOfSynced, SyncedBelowTop, RowsFollowAfter DEF RowsFollow
<1>3. Synced \in Block /\ ReceivedRows = ReceivedOn(Synced) /\ SpentRows = SpentOn(Synced)
  BY <1>2 DEF RowsFollow
<1>4. Synced' \in Block /\ ReceivedRows' = ReceivedOn(Synced') /\ SpentRows' = SpentOn(Synced')
  BY <1>2 DEF RowsFollow, ReceivedOn, SpentOn, Revealed
<1>5. Synced \in Anc[Synced']
  <2>1. Synced \in Anc[Synced]
    BY <1>3, LedgerAncestry
  <2>2. CASE Next
    BY <1>1, <2>1, <2>2, KeepsFork
  <2>3. CASE UNCHANGED vars
    <3>1. Synced' = Synced
      BY <2>3, SyncedKept DEF vars
    <3> QED BY <2>1, <3>1
  <2> QED BY <2>2, <2>3
<1>6. CASE Synced' = Synced
  BY <1>3, <1>4, <1>6 DEF Normal!vars, ReceivedRows, SpentRows
<1>7. CASE Synced' # Synced
  <2>1. PICK to \in Block : to = Synced'
    BY <1>4
  <2>2. Normal!Apply(to)
    BY <1>3, <1>4, <1>5, <1>7, <2>1, OnPath
      DEF Normal!Apply, Normal!Path, Path, ReceivedRows, SpentRows
  <2> QED BY <2>2 DEF Normal!Next
<1> QED BY <1>6, <1>7

LEMMA NormalInit ==
  ASSUME Init
  PROVE  Normal!Init
<1>1. Synced = Genesis
  BY DEF Init, Synced
<1>2. SyncedNotes = {}
  BY EmptyTableTyped DEF Init, SyncedNotes
<1> QED BY <1>1, <1>2 DEF Normal!Init

(* Warp sync gives the results of the normal sync (docs: the balance and   *)
(* the notes are those of a scan in chain order): each step of it applies  *)
(* a path of blocks to what the wallet knows, or changes nothing of it.    *)
THEOREM WarpImplementsNormalSync == Mendable => (Spec => NormalSync)
<1> SUFFICES ASSUME Mendable PROVE Spec => NormalSync
  OBVIOUS
<1>1. Init => Normal!Init
  BY NormalInit
<1>2. NInv({}) /\ [Next]_vars => [Normal!Next]_(Normal!vars)
  BY NormalStep
<1>3. Spec => []NInv({})
  BY NotesInvariance
<1> QED BY <1>1, <1>2, <1>3, PTL DEF Spec, NormalSync, Normal!Spec

-----------------------------------------------------------------------------
(* Every witness is of the leaf of its note, in the tree it stands for:    *)
(* the rows of torn batches included, and whatever was rewound.            *)

LeafAt(leaves, p, n) == p < Len(leaves) /\ leaves[p + 1] = OutOf(n)
Inside ==
  /\ \A k \in DOMAIN wits : LeafAt(wits[k].leaves, wits[k].pos, k[1])
  /\ \A n \in DOMAIN bwits : LeafAt(bwits[n].leaves, bwits[n].pos, n)
  /\ ppc = "scan" =>
       \A n \in DOMAIN scan.new : scan.new[n] < Passed /\ LeafAt(Leaves[BatchEnd], scan.new[n], n)
  /\ Written => \A n \in DOMAIN scan.new : LeafAt(Leaves[BatchEnd], scan.new[n], n)

Placing == IInv /\ (ppc = "scan" => ScanPlace)

LEMMA InsideInit ==
  ASSUME Init
  PROVE  Inside
<1>1. DOMAIN wits = {} /\ DOMAIN bwits = {} /\ ppc = "none"
  BY EmptyTableTyped DEF Init, Idle
<1> QED BY <1>1 DEF Inside, Written

(* The steps of the scan through the items of a block.                     *)
ScanItem == ScanSpend \/ ScanNote \/ SkipOutput \/ ScanDebit \/ SkipSpend

LEMMA ScanMoves ==
  ASSUME Placing, ScanItem
  PROVE  /\ ppc = "scan" /\ ppc' = "scan" /\ InBlock /\ ScanPlace
         /\ UNCHANGED <<tip, blocks, notes, txs, wits, batch, bwits>>
         /\ ScanPlace' /\ BatchEnd' = BatchEnd /\ Synced' = Synced
         /\ \/ /\ scan.cur \in 1..NSpends(At)
               /\ Passed' = Passed /\ Seen' = Seen \cup {Spends[At][scan.cur].nf}
            \/ AtOutput(At) /\ Passed' = Passed + 1 /\ Seen' = Seen
            \/ AtDebit(At) /\ Passed' = Passed /\ Seen' = Seen
         /\ scan = [blk |-> scan.blk, cur |-> scan.cur, pos |-> scan.pos, mine |-> scan.mine,
                    found |-> scan.found, new |-> scan.new, notes |-> scan.notes,
                    txs |-> scan.txs]
         /\ ~ScanNote => scan'.new = scan.new
<1>1. /\ ppc = "scan" /\ InBlock /\ ppc' = "scan"
      /\ UNCHANGED <<tip, blocks, notes, txs, wits, batch, bwits>>
      /\ (AtOutput(At) \/ scan.cur \in 1..NSpends(At) \/ AtDebit(At))
  BY DEF ScanItem, ScanSpend, ScanNote, SkipOutput, ScanDebit, SkipSpend, Scanning, AtOutput,
    AtDebit, InBlock, At, dbVars
<1>2. /\ IInv /\ ScanPlace
      /\ scan = [blk |-> scan.blk, cur |-> scan.cur, pos |-> scan.pos, mine |-> scan.mine,
                 found |-> scan.found, new |-> scan.new, notes |-> scan.notes,
                 txs |-> scan.txs]
  BY <1>1 DEF Placing, IInv, TInv, TypeOK, ScanTypes
<1>3. scan'.blk = scan.blk /\ scan'.pos = scan.pos /\ scan'.cur = scan.cur + 1
      /\ (~ScanNote => scan'.new = scan.new)
  BY <1>2 DEF ScanItem, ScanSpend, ScanNote, SkipOutput, ScanDebit, SkipSpend
<1>4. /\ ScanPlace' /\ BatchEnd' = BatchEnd /\ Synced' = Synced
      /\ scan.cur \in 1..NSpends(At) =>
           Passed' = Passed /\ Seen' = Seen \cup {Spends[At][scan.cur].nf}
      /\ scan.cur - NSpends(At) \in 1..NOuts(At) => Passed' = Passed + 1 /\ Seen' = Seen
      /\ scan.cur - NSpends(At) - NOuts(At) \in 1..NSpends(At) =>
           Passed' = Passed /\ Seen' = Seen
  BY <1>1, <1>2, <1>3, ScanAdvances
<1> QED BY <1>1, <1>2, <1>3, <1>4 DEF AtOutput, AtDebit

(* A note is found at the leaf that the scan passes. *)
LEMMA InsideOfScan ==
  ASSUME Placing, Inside, ScanItem
  PROVE  Inside'
<1>1. /\ ppc = "scan" /\ ppc' = "scan" /\ InBlock /\ ScanPlace /\ IInv
      /\ UNCHANGED <<wits, bwits>> /\ BatchEnd' = BatchEnd
      /\ Passed' = Passed \/ (AtOutput(At) /\ Passed' = Passed + 1)
      /\ scan = [blk |-> scan.blk, cur |-> scan.cur, pos |-> scan.pos, mine |-> scan.mine,
                 found |-> scan.found, new |-> scan.new, notes |-> scan.notes,
                 txs |-> scan.txs]
      /\ ~ScanNote => scan'.new = scan.new
  BY ScanMoves DEF Placing
<1>2. Passed \in Nat
  BY <1>1, ScanHasPassed
<1>3. \A n \in DOMAIN scan.new :
        /\ scan.new[n] \in Nat /\ scan.new[n] < Passed
        /\ LeafAt(Leaves[BatchEnd], scan.new[n], n)
  BY <1>1 DEF Inside, IInv, TInv, TypeOK, ScanTypes, IsTable
<1>4. \A n \in DOMAIN scan'.new :
        scan'.new[n] < Passed' /\ LeafAt(Leaves[BatchEnd], scan'.new[n], n)
  <2>1. CASE ScanNote
    <3>1. PICK b \in Block :
            /\ AtOutput(b)
            /\ \E row : scan'.new = Put(scan.new, <<row, NewNf(b)[1]>>, NewNf(b)[2])
      BY <1>1, <2>1 DEF ScanNote
    <3>2. b = At
      BY <3>1 DEF AtOutput, Scanning, At
    <3>3. PICK row : scan'.new = Put(scan.new, <<row, NewNf(At)[1]>>, NewNf(At)[2])
      BY <3>1, <3>2
    <3> DEFINE id == <<row, NewNf(At)[1]>>
    <3>4. /\ NewNf(At) = <<Leaves[BatchEnd][Passed + 1], Passed>>
          /\ Passed < Len(Leaves[BatchEnd])
      BY <1>1, <3>1, <3>2, NewNotePlace
    <3>5. OutOf(id) = Leaves[BatchEnd][Passed + 1] /\ NewNf(At)[2] = Passed
      BY <3>4 DEF OutOf
    <3>6. Passed' = Passed + 1
      <4>1. NSpends(At) \in Nat /\ NOuts(At) \in Nat /\ scan.cur \in Nat
        BY <1>1, ScanIsAt, CountsTyped DEF ScanPlace
      <4>2. ~AtDebit(At) /\ scan.cur \notin 1..NSpends(At)
        BY <3>1, <3>2, <4>1 DEF AtOutput, AtDebit
      <4> QED BY <4>2, ScanMoves
    <3> HIDE DEF id
    <3>7. /\ DOMAIN scan'.new = DOMAIN scan.new \cup {id}
          /\ \A n \in DOMAIN scan'.new :
               scan'.new[n] = IF n = id THEN Passed ELSE scan.new[n]
      BY <3>3, <3>5 DEF Put, InsertAll, id
    <3>8. LeafAt(Leaves[BatchEnd], Passed, id)
      BY <3>4, <3>5 DEF LeafAt
    <3> QED BY <1>2, <1>3, <3>6, <3>7, <3>8
  <2>2. CASE ~ScanNote
    BY <1>1, <1>2, <1>3, <2>2
  <2> QED BY <2>1, <2>2
<1> QED BY <1>1, <1>4 DEF Inside, Written

(* The scan leaves a block. *)
LEMMA BlockLeft ==
  ASSUME Placing, EndBlock
  PROVE  /\ ppc = "scan" /\ ppc' = "scan" /\ ScanPlace'
         /\ UNCHANGED <<tip, blocks, notes, txs, wits, nfs, batch, bwits>>
         /\ BatchEnd' = BatchEnd /\ Synced' = Synced /\ Passed' = Passed /\ Seen' = Seen
         /\ scan'.new = scan.new /\ scan'.notes = scan.notes
<1>1. PICK b \in Block :
        /\ Scanning(b) /\ scan.cur > 2 * NSpends(b) + NOuts(b)
        /\ scan' = [scan EXCEPT !.blk = @ + 1, !.cur = 1, !.mine = {}, !.pos = @ + NOuts(b)]
  BY DEF EndBlock
<1>2. /\ ppc = "scan" /\ InBlock /\ b = At /\ ppc' = "scan"
      /\ UNCHANGED <<tip, blocks, notes, txs, wits, nfs, batch, bwits>>
  BY <1>1 DEF EndBlock, Scanning, InBlock, At, dbVars
<1>3. /\ IInv /\ ScanPlace
      /\ scan = [blk |-> scan.blk, cur |-> scan.cur, pos |-> scan.pos, mine |-> scan.mine,
                 found |-> scan.found, new |-> scan.new, notes |-> scan.notes,
                 txs |-> scan.txs]
  BY <1>2 DEF Placing, IInv, TInv, TypeOK, ScanTypes
<1>4. scan'.blk = scan.blk + 1 /\ scan'.cur = 1 /\ scan'.pos = scan.pos + NOuts(b)
      /\ scan'.new = scan.new /\ scan'.notes = scan.notes
  BY <1>1, <1>3
<1> QED BY <1>1, <1>2, <1>3, <1>4, ScanLeavesBlock

LEMMA InsideOfBlock ==
  ASSUME Placing, Inside, EndBlock
  PROVE  Inside'
  BY BlockLeft DEF Inside, Written

LEMMA InsideOfStore ==
  ASSUME Placing, Inside, Store
  PROVE  Inside'
<1> DEFINE old == [n \in DOMAIN bwits |-> [bwits[n] EXCEPT !.leaves = @ \o batch.outs]]
           new == [n \in DOMAIN scan.new |-> [pos |-> scan.new[n], leaves |-> NewTree]]
           rows == [k \in {<<n, Height[LastOf(batch)]>> : n \in DOMAIN NewWitnesses} |->
                      NewWitnesses[k[1]]]
<1>1. ppc = "store" /\ ppc' = "recv" /\ wits' = InsertAll(wits, rows) /\ bwits' = EmptyTable
  BY DEF Store
<1>2. IInv /\ BatchEnd \in Block /\ batch \in Batch
  BY AllEndsTyped DEF Placing
<1>3. NewTree = Leaves[BatchEnd]
  BY <1>2, StoreEffect
<1>4. \A n \in DOMAIN bwits : bwits[n] \in Witness
  BY <1>2 DEF IInv, TInv, TypeOK, PrTypes, IsTable
<1>5. ASSUME NEW n \in DOMAIN bwits
      PROVE LeafAt(old[n].leaves, old[n].pos, n)
  <2> DEFINE p == bwits[n].pos
             s == bwits[n].leaves
  <2>1. p \in Nat /\ s \in Seq(Out) /\ batch.outs \in Seq(Out)
        /\ p < Len(s) /\ s[p + 1] = OutOf(n)
    BY <1>2, <1>4 DEF Witness, Batch, Inside, LeafAt
  <2>2. old[n].pos = p /\ old[n].leaves = s \o batch.outs
    BY <1>4 DEF Witness
  <2> HIDE DEF p, s, old
  <2>3. p < Len(s \o batch.outs) /\ (s \o batch.outs)[p + 1] = s[p + 1]
    BY <2>1
  <2> QED BY <2>1, <2>2, <2>3 DEF LeafAt
<1>6. \A n \in DOMAIN scan.new : LeafAt(new[n].leaves, new[n].pos, n)
  BY <1>1, <1>3 DEF Inside, Written
<1>7. DOMAIN old = DOMAIN bwits /\ DOMAIN new = DOMAIN scan.new
  OBVIOUS
<1>8. NewWitnesses = InsertAll(old, new)
  BY DEF NewWitnesses
<1> HIDE DEF old, new
<1>9. \A n \in DOMAIN NewWitnesses : LeafAt(NewWitnesses[n].leaves, NewWitnesses[n].pos, n)
  BY <1>5, <1>6, <1>7, <1>8 DEF InsertAll
<1>10. \A k \in DOMAIN wits' :
         \/ k \in DOMAIN wits /\ wits'[k] = wits[k]
         \/ k[1] \in DOMAIN NewWitnesses /\ wits'[k] = NewWitnesses[k[1]]
  BY <1>1 DEF InsertAll
<1>11. \A k \in DOMAIN wits' : LeafAt(wits'[k].leaves, wits'[k].pos, k[1])
  BY <1>9, <1>10 DEF Inside
<1>12. DOMAIN bwits' = {}
  BY <1>1, EmptyTableTyped
<1> QED BY <1>1, <1>11, <1>12 DEF Inside, Written

(* The steps that bring no witness. *)
LEMMA InsideKept ==
  ASSUME Inside, \A k \in DOMAIN wits' : k \in DOMAIN wits /\ wits'[k] = wits[k],
         bwits' = bwits \/ bwits' = EmptyTable,
         ppc' = "scan" => ppc = "scan" /\ UNCHANGED <<blocks, batch, scan>>,
         Written' => Written /\ UNCHANGED <<blocks, batch, scan>>
  PROVE  Inside'
<1>1. \A n \in DOMAIN bwits' : LeafAt(bwits'[n].leaves, bwits'[n].pos, n)
  BY EmptyTableTyped DEF Inside
<1>2. ASSUME UNCHANGED <<blocks, batch, scan>>
      PROVE Passed' = Passed /\ BatchEnd' = BatchEnd
  <2>1. Synced' = Synced
    BY <1>2, SyncedKept
  <2> QED BY <1>2, <2>1 DEF Passed, InBlock, At, BatchEnd, EndOf, LastOf
<1> QED BY <1>1, <1>2 DEF Inside

LEMMA InsideStep ==
  ASSUME Placing, Inside, [Next]_vars
  PROVE  Inside'
<1>1. CASE ScanItem
  BY <1>1, InsideOfScan
<1>2. CASE EndBlock \/ Store
  BY <1>2, InsideOfBlock, InsideOfStore
<1>3. CASE LoadTree
  <2>1. /\ ppc' = "scan" /\ bwits' = StoredWitnesses /\ wits' = wits /\ scan'.new = EmptyTable
    BY <1>3, EmptyScanTyped DEF LoadTree, dbVars
  <2>2. \A n \in DOMAIN bwits' :
          <<n, SyncedHeight>> \in DOMAIN wits /\ bwits'[n] = wits[<<n, SyncedHeight>>]
    BY <2>1 DEF StoredWitnesses
  <2>3. \A n \in DOMAIN bwits' : LeafAt(bwits'[n].leaves, bwits'[n].pos, n)
    BY <2>2 DEF Inside
  <2>4. DOMAIN scan'.new = {}
    BY <2>1, EmptyTableTyped
  <2> QED BY <2>1, <2>3, <2>4 DEF Inside, Written
<1>4. CASE Commit
  <2>1. /\ ppc = "scan" /\ ppc' \in {"details", "store"}
        /\ UNCHANGED <<blocks, wits, batch, bwits, scan>> /\ scan.blk > Len(batch.blocks)
    BY <1>4 DEF Commit
  <2>2. IInv /\ ScanPlace /\ batch \in Batch
    BY <2>1, AllEndsTyped DEF Placing
  <2>3. ~InBlock
    <3>1. Len(batch.blocks) \in Nat /\ scan.blk \in Nat
      BY <2>2 DEF Batch, IInv, TInv, TypeOK, ScanTypes
    <3> QED BY <2>1, <3>1 DEF InBlock
  <2>4. Passed = Len(Leaves[BatchEnd])
    BY <2>1, <2>2, <2>3, ScanHasPassed
  <2>5. BatchEnd' = BatchEnd
    <3>1. Synced' = Synced
      BY <2>1, SyncedKept
    <3> QED BY <2>1, <3>1 DEF BatchEnd, EndOf, LastOf
  <2> QED BY <2>1, <2>4, <2>5 DEF Inside, Written
<1>5. CASE Finish
  <2>1. /\ bwits' = EmptyTable /\ ppc' = "done"
        /\ \A k \in DOMAIN wits' : k \in DOMAIN wits /\ wits'[k] = wits[k]
    <3>1. IInv
      BY DEF Placing
    <3> QED BY <1>5, <3>1, FinishEffect DEF Finish, ProcessorEnds
  <2> QED BY <2>1, InsideKept DEF Written
<1>6. CASE Server \/ Call \/ Downloader
  <2>1. /\ wits' = wits /\ blocks' = blocks
        /\ \/ UNCHANGED <<ppc, bwits, batch, scan>>
           \/ ppc' \in {"none", "open"} /\ bwits' \in {bwits, EmptyTable}
    BY <1>6 DEF Server, MineBlock, Reorg, Call, WarpStart, BeginPass, ConnectFail, Join, JoinPanic,
      Crash, CancelWarp, Die, ResetTasks, Downloader, TakeBlock, DetectReorg, StreamEnd,
      StreamShort, StreamError, Send, SendPanic, SendLast, dbVars, prVars
  <2> QED BY <2>1, InsideKept DEF Written
<1>7. CASE OpenDb \/ Recv \/ RecvClosed \/ ScanFail \/ DetailsOk \/ DetailsFail
  <2>1. /\ wits' = wits /\ blocks' = blocks /\ bwits' \in {bwits, EmptyTable}
        /\ \/ ppc' \in {"recv", "load", "finish", "done"}
           \/ ppc = "details" /\ ppc' = "store" /\ UNCHANGED <<batch, scan>>
    BY <1>7 DEF OpenDb, Recv, RecvClosed, ScanFail, DetailsOk, DetailsFail, ProcessorEnds, dbVars
  <2> QED BY <2>1, InsideKept DEF Written
<1>8. CASE UNCHANGED vars
  <2>1. UNCHANGED <<wits, blocks, bwits, ppc, batch, scan>>
    BY <1>8 DEF vars
  <2> QED BY <2>1, InsideKept DEF Written
<1> QED BY <1>1, <1>2, <1>3, <1>4, <1>5, <1>6, <1>7, <1>8 DEF Next, Processor, ScanItem
=============================================================================
