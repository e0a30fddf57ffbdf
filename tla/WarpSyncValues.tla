---------------------------- MODULE WarpSyncValues ----------------------------
(***************************************************************************)
(* The value of a transaction of an account is what it receives less what  *)
(* it spends of the account's notes, for every ledger and every bound:     *)
(* ValuesExact, which the balance and the history of an account rest on.   *)
(*                                                                         *)
(* The theorem assumes Untorn.  When a batch is torn between its two       *)
(* transactions, the values are committed and the resume point is not, and *)
(* the next sync adds the same amounts again (the run WarpReplay).         *)
(*                                                                         *)
(* The invariant follows the rows through the scan: at each place, they    *)
(* hold the sum of the leaves that the scan has passed and of the spends   *)
(* that its second pass over a block has debited.                          *)
(***************************************************************************)
EXTENDS WarpSyncNotes, Sums

(* The leaves of the chain of b that account a owns, those among the first *)
(* f that transaction t has created, and those that a spend of t in D      *)
(* reveals.                                                                *)
NfAt(b, p) == <<Leaves[b][p + 1], p>>
SpendOf(b, t, p) == [tx |-> t, nf |-> NfAt(b, p)]
Held(b, a) == {p \in 0..(Len(Leaves[b]) - 1) : Owner[Leaves[b][p + 1]] = a}
Got(b, t, a, f) == {p \in Held(b, a) : p < f /\ TxOf[Leaves[b][p + 1]] = t}
Gave(b, t, a, D) == {p \in Held(b, a) : SpendOf(b, t, p) \in D}

LeafValue(b) == [p \in Nat |-> Value[Leaves[b][p + 1]]]
Net(b, t, a, f, D) ==
  SumOf(LeafValue(b), Got(b, t, a, f)) - SumOf(LeafValue(b), Gave(b, t, a, D))

SpendsOn(b) == UNION {SpendsIn(a) : a \in Anc[b]}

(* table has the values of the transactions for the first f leaves of the  *)
(* chain of b and for the spends in D, and no row of any other transaction.*)
Keyed(b, k, t) == \E c \in Anc[b] : t \in TxsIn(c) /\ k = TxKey(c, t, k[3])
Values(table, b, f, D) ==
  /\ \A k \in DOMAIN table :
       Keyed(b, k, table[k].txid) /\ table[k].value = Net(b, table[k].txid, k[3], f, D)
  /\ \A t \in Tx, a \in Account :
       TxRows(table, t, a) = {} => Got(b, t, a, f) = {} /\ Gave(b, t, a, D) = {}

(* The spends that the second pass has come past. *)
Debited ==
  SpendsOn(Done) \cup
    (IF InBlock
       THEN {Spends[At][i] : i \in {j \in 1..NSpends(At) : j < scan.cur - NSpends(At) - NOuts(At)}}
       ELSE {})

(* The first pass has set aside the spends of our notes for the second,    *)
(* and a note is marked only for a spend that it has come past.            *)
MineHere ==
  InBlock => \A j \in 1..NSpends(At), p \in 0..(Len(Leaves[BatchEnd]) - 1) :
    j < scan.cur /\ Spends[At][j].nf = NfAt(BatchEnd, p)
      /\ Owner[Leaves[BatchEnd][p + 1]] \in Account => Spends[At][j].nf \in scan.mine
MarksSeen ==
  \A n \in DOMAIN scan.notes : scan.notes[n].spent \notin Unspoken => scan.notes[n].nf \in Seen

DbValues == Values(txs, DbTop, Len(Leaves[DbTop]), SpendsOn(DbTop))
ScanValues ==
  ppc = "scan" => Values(scan.txs, BatchEnd, Passed, Debited) /\ MineHere /\ MarksSeen

VInv == NInv({}) /\ Untorn /\ DbValues /\ ScanValues
-----------------------------------------------------------------------------
(* The sums *)

(* The leaves of an account are finitely many, of integer values.          *)
LEMMA HeldTyped ==
  ASSUME NEW b \in Block, NEW a
  PROVE  /\ IsFiniteSet(Held(b, a))
         /\ \A p \in Held(b, a) :
              /\ p \in Nat /\ p < Len(Leaves[b]) /\ Owner[Leaves[b][p + 1]] = a
              /\ LeafValue(b)[p] = Value[Leaves[b][p + 1]] /\ LeafValue(b)[p] \in Int
<1>1. Len(Leaves[b]) \in Nat
  BY CountsTyped
<1>2. IsFiniteSet(0..(Len(Leaves[b]) - 1))
  BY <1>1, FS_Interval
<1>3. Held(b, a) \subseteq 0..(Len(Leaves[b]) - 1)
  BY DEF Held
<1>4. IsFiniteSet(Held(b, a))
  BY <1>2, <1>3, FS_Subset
<1>5. ASSUME NEW p \in Held(b, a)
      PROVE /\ p \in Nat /\ p < Len(Leaves[b]) /\ Owner[Leaves[b][p + 1]] = a
            /\ LeafValue(b)[p] = Value[Leaves[b][p + 1]] /\ LeafValue(b)[p] \in Int
  <2>1. p \in Nat /\ p < Len(Leaves[b]) /\ Owner[Leaves[b][p + 1]] = a
    BY <1>1 DEF Held
  <2>2. LeafValue(b)[p] = Value[Leaves[b][p + 1]]
    BY <2>1 DEF LeafValue
  <2>3. Leaves[b][p + 1] \in Out
    <3>1. Leaves[b] \in Seq(Out) /\ p + 1 \in 1..Len(Leaves[b])
      BY <1>1, <2>1, LedgerTypes
    <3> QED BY <3>1
  <2>4. Value[Leaves[b][p + 1]] \in Nat
    BY <2>3, LedgerTypes
  <2> QED BY <2>1, <2>2, <2>4
<1> QED BY <1>4, <1>5

(* The parts of the leaves of an account are finite sets of integers.      *)
LEMMA PartTyped ==
  ASSUME NEW b \in Block, NEW a, NEW S, S \subseteq Held(b, a)
  PROVE  /\ IsFiniteSet(S) /\ \A p \in S : LeafValue(b)[p] \in Int
         /\ SumOf(LeafValue(b), S) \in Int
<1>1. IsFiniteSet(S) /\ \A p \in S : LeafValue(b)[p] \in Int
  BY HeldTyped, FS_Subset
<1> DEFINE v == LeafValue(b)
<1>2. SumOf(v, S) \in Int
  <2>1. \A p \in S : v[p] \in Int
    BY <1>1
  <2> HIDE DEF v
  <2> QED BY <1>1, <2>1, SumType
<1> QED BY <1>1, <1>2

(* The sums of a transaction are integers.                                 *)
LEMMA NetTyped ==
  ASSUME NEW b \in Block, NEW t, NEW a, NEW f, NEW D
  PROVE  /\ SumOf(LeafValue(b), Got(b, t, a, f)) \in Int
         /\ SumOf(LeafValue(b), Gave(b, t, a, D)) \in Int
         /\ Net(b, t, a, f, D) \in Int
<1>1. Got(b, t, a, f) \subseteq Held(b, a) /\ Gave(b, t, a, D) \subseteq Held(b, a)
  BY DEF Got, Gave
<1>2. /\ SumOf(LeafValue(b), Got(b, t, a, f)) \in Int
      /\ SumOf(LeafValue(b), Gave(b, t, a, D)) \in Int
  BY <1>1, PartTyped
<1> QED BY <1>2 DEF Net

(* The next leaf: what its transaction has got for its account.            *)
LEMMA GotNext ==
  ASSUME NEW b \in Block, NEW f \in Nat, f < Len(Leaves[b]), NEW g, g = f + 1, NEW t, NEW a
  PROVE  Got(b, t, a, g) =
           IF Owner[Leaves[b][g]] = a /\ TxOf[Leaves[b][g]] = t
             THEN Got(b, t, a, f) \cup {f} ELSE Got(b, t, a, f)
<1>1. Len(Leaves[b]) \in Nat
  BY CountsTyped
<1>2. f \in 0..(Len(Leaves[b]) - 1)
  BY <1>1
<1>3. \A p \in 0..(Len(Leaves[b]) - 1) : p < g <=> p < f \/ p = f
  OBVIOUS
<1>4. \A p : p \in Got(b, t, a, g) <=>
               \/ p \in Got(b, t, a, f)
               \/ p = f /\ Owner[Leaves[b][g]] = a /\ TxOf[Leaves[b][g]] = t
  <2> TAKE p
  <2>1. CASE p \in 0..(Len(Leaves[b]) - 1)
    BY <1>2, <1>3, <2>1 DEF Got, Held
  <2>2. CASE p \notin 0..(Len(Leaves[b]) - 1)
    BY <1>2, <2>2 DEF Got, Held
  <2> QED BY <2>1, <2>2
<1> QED BY <1>4

(* A leaf of another account or transaction adds nothing.                  *)
LEMMA GotElse ==
  ASSUME NEW b \in Block, NEW f \in Nat, f < Len(Leaves[b]), NEW g, g = f + 1, NEW t, NEW a,
         Owner[Leaves[b][g]] # a \/ TxOf[Leaves[b][g]] # t
  PROVE  Got(b, t, a, g) = Got(b, t, a, f)
BY GotNext

(* The next leaf adds its value to the transaction that creates it.        *)
LEMMA NetOfLeaf ==
  ASSUME NEW b \in Block, NEW f \in Nat, f < Len(Leaves[b]), NEW D
  PROVE  LET o == Leaves[b][f + 1] IN
         Net(b, TxOf[o], Owner[o], f + 1, D) = Net(b, TxOf[o], Owner[o], f, D) + Value[o]
<1> DEFINE o == Leaves[b][f + 1]
           v == LeafValue(b)
           S == Got(b, TxOf[o], Owner[o], f)
<1>1. Got(b, TxOf[o], Owner[o], f + 1) = S \cup {f}
  <2> DEFINE g == f + 1
  <2>1. g = f + 1 /\ o = Leaves[b][g]
    OBVIOUS
  <2> HIDE DEF g
  <2>2. Got(b, TxOf[o], Owner[o], g) = S \cup {f}
    BY <2>1, GotNext
  <2> QED BY <2>1, <2>2
<1>2. f \in Held(b, Owner[o])
  <2>1. Len(Leaves[b]) \in Nat
    BY CountsTyped
  <2>2. f \in 0..(Len(Leaves[b]) - 1)
    BY <2>1
  <2> QED BY <2>2 DEF Held
<1>3. S \subseteq Held(b, Owner[o])
  BY DEF Got
<1>4. f \notin S
  BY DEF Got
<1>5. IsFiniteSet(S) /\ \A p \in S \cup {f} : v[p] \in Int
  BY <1>2, <1>3, HeldTyped, PartTyped
<1>6. v[f] = Value[o] /\ v[f] \in Int
  BY <1>2, HeldTyped
<1>7. SumOf(v, S \cup {f}) = v[f] + SumOf(v, S)
  <2> HIDE DEF v, S
  <2> QED BY <1>4, <1>5, SumAdd
<1>8. SumOf(v, S) \in Int /\ SumOf(v, Gave(b, TxOf[o], Owner[o], D)) \in Int
  BY NetTyped
<1> HIDE DEF v, S
<1>9. SumOf(v, S \cup {f}) - SumOf(v, Gave(b, TxOf[o], Owner[o], D))
        = SumOf(v, S) - SumOf(v, Gave(b, TxOf[o], Owner[o], D)) + Value[o]
  BY <1>6, <1>7, <1>8
<1> QED BY <1>1, <1>9 DEF Net, v, S

(* One more spend: what its transaction gives of the account of its note.  *)
LEMMA NetOfSpend ==
  ASSUME NEW b \in Block, NEW t, NEW a, NEW f, NEW D, NEW p \in Held(b, a),
         NEW s, s = SpendOf(b, t, p), s \notin D
  PROVE  Net(b, t, a, f, D \cup {s}) = Net(b, t, a, f, D) - LeafValue(b)[p]
<1> DEFINE v == LeafValue(b)
           S == Gave(b, t, a, D)
<1>1. \A q \in Held(b, a) : s = SpendOf(b, t, q) <=> q = p
  BY DEF NfAt, SpendOf
<1>2. Gave(b, t, a, D \cup {s}) = S \cup {p}
  <2>1. \A q : q \in Gave(b, t, a, D \cup {s}) <=> q \in S \/ q = p
    BY <1>1 DEF Gave
  <2> QED BY <2>1
<1>3. S \subseteq Held(b, a) /\ p \notin S
  BY DEF Gave
<1>4. IsFiniteSet(S) /\ \A q \in S \cup {p} : v[q] \in Int
  BY <1>3, HeldTyped, PartTyped
<1>5. v[p] \in Int
  BY HeldTyped
<1>6. SumOf(v, S \cup {p}) = v[p] + SumOf(v, S)
  <2> HIDE DEF v, S
  <2> QED BY <1>3, <1>4, SumAdd
<1>7. SumOf(v, S) \in Int /\ SumOf(v, Got(b, t, a, f)) \in Int
  BY NetTyped
<1> HIDE DEF v, S
<1>8. SumOf(v, Got(b, t, a, f)) - SumOf(v, S \cup {p})
        = SumOf(v, Got(b, t, a, f)) - SumOf(v, S) - v[p]
  BY <1>5, <1>6, <1>7
<1> QED BY <1>2, <1>8 DEF Net, v, S

-----------------------------------------------------------------------------
(* The rows along a chain *)

(* A note that the chain of b spends is among the leaves of b. *)
LEMMA SpentIsOlder ==
  ASSUME NEW c \in Block, NEW b \in Anc[c], NEW s \in SpendsOn(b),
         NEW p \in Nat, p < Len(Leaves[c]), s.nf = NfAt(c, p)
  PROVE  p < Len(Leaves[b])
<1>1. s.nf \in Revealed(b)
  BY DEF SpendsOn, Revealed, NfsIn
<1>2. s.nf[1] = Leaves[c][p + 1] /\ s.nf[2] = p
  BY DEF NfAt
<1>3. PICK a \in Anc[b] \ {Genesis} : p < Len(Leaves[Parent[a]])
  <2>1. \E a \in Anc[b] \ {Genesis} : s.nf[2] < Len(Leaves[Parent[a]])
    BY <1>1, <1>2, RevealedIsOld
  <2> QED BY <1>2, <2>1
<1>4. b \in Block /\ a \in Block
  BY <1>3, Ancestor
<1>5. Parent[a] \in Block /\ Parent[a] \in Anc[b]
  BY <1>3, <1>4, ParentIsAncestor, Ancestor
<1>6. Len(Leaves[Parent[a]]) <= Len(Leaves[b])
  BY <1>4, <1>5, LedgerLeaves
<1> QED BY <1>3, <1>4, <1>5, <1>6, CountsTyped

(* What the chain of b says of its leaves and spends, every chain says     *)
(* that b is on.                                                           *)
LEMMA NetKept ==
  ASSUME NEW c \in Block, NEW b \in Anc[c], NEW f \in Nat, f <= Len(Leaves[b]),
         NEW D, D \subseteq SpendsOn(b), NEW t, NEW a
  PROVE  /\ Got(c, t, a, f) = Got(b, t, a, f) /\ Gave(c, t, a, D) = Gave(b, t, a, D)
         /\ Net(c, t, a, f, D) = Net(b, t, a, f, D)
<1>1. b \in Block /\ Len(Leaves[b]) \in Nat /\ Len(Leaves[c]) \in Nat
  BY Ancestor, CountsTyped
<1>2. ASSUME NEW p \in Nat, p < Len(Leaves[b])
      PROVE p < Len(Leaves[c]) /\ Leaves[c][p + 1] = Leaves[b][p + 1] /\ NfAt(c, p) = NfAt(b, p)
            /\ (p \in Held(c, a) <=> p \in Held(b, a))
  <2>1. p < Len(Leaves[c]) /\ Leaves[c][p + 1] = Leaves[b][p + 1]
    BY <1>1, <1>2, LeafKept
  <2>2. p \in 0..(Len(Leaves[c]) - 1) /\ p \in 0..(Len(Leaves[b]) - 1)
    BY <1>1, <1>2, <2>1
  <2> QED BY <2>1, <2>2 DEF Held, NfAt
<1>3. \A p \in Held(b, a) : p \in Nat /\ p < Len(Leaves[b])
  BY <1>1, HeldTyped
<1>4. \A p \in Held(c, a) : p \in Nat /\ p < Len(Leaves[c])
  BY HeldTyped
<1>5. Got(c, t, a, f) = Got(b, t, a, f)
  <2>1. ASSUME NEW p PROVE p \in Got(c, t, a, f) <=> p \in Got(b, t, a, f)
    <3>1. p \in Got(c, t, a, f) => p \in Nat /\ p < Len(Leaves[b])
      <4>1. p \in Got(c, t, a, f) => p \in Held(c, a) /\ p < f
        BY DEF Got
      <4> QED BY <1>1, <1>4, <4>1
    <3>2. p \in Got(b, t, a, f) => p \in Nat /\ p < Len(Leaves[b])
      BY <1>3 DEF Got
    <3> QED BY <1>2, <3>1, <3>2 DEF Got
  <2> QED BY <2>1
<1>6. Gave(c, t, a, D) = Gave(b, t, a, D)
  <2>1. ASSUME NEW p PROVE p \in Gave(c, t, a, D) <=> p \in Gave(b, t, a, D)
    <3>1. ASSUME p \in Gave(c, t, a, D) PROVE p \in Nat /\ p < Len(Leaves[b])
      <4>1. p \in Held(c, a) /\ SpendOf(c, t, p) \in SpendsOn(b)
        BY <3>1 DEF Gave
      <4>2. p \in Nat /\ p < Len(Leaves[c])
        BY <1>4, <4>1
      <4>3. SpendOf(c, t, p).nf = NfAt(c, p)
        BY DEF SpendOf
      <4> QED BY <4>1, <4>2, <4>3, SpentIsOlder
    <3>2. p \in Gave(b, t, a, D) => p \in Nat /\ p < Len(Leaves[b])
      BY <1>3 DEF Gave
    <3> QED BY <1>2, <3>1, <3>2 DEF Gave, SpendOf
  <2> QED BY <2>1
<1>7. ASSUME NEW S, S \subseteq Held(b, a)
      PROVE SumOf(LeafValue(c), S) = SumOf(LeafValue(b), S)
  <2>1. IsFiniteSet(S)
    BY <1>1, <1>7, PartTyped
  <2>2. \A p \in S : LeafValue(c)[p] = LeafValue(b)[p]
    BY <1>2, <1>3, <1>7 DEF LeafValue
  <2> QED BY <2>1, <2>2, SumSame
<1>8. Got(b, t, a, f) \subseteq Held(b, a) /\ Gave(b, t, a, D) \subseteq Held(b, a)
  BY DEF Got, Gave
<1>9. Net(c, t, a, f, D) = Net(b, t, a, f, D)
  <2>1. /\ SumOf(LeafValue(c), Got(b, t, a, f)) = SumOf(LeafValue(b), Got(b, t, a, f))
        /\ SumOf(LeafValue(c), Gave(b, t, a, D)) = SumOf(LeafValue(b), Gave(b, t, a, D))
    BY <1>7, <1>8
  <2> QED BY <1>5, <1>6, <2>1 DEF Net
<1> QED BY <1>5, <1>6, <1>9

(* The values for a block are those for a later block of its chain.        *)
LEMMA ValuesKept ==
  ASSUME NEW c \in Block, NEW b \in Anc[c], NEW f \in Nat, f <= Len(Leaves[b]),
         NEW D, D \subseteq SpendsOn(b), NEW table, Values(table, b, f, D)
  PROVE  Values(table, c, f, D)
<1>1. \A t, a : /\ Got(c, t, a, f) = Got(b, t, a, f) /\ Gave(c, t, a, D) = Gave(b, t, a, D)
                /\ Net(c, t, a, f, D) = Net(b, t, a, f, D)
  BY NetKept
<1>2. Anc[b] \subseteq Anc[c]
  BY Ancestor
<1>3. \A k \in DOMAIN table :
        Keyed(c, k, table[k].txid) /\ table[k].value = Net(c, table[k].txid, k[3], f, D)
  BY <1>1, <1>2 DEF Values, Keyed
<1>4. \A t \in Tx, a \in Account :
        TxRows(table, t, a) = {} => Got(c, t, a, f) = {} /\ Gave(c, t, a, D) = {}
  BY <1>1 DEF Values
<1> QED BY <1>3, <1>4 DEF Values

(* The row of a transaction of block b is the one with its key, new or     *)
(* not: the chain has the transaction in no other block.                   *)
LEMMA RowIsKey ==
  ASSUME NEW e \in Block, NEW b \in Anc[e], NEW t, t \in TxsIn(b), NEW a, NEW k,
         Keyed(e, k, t), k[3] = a
  PROVE  k = TxKey(b, t, a)
<1>1. PICK c \in Anc[e] : t \in TxsIn(c) /\ k = TxKey(c, t, k[3])
  BY DEF Keyed
<1>2. c = b
  BY <1>1, LedgerTransactions
<1> QED BY <1>1, <1>2

RowStored(u, table, row, b, t, a) ==
  /\ row = TxKey(b, t, a) /\ row[3] = a
  /\ DOMAIN u = DOMAIN table \cup {row} /\ u[row].txid = t
  /\ \A k \in DOMAIN table : u[k] = table[k]
  /\ IsTable(u, TxId, TxRow)
Revalued(w, u, row, z) == w = [u EXCEPT ![row].value = z]
SameElse(e, t, a, f, D, g, E) ==
  \A x, y : x # t \/ y # a =>
    Got(e, x, y, g) = Got(e, x, y, f) /\ Gave(e, x, y, E) = Gave(e, x, y, D)

(* store_transaction adds a row of value 0, or finds the one there.        *)
LEMMA StoredRow ==
  ASSUME NEW e \in Block, NEW b \in Anc[e], NEW t \in Tx, t \in TxsIn(b), NEW a \in Account,
         IsTable(scan.txs, TxId, TxRow), NEW f, NEW D, Values(scan.txs, e, f, D),
         NEW row \in TxRows(StoreTransaction(b, t, a), t, a)
  PROVE  /\ RowStored(StoreTransaction(b, t, a), scan.txs, row, b, t, a)
         /\ StoreTransaction(b, t, a)[row].value = Net(e, t, a, f, D)
<1> DEFINE u == StoreTransaction(b, t, a)
           key == TxKey(b, t, a)
<1>1. /\ DOMAIN u = DOMAIN scan.txs \cup {key}
      /\ \A k \in DOMAIN scan.txs : u[k] = scan.txs[k]
      /\ key \notin DOMAIN scan.txs => u[key] = [txid |-> t, value |-> 0]
  BY DEF StoreTransaction, Insert, InsertAll
<1>2. key[3] = a
  BY DEF TxKey
<1>3. row \in DOMAIN u /\ row[3] = a /\ u[row].txid = t
  BY DEF TxRows
<1>4. ASSUME NEW k \in TxRows(scan.txs, t, a) PROVE k = key
  <2>1. k \in DOMAIN scan.txs /\ k[3] = a /\ scan.txs[k].txid = t
    BY <1>4 DEF TxRows
  <2>2. Keyed(e, k, t)
    BY <2>1 DEF Values
  <2> QED BY <2>1, <2>2, RowIsKey
<1>5. row = key
  <2>1. CASE row \in DOMAIN scan.txs
    <3>1. row \in TxRows(scan.txs, t, a)
      BY <1>1, <1>3, <2>1 DEF TxRows
    <3> QED BY <1>4, <3>1
  <2>2. CASE row \notin DOMAIN scan.txs
    BY <1>1, <1>3, <2>2
  <2> QED BY <2>1, <2>2
<1>6. IsTable(u, TxId, TxRow)
  <2>1. TxKey(b, t, a) \in TxId
    <3>1. b \in Block
      BY Ancestor
    <3> QED BY <3>1, LedgerTypes DEF TxKey, TxId
  <2> QED BY <2>1, TxStored
<1>7. u[row].value = Net(e, t, a, f, D)
  <2>1. CASE row \in DOMAIN scan.txs
    BY <1>1, <1>3, <2>1 DEF Values
  <2>2. CASE row \notin DOMAIN scan.txs
    <3>1. TxRows(scan.txs, t, a) = {}
      BY <1>4, <1>5, <2>2 DEF TxRows
    <3>2. Got(e, t, a, f) = {} /\ Gave(e, t, a, D) = {}
      BY <3>1 DEF Values
    <3>3. Net(e, t, a, f, D) = 0
      BY <3>2, SumEmpty DEF Net
    <3>4. u[row].value = 0
      BY <1>1, <1>5, <2>2
    <3> QED BY <3>3, <3>4
  <2> QED BY <2>1, <2>2
<1> HIDE DEF u, key
<1>8. /\ row = key /\ row[3] = a
      /\ DOMAIN u = DOMAIN scan.txs \cup {row} /\ u[row].txid = t
      /\ \A k \in DOMAIN scan.txs : u[k] = scan.txs[k]
      /\ IsTable(u, TxId, TxRow)
      /\ u[row].value = Net(e, t, a, f, D)
  BY <1>1, <1>3, <1>5, <1>6, <1>7
<1> QED BY <1>8 DEF u, key, RowStored

(* The scan of an item changes the value of the row of its transaction.    *)
LEMMA ValuesMoved ==
  ASSUME NEW e \in Block, NEW b \in Anc[e], NEW t \in Tx, t \in TxsIn(b), NEW a \in Account,
         NEW table, NEW f, NEW D, Values(table, e, f, D),
         NEW row, NEW u, RowStored(u, table, row, b, t, a),
         NEW g, NEW E, NEW w, Revalued(w, u, row, Net(e, t, a, g, E)),
         SameElse(e, t, a, f, D, g, E)
  PROVE  Values(w, e, g, E)
<1>1. /\ row = TxKey(b, t, a) /\ row[3] = a
      /\ DOMAIN u = DOMAIN table \cup {row} /\ u[row].txid = t
      /\ \A k \in DOMAIN table : u[k] = table[k]
      /\ IsTable(u, TxId, TxRow)
  BY DEF RowStored
<1>2. w = [u EXCEPT ![row].value = Net(e, t, a, g, E)]
  BY DEF Revalued
<1>3. \A k \in DOMAIN u : u[k] \in TxRow
  BY <1>1 DEF IsTable
<1>4. /\ DOMAIN w = DOMAIN u
      /\ \A k \in DOMAIN u : w[k].txid = u[k].txid
      /\ \A k \in DOMAIN u : k # row => w[k].value = u[k].value
      /\ w[row].value = Net(e, t, a, g, E)
  <2>1. row \in DOMAIN u
    BY <1>1
  <2> QED BY <1>2, <1>3, <2>1 DEF TxRow
<1>5. ASSUME NEW k \in DOMAIN w
      PROVE  Keyed(e, k, w[k].txid) /\ w[k].value = Net(e, w[k].txid, k[3], g, E)
  <2>1. CASE k = row
    BY <1>1, <1>4, <2>1 DEF Keyed
  <2>2. CASE k # row
    <3>1. k \in DOMAIN table /\ w[k].txid = table[k].txid /\ w[k].value = table[k].value
      BY <1>1, <1>4, <1>5, <2>2
    <3>2. Keyed(e, k, w[k].txid) /\ w[k].value = Net(e, w[k].txid, k[3], f, D)
      BY <3>1 DEF Values
    <3>3. w[k].txid # t \/ k[3] # a
      BY <1>1, <2>2, <3>2, RowIsKey
    <3>4. Net(e, w[k].txid, k[3], g, E) = Net(e, w[k].txid, k[3], f, D)
      BY <3>3 DEF Net, SameElse
    <3> QED BY <3>2, <3>4
  <2> QED BY <2>1, <2>2
<1>6. ASSUME NEW x \in Tx, NEW y \in Account, TxRows(w, x, y) = {}
      PROVE  Got(e, x, y, g) = {} /\ Gave(e, x, y, E) = {}
  <2>1. x # t \/ y # a
    <3>1. row \in TxRows(w, t, a)
      BY <1>1, <1>4 DEF TxRows
    <3> QED BY <1>6, <3>1
  <2>2. TxRows(table, x, y) = {}
    <3>1. \A k \in DOMAIN table : k \in DOMAIN w /\ w[k].txid = table[k].txid
      BY <1>1, <1>4
    <3> QED BY <1>6, <3>1 DEF TxRows
  <2>3. Got(e, x, y, f) = {} /\ Gave(e, x, y, D) = {}
    BY <2>2 DEF Values
  <2> QED BY <2>1, <2>3 DEF SameElse
<1> QED BY <1>5, <1>6 DEF Values

(* An item that is of no account changes nothing.                          *)
LEMMA ValuesSame ==
  ASSUME NEW e, NEW table, IsTable(table, TxId, TxRow), NEW f, NEW D, Values(table, e, f, D),
         NEW g, NEW E,
         \A x \in Tx, y \in Account :
           Got(e, x, y, g) = Got(e, x, y, f) /\ Gave(e, x, y, E) = Gave(e, x, y, D)
  PROVE  Values(table, e, g, E)
<1>1. \A k \in DOMAIN table : table[k].txid \in Tx /\ k[3] \in Account
  BY DEF IsTable, TxId, TxRow
<1>2. ASSUME NEW k \in DOMAIN table
      PROVE  Net(e, table[k].txid, k[3], g, E) = Net(e, table[k].txid, k[3], f, D)
  BY <1>1 DEF Net
<1> QED BY <1>2 DEF Values

-----------------------------------------------------------------------------
(* The second pass over the spends of a block *)

(* What a place of the first pass reads is a spend of the block.           *)
LEMMA SpendTypedAt ==
  ASSUME NEW b \in Block, NEW i \in 1..NSpends(b)
  PROVE  Spends[b][i] \in SpendsIn(b) /\ Spends[b][i] \in Spend
<1>1. Spends[b] \in Seq(Spend) /\ i \in 1..Len(Spends[b])
  BY LedgerTypes DEF NSpends
<1> QED BY <1>1 DEF SpendsIn

(* A block is not among the ancestors of its parent.                       *)
LEMMA NotBefore ==
  ASSUME NEW b \in Block, b # Genesis
  PROVE  b \notin Anc[Parent[b]]
<1>1. Parent[b] \in Block /\ Height[b] = Height[Parent[b]] + 1
  BY Child
<1>2. Height[Parent[b]] \in Nat
  BY <1>1, LedgerTypes
<1>3. b \in Anc[Parent[b]] => Height[b] <= Height[Parent[b]]
  BY <1>1, Ancestor
<1> QED BY <1>1, <1>2, <1>3

(* A chain adds the spends of its last block to those of its parent.       *)
LEMMA SpendsStep ==
  ASSUME NEW b \in Block, b # Genesis
  PROVE  /\ SpendsOn(b) = SpendsOn(Parent[b]) \cup SpendsIn(b)
         /\ \A s \in SpendsIn(b) : s.nf \notin Revealed(Parent[b])
<1>1. Anc[b] = Anc[Parent[b]] \cup {b}
  BY Child
<1>2. SpendsOn(b) = SpendsOn(Parent[b]) \cup SpendsIn(b)
  BY <1>1 DEF SpendsOn
<1>3. ASSUME NEW s \in SpendsIn(b), s.nf \in Revealed(Parent[b]) PROVE FALSE
  <2>1. PICK a \in Anc[Parent[b]] : s.nf \in NfsIn(a)
    BY <1>3 DEF Revealed
  <2>2. PICK z \in SpendsIn(a) : s.nf = z.nf
    BY <2>1 DEF NfsIn
  <2>3. a \in Anc[b] /\ b \in Anc[b]
    BY <1>1, <2>1
  <2>4. a = b
    BY <1>3, <2>2, <2>3, LedgerSpends
  <2> QED BY <2>1, <2>4, NotBefore
<1> QED BY <1>2, <1>3

(* When a block is done, its spends and those before it are debited.       *)
LEMMA DebitedIs ==
  ASSUME IInv, ppc = "scan", ScanPlace
  PROVE  /\ ~InBlock => Debited = SpendsOn(BatchEnd)
         /\ InBlock /\ scan.cur > 2 * NSpends(At) + NOuts(At) => Debited = SpendsOn(At)
<1>1. /\ InBlock => At \in Block \ {Genesis} /\ Parent[At] = Done
      /\ ~InBlock => Done = BatchEnd
  BY ScanIsAt
<1>2. ~InBlock => Debited = SpendsOn(BatchEnd)
  BY <1>1 DEF Debited
<1>3. ASSUME InBlock, scan.cur > 2 * NSpends(At) + NOuts(At) PROVE Debited = SpendsOn(At)
  <2>1. NSpends(At) \in Nat /\ NOuts(At) \in Nat /\ scan.cur \in Nat
    BY <1>1, <1>3, CountsTyped DEF ScanPlace
  <2>2. \A j \in 1..NSpends(At) : j < scan.cur - NSpends(At) - NOuts(At)
    BY <1>3, <2>1
  <2>3. {Spends[At][i] : i \in {j \in 1..NSpends(At) : j < scan.cur - NSpends(At) - NOuts(At)}}
          = SpendsIn(At)
    BY <2>2 DEF SpendsIn, NSpends
  <2>4. SpendsOn(At) = SpendsOn(Done) \cup SpendsIn(At)
    BY <1>1, <1>3, SpendsStep
  <2> QED BY <1>3, <2>3, <2>4 DEF Debited
<1> QED BY <1>2, <1>3

(* The second pass debits one spend with each step, the first none.        *)
LEMMA DebitedNext ==
  ASSUME IInv, ppc = "scan", ScanPlace, InBlock, UNCHANGED <<blocks, batch>>,
         scan'.blk = scan.blk, scan'.pos = scan.pos, scan'.cur = scan.cur + 1
  PROVE  /\ scan.cur \in 1..NSpends(At) \/ scan.cur - NSpends(At) \in 1..NOuts(At) =>
              Debited' = Debited
         /\ scan.cur - NSpends(At) - NOuts(At) \in 1..NSpends(At) =>
              Debited' = Debited \cup {Debit(At)} /\ Debit(At) \notin Debited
<1>1. Synced' = Synced /\ At' = At /\ Done' = Done /\ InBlock'
  <2>1. Synced' = Synced
    BY SyncedKept
  <2> QED BY <2>1 DEF At, Done, InBlock
<1>2. At \in Block \ {Genesis} /\ Parent[At] = Done
  BY ScanIsAt
<1>3. NSpends(At) \in Nat /\ NOuts(At) \in Nat /\ scan.cur \in Nat \ {0}
  BY <1>2, CountsTyped DEF ScanPlace
<1> DEFINE i == scan.cur - NSpends(At) - NOuts(At)
           Before(n) == {j \in 1..NSpends(At) : j < n}
           Of(S) == {Spends[At][j] : j \in S}
<1>4. i \in Int /\ scan.cur + 1 - NSpends(At) - NOuts(At) = i + 1
  BY <1>3
<1>5. Debited = SpendsOn(Done) \cup Of(Before(i))
  BY DEF Debited
<1>6. Debited' = SpendsOn(Done) \cup Of(Before(i + 1))
  <2>1. Debited' = SpendsOn(Done') \cup
                  Of({k \in 1..NSpends(At') : k < scan'.cur - NSpends(At') - NOuts(At')})
    BY <1>1 DEF Debited
  <2>2. scan'.cur - NSpends(At') - NOuts(At') = i + 1
    BY <1>1, <1>3
  <2> HIDE DEF i, Of
  <2> QED BY <1>1, <2>1, <2>2
<1>7. ASSUME scan.cur \in 1..NSpends(At) \/ scan.cur - NSpends(At) \in 1..NOuts(At)
      PROVE Debited' = Debited
  <2>1. i < 1 /\ i + 1 <= 1
    BY <1>3, <1>7
  <2>2. Before(i) = {} /\ Before(i + 1) = {}
    BY <1>3, <1>4, <2>1
  <2> QED BY <1>5, <1>6, <2>2
<1>8. ASSUME i \in 1..NSpends(At)
      PROVE Debited' = Debited \cup {Debit(At)} /\ Debit(At) \notin Debited
  <2>1. Debit(At) = Spends[At][i]
    BY DEF Debit
  <2>2. Before(i + 1) = Before(i) \cup {i}
    BY <1>3, <1>8
  <2>3. Debited' = Debited \cup {Debit(At)}
    <3> HIDE DEF Before, i
    <3> QED BY <1>5, <1>6, <2>1, <2>2
  <2>4. Debit(At) \in SpendsIn(At)
    BY <1>2, <1>8, <2>1, SpendTypedAt
  <2>5. Debit(At) \notin SpendsOn(Done)
    <3> SUFFICES ASSUME Debit(At) \in SpendsOn(Done) PROVE FALSE
      OBVIOUS
    <3>1. Debit(At).nf \in Revealed(Done)
      BY DEF SpendsOn, Revealed, NfsIn
    <3> QED BY <1>2, <2>4, <3>1, SpendsStep
  <2>6. ASSUME NEW j \in Before(i) PROVE Spends[At][j] # Debit(At)
    <3>1. j \in 1..Len(Spends[At]) /\ i \in 1..Len(Spends[At]) /\ j # i
      BY <1>8, <2>6 DEF NSpends
    <3> HIDE DEF i
    <3> QED BY <1>2, <2>1, <3>1, LedgerTransactions
  <2> QED BY <1>5, <2>3, <2>5, <2>6
<1> QED BY <1>7, <1>8

(* Going on to the next block debits nothing.                              *)
LEMMA DebitedLeaves ==
  ASSUME IInv, ppc = "scan", ScanPlace, InBlock, UNCHANGED <<blocks, batch>>,
         scan.cur > 2 * NSpends(At) + NOuts(At), scan'.blk = scan.blk + 1, scan'.cur = 1
  PROVE  Debited' = Debited
<1>1. Debited = SpendsOn(At)
  BY DebitedIs
<1>2. scan.blk \in 1..Len(batch.blocks) /\ Len(batch.blocks) \in Nat /\ batch.blocks \in Seq(Block)
  <2>1. batch.blocks \in Seq(Block)
    BY AllEndsTyped DEF Batch
  <2> QED BY <2>1 DEF ScanPlace, InBlock
<1>3. Done' = At
  BY <1>2 DEF Done, At
<1>4. InBlock' => At' \in Block
  <2>1. InBlock' => scan.blk + 1 \in 1..Len(batch.blocks)
    BY <1>2 DEF InBlock
  <2> QED BY <1>2, <2>1 DEF At
<1>5. InBlock' => {j \in 1..NSpends(At') : j < 1 - NSpends(At') - NOuts(At')} = {}
  BY <1>4, CountsTyped
<1>6. Debited' = SpendsOn(At) \cup
        (IF InBlock'
           THEN {Spends[At'][i] : i \in {j \in 1..NSpends(At') : j < 1 - NSpends(At') - NOuts(At')}}
           ELSE {})
  BY <1>3 DEF Debited, NSpends, NOuts
<1> QED BY <1>1, <1>5, <1>6

-----------------------------------------------------------------------------
(* The steps of the scan *)

(* What a step of the scan starts from. *)
LEMMA ValuesContext ==
  ASSUME VInv, ppc = "scan"
  PROVE  /\ IInv /\ ScanPlace /\ Untorn /\ NInv({})
         /\ IsTable(scan.notes, NoteId, NoteRow) /\ IsTable(scan.txs, TxId, TxRow)
         /\ IsTable(nfs, Nf, NoteId)
         /\ Tracks(scan.notes, scan.txs, nfs, BatchEnd, BatchEnd, Passed, Seen, {})
         /\ BatchEnd \in Block /\ BatchEnd \in Anc[BatchEnd]
         /\ Passed \in Nat /\ Len(Leaves[BatchEnd]) \in Nat
         /\ scan = [blk |-> scan.blk, cur |-> scan.cur, pos |-> scan.pos, mine |-> scan.mine,
                    found |-> scan.found, new |-> scan.new, notes |-> scan.notes,
                    txs |-> scan.txs]
         /\ Values(scan.txs, BatchEnd, Passed, Debited) /\ MineHere /\ MarksSeen
<1>1. NInv({}) /\ Untorn
  BY DEF VInv
<1>2. /\ IInv /\ ScanPlace /\ ScanRows({})
      /\ IsTable(scan.notes, NoteId, NoteRow) /\ IsTable(scan.txs, TxId, TxRow)
      /\ IsTable(nfs, Nf, NoteId)
      /\ BatchEnd \in Block /\ BatchEnd \in Anc[ScanTop]
      /\ Passed \in Nat
      /\ scan = [blk |-> scan.blk, cur |-> scan.cur, pos |-> scan.pos, mine |-> scan.mine,
                 found |-> scan.found, new |-> scan.new, notes |-> scan.notes,
                 txs |-> scan.txs]
  BY <1>1, ScanContext
<1>3. ScanTop = BatchEnd
  BY <1>1 DEF ScanTop
<1>4. Tracks(scan.notes, scan.txs, nfs, BatchEnd, BatchEnd, Passed, Seen, {})
  BY <1>2, <1>3 DEF ScanRows
<1>5. Values(scan.txs, BatchEnd, Passed, Debited) /\ MineHere /\ MarksSeen
  BY DEF VInv, ScanValues
<1> QED BY <1>1, <1>2, <1>3, <1>4, <1>5, CountsTyped

(* A spend of a note of ours is one that the processor watches for when it *)
(* comes to it: the scan has passed the note, and no other spend of it.    *)
LEMMA SpendWatched ==
  ASSUME VInv, ppc = "scan", InBlock, scan.cur \in 1..NSpends(At),
         NEW p \in 0..(Len(Leaves[BatchEnd]) - 1),
         Spends[At][scan.cur].nf = NfAt(BatchEnd, p), Owner[Leaves[BatchEnd][p + 1]] \in Account
  PROVE  Spends[At][scan.cur].nf \in DOMAIN nfs
<1> DEFINE s == Spends[At][scan.cur]
<1>1. /\ IInv /\ ScanPlace /\ BatchEnd \in Block /\ Passed \in Nat
      /\ Len(Leaves[BatchEnd]) \in Nat /\ MarksSeen
      /\ Tracks(scan.notes, scan.txs, nfs, BatchEnd, BatchEnd, Passed, Seen, {})
  BY ValuesContext
<1>2. At \in Block \ {Genesis} /\ At \in Anc[BatchEnd] /\ Parent[At] = Done
  BY <1>1, ScanIsAt
<1>3. s \in SpendsIn(At)
  BY <1>2, SpendTypedAt
<1>4. p \in Nat /\ p < Len(Leaves[BatchEnd])
  BY <1>1
<1>5. s.nf[1] = Leaves[BatchEnd][p + 1] /\ s.nf[2] = p
  BY DEF NfAt
<1>6. p < Len(Leaves[Done])
  BY <1>1, <1>2, <1>3, <1>4, <1>5, LedgerSpends
<1>7. Passed = Len(Leaves[Done])
  <2>1. scan.cur <= NSpends(At)
    BY <1>2, CountsTyped
  <2> QED BY <1>1, <2>1 DEF Passed, ScanPlace
<1>8. PICK n \in DOMAIN scan.notes : scan.notes[n].nf = s.nf
  <2>1. p \in 0..(Passed - 1)
    BY <1>1, <1>4, <1>6, <1>7
  <2>2. Complete(scan.notes, BatchEnd, Passed, Seen, {})
    BY <1>1 DEF Tracks
  <2>3. \E n \in DOMAIN scan.notes : scan.notes[n].nf = <<Leaves[BatchEnd][p + 1], p>>
    BY <2>1, <2>2 DEF Complete
  <2> QED BY <2>3 DEF NfAt
<1>9. scan.notes[n].spent \in Unspoken
  <2> SUFFICES ASSUME s.nf \in Seen PROVE FALSE
    BY <1>1, <1>8 DEF MarksSeen
  <2>1. s.nf \notin Revealed(Done)
    BY <1>2, <1>3, SpendsStep
  <2>2. PICK i \in 1..NSpends(At) : i < scan.cur /\ Spends[At][i].nf = s.nf
    BY <2>1 DEF Seen
  <2>3. i \in 1..Len(Spends[At]) /\ scan.cur \in 1..Len(Spends[At])
    BY DEF NSpends
  <2>4. i = scan.cur
    BY <1>2, <2>2, <2>3, LedgerTransactions
  <2> QED BY <2>2, <2>4, CountsTyped
<1> QED BY <1>1, <1>8, <1>9 DEF Tracks, Watches

(* A step of the scan within a block, in what it does to the marks.        *)
LEMMA MineAdvances ==
  ASSUME VInv, ppc = "scan", InBlock, UNCHANGED <<blocks, batch>>,
         scan'.blk = scan.blk, scan'.pos = scan.pos, scan'.cur = scan.cur + 1,
         scan.mine \subseteq scan'.mine,
         scan.cur \in 1..NSpends(At) /\ Spends[At][scan.cur].nf \in DOMAIN nfs =>
           Spends[At][scan.cur].nf \in scan'.mine
  PROVE  MineHere'
<1>1. /\ IInv /\ ScanPlace /\ BatchEnd \in Block /\ Len(Leaves[BatchEnd]) \in Nat /\ MineHere
  BY ValuesContext
<1>2. Synced' = Synced /\ At' = At /\ BatchEnd' = BatchEnd /\ InBlock'
  <2>1. Synced' = Synced
    BY SyncedKept
  <2> QED BY <2>1 DEF At, BatchEnd, EndOf, LastOf, InBlock
<1>3. At \in Block /\ scan.cur \in Nat \ {0} /\ NSpends(At) \in Nat
  BY <1>1, ScanIsAt, CountsTyped DEF ScanPlace
<1>4. ASSUME NEW j \in 1..NSpends(At), NEW p \in 0..(Len(Leaves[BatchEnd]) - 1),
             j < scan.cur + 1, Spends[At][j].nf = NfAt(BatchEnd, p),
             Owner[Leaves[BatchEnd][p + 1]] \in Account
      PROVE  Spends[At][j].nf \in scan'.mine
  <2>1. CASE j < scan.cur
    BY <1>1, <1>4, <2>1 DEF MineHere
  <2>2. CASE j = scan.cur
    BY <1>4, <2>2, SpendWatched
  <2> QED BY <1>3, <1>4, <2>1, <2>2
<1> QED BY <1>2, <1>4 DEF MineHere

(* MarksSeen is kept when the notes are.                                   *)
LEMMA MarksKept ==
  ASSUME MarksSeen, scan'.notes = scan.notes, Seen \subseteq Seen'
  PROVE  MarksSeen'
  BY DEF MarksSeen

(* A spend in the first pass changes no value.                             *)
LEMMA ValuesOfSpend ==
  ASSUME VInv, ScanSpend
  PROVE  ScanValues'
<1>0. PICK b \in Block :
        /\ Scanning(b) /\ scan.cur \in 1..NSpends(b)
        /\ LET nf == Spends[b][scan.cur].nf IN
           IF nf \in DOMAIN nfs
             THEN /\ scan' = [scan EXCEPT !.cur = @ + 1, !.mine = @ \cup {nf},
                        !.notes = [n \in DOMAIN @ |->
                           IF n = nfs[nf] THEN [@[n] EXCEPT !.spent = Height[b]] ELSE @[n]]]
                  /\ nfs' = Restrict(nfs, DOMAIN nfs \ {nf})
             ELSE scan' = [scan EXCEPT !.cur = @ + 1] /\ UNCHANGED nfs
  BY DEF ScanSpend
<1> DEFINE nf == Spends[b][scan.cur].nf
           u == [n \in DOMAIN scan.notes |->
                   IF n = nfs[nf] THEN [scan.notes[n] EXCEPT !.spent = Height[b]] ELSE scan.notes[n]]
<1>1. ppc = "scan" /\ InBlock /\ b = At /\ UNCHANGED <<blocks, batch>>
  BY <1>0 DEF Scanning, InBlock, At, ScanSpend, dbVars
<1>2. /\ IInv /\ ScanPlace /\ IsTable(scan.notes, NoteId, NoteRow)
      /\ Tracks(scan.notes, scan.txs, nfs, BatchEnd, BatchEnd, Passed, Seen, {})
      /\ scan = [blk |-> scan.blk, cur |-> scan.cur, pos |-> scan.pos, mine |-> scan.mine,
                 found |-> scan.found, new |-> scan.new, notes |-> scan.notes,
                 txs |-> scan.txs]
      /\ Values(scan.txs, BatchEnd, Passed, Debited) /\ MarksSeen
  BY <1>1, ValuesContext
<1>3. /\ scan'.blk = scan.blk /\ scan'.pos = scan.pos /\ scan'.cur = scan.cur + 1
      /\ scan'.txs = scan.txs /\ scan.mine \subseteq scan'.mine
      /\ nf \in DOMAIN nfs => nf \in scan'.mine /\ scan'.notes = u
      /\ nf \notin DOMAIN nfs => scan'.notes = scan.notes
  BY <1>0, <1>2
<1>4. /\ BatchEnd' = BatchEnd /\ Passed' = Passed /\ Seen' = Seen \cup {nf} /\ Debited' = Debited
  BY <1>0, <1>1, <1>2, <1>3, ScanAdvances, DebitedNext
<1>5. MineHere'
  BY <1>1, <1>3, MineAdvances
<1>6. MarksSeen'
  <2>1. CASE nf \in DOMAIN nfs
    <3>1. nfs[nf] \in DOMAIN scan.notes /\ scan.notes[nfs[nf]].nf = nf
      BY <1>2, <2>1 DEF Tracks, Watches
    <3>2. \A n \in DOMAIN scan.notes : scan.notes[n] \in NoteRow
      BY <1>2 DEF IsTable
    <3>3. ASSUME NEW n \in DOMAIN u, u[n].spent \notin Unspoken PROVE u[n].nf \in Seen \cup {nf}
      <4>1. CASE n = nfs[nf]
        BY <3>1, <3>2, <3>3, <4>1 DEF NoteRow
      <4>2. CASE n # nfs[nf]
        BY <1>2, <3>3, <4>2 DEF MarksSeen
      <4> QED BY <4>1, <4>2
    <3> HIDE DEF u
    <3> QED BY <1>3, <1>4, <2>1, <3>3 DEF MarksSeen
  <2>2. CASE nf \notin DOMAIN nfs
    <3>1. scan'.notes = scan.notes /\ Seen \subseteq Seen'
      BY <1>3, <1>4, <2>2
    <3> QED BY <1>2, <3>1, MarksKept
  <2> QED BY <2>1, <2>2
<1> QED BY <1>2, <1>3, <1>4, <1>5, <1>6 DEF ScanValues

(* An output that the scan passes is one of a transaction of the block. *)
LEMMA TxOfOutput ==
  ASSUME NEW b \in Block, NEW i \in 1..NOuts(b)
  PROVE  Outs[b][i] \in Out /\ TxOf[Outs[b][i]] \in Tx /\ TxOf[Outs[b][i]] \in TxsIn(b)
<1>1. i \in 1..Len(Outs[b]) /\ Outs[b] \in Seq(Out)
  BY LedgerTypes DEF NOuts
<1>2. Outs[b][i] \in Out
  BY <1>1
<1> QED BY <1>1, <1>2, LedgerTypes DEF TxsIn

(* An output of ours adds its value to the row of its transaction.         *)
LEMMA ValuesOfNote ==
  ASSUME VInv, ScanNote
  PROVE  ScanValues'
<1>0. PICK b \in Block :
        /\ AtOutput(b) /\ Mine(NewNf(b)[1])
        /\ LET nf == NewNf(b)
               o == nf[1]
               table == StoreTransaction(b, TxOf[o], Owner[o])
           IN \E row \in TxRows(table, TxOf[o], Owner[o]) :
                LET id == <<row, o>> IN
                /\ NoteFound(id, nf)
                /\ scan' = [scan EXCEPT !.cur = @ + 1, !.found = TRUE,
                      !.notes = Insert(@, id, [nf |-> nf, height |-> Height[b], spent |-> Null]),
                      !.txs = [table EXCEPT ![row].value = @ + Value[o]],
                      !.new = Put(@, id, nf[2])]
                /\ nfs' = Learn(nf, id)
  BY DEF ScanNote
<1> DEFINE nf == NewNf(b)
           o == nf[1]
           t == TxOf[o]
           a == Owner[o]
           u == StoreTransaction(b, t, a)
<1>1. PICK row \in TxRows(u, t, a) :
        scan' = [scan EXCEPT !.cur = @ + 1, !.found = TRUE,
                   !.notes = Insert(@, <<row, o>>, [nf |-> nf, height |-> Height[b], spent |-> Null]),
                   !.txs = [u EXCEPT ![row].value = @ + Value[o]],
                   !.new = Put(@, <<row, o>>, nf[2])]
  BY <1>0
<1>2. ppc = "scan" /\ InBlock /\ b = At /\ UNCHANGED <<blocks, batch>>
  BY <1>0 DEF AtOutput, Scanning, InBlock, At, ScanNote, dbVars
<1>3. /\ IInv /\ ScanPlace /\ IsTable(scan.txs, TxId, TxRow)
      /\ BatchEnd \in Block /\ Passed \in Nat
      /\ scan = [blk |-> scan.blk, cur |-> scan.cur, pos |-> scan.pos, mine |-> scan.mine,
                 found |-> scan.found, new |-> scan.new, notes |-> scan.notes,
                 txs |-> scan.txs]
      /\ Values(scan.txs, BatchEnd, Passed, Debited) /\ MarksSeen
  BY <1>2, ValuesContext
<1>4. /\ nf = <<Leaves[BatchEnd][Passed + 1], Passed>> /\ Passed < Len(Leaves[BatchEnd])
  BY <1>0, <1>2, <1>3, NewNotePlace
<1>5. scan.cur - NSpends(At) \in 1..NOuts(At)
  BY <1>0, <1>2 DEF AtOutput
<1>6. /\ At \in Anc[BatchEnd] /\ t \in Tx /\ t \in TxsIn(b) /\ a \in Account /\ Value[o] \in Nat
  <2>1. At \in Block /\ At \in Anc[BatchEnd]
    BY <1>2, <1>3, ScanIsAt
  <2>2. o = Outs[b][scan.cur - NSpends(b)]
    BY DEF NewNf
  <2>3. o \in Out /\ t \in Tx /\ t \in TxsIn(b)
    BY <1>2, <1>5, <2>1, <2>2, TxOfOutput
  <2> QED BY <1>0, <2>1, <2>3, LedgerTypes DEF Mine
<1>7. RowStored(u, scan.txs, row, b, t, a) /\ u[row].value = Net(BatchEnd, t, a, Passed, Debited)
  <2>1. /\ b \in Anc[BatchEnd] /\ BatchEnd \in Block /\ IsTable(scan.txs, TxId, TxRow)
        /\ Values(scan.txs, BatchEnd, Passed, Debited)
    BY <1>2, <1>3, <1>6
  <2>2. row \in TxRows(StoreTransaction(b, t, a), t, a)
    OBVIOUS
  <2> HIDE DEF t, a, u
  <2>3. /\ RowStored(StoreTransaction(b, t, a), scan.txs, row, b, t, a)
        /\ StoreTransaction(b, t, a)[row].value = Net(BatchEnd, t, a, Passed, Debited)
    BY <1>6, <2>1, <2>2, StoredRow
  <2> QED BY <2>3 DEF u
<1> DEFINE w == [u EXCEPT ![row].value = @ + Value[o]]
           add == Insert(scan.notes, <<row, o>>, [nf |-> nf, height |-> Height[b], spent |-> Null])
<1>8. /\ scan'.blk = scan.blk /\ scan'.pos = scan.pos /\ scan'.cur = scan.cur + 1
      /\ scan'.txs = w /\ scan'.mine = scan.mine /\ scan'.notes = add
  BY <1>1, <1>3
<1>9. /\ BatchEnd' = BatchEnd /\ Passed' = Passed + 1 /\ Seen' = Seen /\ Debited' = Debited
  BY <1>2, <1>3, <1>5, <1>8, ScanAdvances, DebitedNext
<1>10. MineHere'
  <2>1. scan.cur \notin 1..NSpends(At)
    <3>1. At \in Block
      BY <1>2, <1>3, ScanIsAt
    <3> QED BY <1>3, <1>5, <3>1, CountsTyped DEF ScanPlace
  <2> QED BY <1>2, <1>8, <2>1, MineAdvances, ValuesContext
<1>11. MarksSeen'
  <2>1. ASSUME NEW n \in DOMAIN add, add[n].spent \notin Unspoken PROVE add[n].nf \in Seen
    <3>1. CASE n \in DOMAIN scan.notes
      <4>1. add[n] = scan.notes[n]
        BY <3>1 DEF Insert, InsertAll
      <4> QED BY <1>3, <2>1, <3>1, <4>1 DEF MarksSeen
    <3>2. CASE n \notin DOMAIN scan.notes
      <4>1. add[n].spent = Null
        BY <2>1, <3>2 DEF Insert, InsertAll
      <4> QED BY <2>1, <4>1 DEF Unspoken
    <3> QED BY <3>1, <3>2
  <2> HIDE DEF add
  <2> QED BY <1>8, <1>9, <2>1 DEF MarksSeen
<1>12. Values(w, BatchEnd, Passed + 1, Debited)
  <2>1. o = Leaves[BatchEnd][Passed + 1]
    BY <1>4
  <2>2. Net(BatchEnd, t, a, Passed + 1, Debited) = Net(BatchEnd, t, a, Passed, Debited) + Value[o]
    <3> HIDE DEF o
    <3> QED BY <1>3, <1>4, <2>1, NetOfLeaf
  <2>3. SameElse(BatchEnd, t, a, Passed, Debited, Passed + 1, Debited)
    <3>1. BatchEnd \in Block /\ Passed \in Nat /\ Passed < Len(Leaves[BatchEnd])
      BY <1>3, <1>4
    <3>2. ASSUME NEW x, NEW y, x # t \/ y # a
          PROVE  Got(BatchEnd, x, y, Passed + 1) = Got(BatchEnd, x, y, Passed)
      <4>1. Owner[Leaves[BatchEnd][Passed + 1]] # y \/ TxOf[Leaves[BatchEnd][Passed + 1]] # x
        BY <2>1, <3>2
      <4> HIDE DEF t, a, o, nf, u, w
      <4> QED BY <3>1, <4>1, GotElse
    <3> HIDE DEF t, a, o, nf, u, w
    <3> QED BY <3>2 DEF SameElse
  <2>4. Revalued(w, u, row, Net(BatchEnd, t, a, Passed + 1, Debited))
    <3>1. w = [u EXCEPT ![row].value = u[row].value + Value[o]]
      OBVIOUS
    <3> HIDE DEF w, u, o, t, a
    <3> QED BY <1>7, <2>2, <3>1 DEF Revalued
  <2>5. b \in Anc[BatchEnd] /\ BatchEnd \in Block /\ Values(scan.txs, BatchEnd, Passed, Debited)
    BY <1>2, <1>3, <1>6
  <2> HIDE DEF w, u, o, t, a
  <2> QED BY <1>6, <1>7, <2>3, <2>4, <2>5, ValuesMoved
<1> QED BY <1>8, <1>9, <1>10, <1>11, <1>12 DEF ScanValues

(* An output of somebody else changes no value.                            *)
LEMMA ValuesOfOthers ==
  ASSUME VInv, SkipOutput
  PROVE  ScanValues'
<1>0. PICK b \in Block : AtOutput(b) /\ ~Mine(NewNf(b)[1])
  BY DEF SkipOutput
<1>1. ppc = "scan" /\ InBlock /\ b = At /\ UNCHANGED <<blocks, batch>>
      /\ scan' = [scan EXCEPT !.cur = @ + 1]
  BY <1>0 DEF AtOutput, Scanning, InBlock, At, SkipOutput, dbVars
<1>2. /\ IInv /\ ScanPlace /\ IsTable(scan.txs, TxId, TxRow)
      /\ BatchEnd \in Block /\ Passed \in Nat
      /\ scan = [blk |-> scan.blk, cur |-> scan.cur, pos |-> scan.pos, mine |-> scan.mine,
                 found |-> scan.found, new |-> scan.new, notes |-> scan.notes,
                 txs |-> scan.txs]
      /\ Values(scan.txs, BatchEnd, Passed, Debited) /\ MarksSeen
  BY <1>1, ValuesContext
<1>3. /\ NewNf(b) = <<Leaves[BatchEnd][Passed + 1], Passed>> /\ Passed < Len(Leaves[BatchEnd])
  BY <1>0, <1>1, <1>2, NewNotePlace
<1>4. Owner[Leaves[BatchEnd][Passed + 1]] \notin Account
  BY <1>0, <1>3 DEF Mine
<1>5. scan.cur - NSpends(At) \in 1..NOuts(At)
  BY <1>0, <1>1 DEF AtOutput
<1>6. /\ scan'.blk = scan.blk /\ scan'.pos = scan.pos /\ scan'.cur = scan.cur + 1
      /\ scan'.txs = scan.txs /\ scan'.mine = scan.mine /\ scan'.notes = scan.notes
  BY <1>1, <1>2
<1>7. /\ BatchEnd' = BatchEnd /\ Passed' = Passed + 1 /\ Seen' = Seen /\ Debited' = Debited
  BY <1>1, <1>2, <1>5, <1>6, ScanAdvances, DebitedNext
<1>8. MineHere'
  <2>1. scan.cur \notin 1..NSpends(At)
    <3>1. At \in Block
      BY <1>1, <1>2, ScanIsAt
    <3> QED BY <1>2, <1>5, <3>1, CountsTyped DEF ScanPlace
  <2> QED BY <1>1, <1>6, <2>1, MineAdvances
<1>9. MarksSeen'
  BY <1>2, <1>6, <1>7, MarksKept
<1>10. Values(scan.txs, BatchEnd, Passed + 1, Debited)
  <2>1. BatchEnd \in Block /\ Passed \in Nat /\ Passed < Len(Leaves[BatchEnd])
    BY <1>2, <1>3
  <2>2. ASSUME NEW x \in Tx, NEW y \in Account
        PROVE  Got(BatchEnd, x, y, Passed + 1) = Got(BatchEnd, x, y, Passed)
    <3>1. Owner[Leaves[BatchEnd][Passed + 1]] # y
      BY <1>4
    <3> QED BY <2>1, <3>1, GotElse
  <2>3. IsTable(scan.txs, TxId, TxRow) /\ Values(scan.txs, BatchEnd, Passed, Debited)
    BY <1>2
  <2> QED BY <2>2, <2>3, ValuesSame
<1> QED BY <1>6, <1>7, <1>8, <1>9, <1>10 DEF ScanValues

(* Where the second pass is, and what it debits. *)
LEMMA DebitPlace ==
  ASSUME VInv, NEW b \in Block, AtDebit(b), UNCHANGED <<blocks, batch>>,
         scan'.blk = scan.blk, scan'.pos = scan.pos, scan'.cur = scan.cur + 1,
         scan'.mine = scan.mine, scan'.notes = scan.notes
  PROVE  /\ ppc = "scan" /\ InBlock /\ b = At /\ b \in Anc[BatchEnd]
         /\ Debit(b) \in Spend /\ Debit(b).tx \in Tx /\ Debit(b).tx \in TxsIn(b)
         /\ BatchEnd' = BatchEnd /\ Passed' = Passed
         /\ Debited' = Debited \cup {Debit(b)} /\ Debit(b) \notin Debited
         /\ MineHere' /\ MarksSeen'
         /\ \A p \in 0..(Len(Leaves[BatchEnd]) - 1) :
              Debit(b).nf = NfAt(BatchEnd, p) /\ Owner[Leaves[BatchEnd][p + 1]] \in Account =>
                Debit(b).nf \in scan.mine
<1>1. ppc = "scan" /\ InBlock /\ b = At
  BY DEF AtDebit, Scanning, InBlock, At
<1>2. IInv /\ ScanPlace /\ MineHere /\ MarksSeen
  BY <1>1, ValuesContext
<1>3. At \in Block /\ At \in Anc[BatchEnd]
  BY <1>1, <1>2, ScanIsAt
<1> DEFINE i == scan.cur - NSpends(At) - NOuts(At)
<1>4. i \in 1..NSpends(At)
  BY <1>1 DEF AtDebit
<1>5. NSpends(At) \in Nat /\ NOuts(At) \in Nat /\ scan.cur \in Nat
  BY <1>2, <1>3, CountsTyped DEF ScanPlace
<1>6. scan.cur \notin 1..NSpends(At) /\ i < scan.cur
  BY <1>4, <1>5
<1>7. Debit(At) = Spends[At][i]
  BY DEF Debit
<1>8. Debit(At) \in SpendsIn(At) /\ Debit(At) \in Spend
  <2> HIDE DEF i
  <2> QED BY <1>3, <1>4, <1>7, SpendTypedAt
<1>9. Debit(At).tx \in Tx /\ Debit(At).tx \in TxsIn(At)
  BY <1>8 DEF Spend, TxsIn
<1>10. /\ BatchEnd' = BatchEnd /\ Passed' = Passed /\ Seen' = Seen
       /\ Debited' = Debited \cup {Debit(At)} /\ Debit(At) \notin Debited
  BY <1>1, <1>2, <1>4, ScanAdvances, DebitedNext
<1>11. MineHere'
  BY <1>1, <1>6, MineAdvances
<1>12. MarksSeen'
  BY <1>2, <1>10, MarksKept
<1>13. \A p \in 0..(Len(Leaves[BatchEnd]) - 1) :
         Debit(At).nf = NfAt(BatchEnd, p) /\ Owner[Leaves[BatchEnd][p + 1]] \in Account =>
           Debit(At).nf \in scan.mine
  <2> HIDE DEF i
  <2> QED BY <1>1, <1>2, <1>4, <1>6, <1>7 DEF MineHere
<1> QED BY <1>1, <1>3, <1>8, <1>9, <1>10, <1>11, <1>12, <1>13

(* A spend of ours takes the value of its note from its row.               *)
LEMMA ValuesOfDebit ==
  ASSUME VInv, ScanDebit
  PROVE  ScanValues'
<1>0. PICK b \in Block :
        /\ AtDebit(b)
        /\ \E n \in DebitNotes(Debit(b).nf) :
             LET table == StoreTransaction(b, Debit(b).tx, AccountOf(n)) IN
             \E row \in TxRows(table, Debit(b).tx, AccountOf(n)) :
               scan' = [scan EXCEPT !.cur = @ + 1, !.found = TRUE,
                          !.txs = [table EXCEPT ![row].value = @ - Value[OutOf(n)]]]
  BY DEF ScanDebit
<1>1. PICK n \in DebitNotes(Debit(b).nf) :
        LET table == StoreTransaction(b, Debit(b).tx, AccountOf(n)) IN
        \E row \in TxRows(table, Debit(b).tx, AccountOf(n)) :
          scan' = [scan EXCEPT !.cur = @ + 1, !.found = TRUE,
                     !.txs = [table EXCEPT ![row].value = @ - Value[OutOf(n)]]]
  BY <1>0
<1> DEFINE s == Debit(b)
           t == s.tx
           a == AccountOf(n)
           u == StoreTransaction(b, t, a)
           p == s.nf[2]
<1>2. PICK row \in TxRows(u, t, a) :
        scan' = [scan EXCEPT !.cur = @ + 1, !.found = TRUE,
                   !.txs = [u EXCEPT ![row].value = @ - Value[OutOf(n)]]]
  BY <1>1
<1> DEFINE w == [u EXCEPT ![row].value = @ - Value[OutOf(n)]]
<1>3. ppc = "scan" /\ UNCHANGED <<blocks, batch>>
  BY <1>0 DEF AtDebit, Scanning, ScanDebit, dbVars
<1>4. /\ IsTable(scan.txs, TxId, TxRow) /\ IsTable(scan.notes, NoteId, NoteRow)
      /\ BatchEnd \in Block
      /\ Tracks(scan.notes, scan.txs, nfs, BatchEnd, BatchEnd, Passed, Seen, {})
      /\ Values(scan.txs, BatchEnd, Passed, Debited)
      /\ Len(Leaves[BatchEnd]) \in Nat
  BY <1>3, ValuesContext
<1>5. /\ scan'.blk = scan.blk /\ scan'.pos = scan.pos /\ scan'.cur = scan.cur + 1
      /\ scan'.mine = scan.mine /\ scan'.notes = scan.notes /\ scan'.txs = w
  <2>1. scan = [blk |-> scan.blk, cur |-> scan.cur, pos |-> scan.pos, mine |-> scan.mine,
                found |-> scan.found, new |-> scan.new, notes |-> scan.notes,
                txs |-> scan.txs]
    BY <1>3, ValuesContext
  <2> QED BY <1>2, <2>1
<1>6. /\ b \in Anc[BatchEnd] /\ s \in Spend /\ t \in Tx /\ t \in TxsIn(b)
      /\ BatchEnd' = BatchEnd /\ Passed' = Passed
      /\ Debited' = Debited \cup {s} /\ s \notin Debited
      /\ MineHere' /\ MarksSeen'
  BY <1>0, <1>3, <1>5, DebitPlace
<1>7. /\ n \in DOMAIN scan.notes /\ scan.notes[n].nf = s.nf
      /\ a \in Account /\ s.nf = <<s.nf[1], p>> /\ p \in Nat
  <2>1. n \in DOMAIN scan.notes /\ scan.notes[n].nf = s.nf
    BY DEF DebitNotes
  <2>2. n \in NoteId
    BY <1>4, <2>1 DEF IsTable
  <2>3. s.nf \in Nf
    BY <1>6 DEF Spend
  <2> QED BY <2>1, <2>2, <2>3 DEF NoteId, TxId, AccountOf, Nf
<1>8. /\ p \in Held(BatchEnd, a) /\ NfAt(BatchEnd, p) = s.nf
      /\ Leaves[BatchEnd][p + 1] = OutOf(n)
  <2>1. Genuine(n, scan.notes[n], BatchEnd)
    BY <1>4, <1>7 DEF Tracks, Sound
  <2>2. /\ s.nf[1] = OutOf(n) /\ Owner[OutOf(n)] = a
        /\ p < Len(Leaves[BatchEnd]) /\ Leaves[BatchEnd][p + 1] = OutOf(n)
    BY <1>7, <2>1 DEF Genuine
  <2>3. p \in 0..(Len(Leaves[BatchEnd]) - 1)
    BY <1>4, <1>7, <2>2
  <2>4. NfAt(BatchEnd, p) = s.nf
    BY <1>7, <2>2 DEF NfAt
  <2> QED BY <2>2, <2>3, <2>4 DEF Held
<1>9. s = SpendOf(BatchEnd, t, p)
  BY <1>6, <1>8 DEF Spend, SpendOf
<1>10. RowStored(u, scan.txs, row, b, t, a) /\ u[row].value = Net(BatchEnd, t, a, Passed, Debited)
  <2>2. row \in TxRows(StoreTransaction(b, t, a), t, a)
    OBVIOUS
  <2> HIDE DEF t, a, u, s, p
  <2>3. /\ RowStored(StoreTransaction(b, t, a), scan.txs, row, b, t, a)
        /\ StoreTransaction(b, t, a)[row].value = Net(BatchEnd, t, a, Passed, Debited)
    BY <1>4, <1>6, <1>7, <2>2, StoredRow
  <2> QED BY <2>3 DEF u
<1>11. Net(BatchEnd, t, a, Passed, Debited \cup {s})
         = Net(BatchEnd, t, a, Passed, Debited) - Value[OutOf(n)]
  <2>1. s \notin Debited /\ BatchEnd \in Block
    BY <1>4, <1>6
  <2> HIDE DEF t, a, u, s, p
  <2>2. Net(BatchEnd, t, a, Passed, Debited \cup {s})
          = Net(BatchEnd, t, a, Passed, Debited) - LeafValue(BatchEnd)[p]
    BY <1>8, <1>9, <2>1, NetOfSpend
  <2>3. LeafValue(BatchEnd)[p] = Value[OutOf(n)]
    BY <1>8, <2>1, HeldTyped
  <2> QED BY <2>2, <2>3
<1>12. SameElse(BatchEnd, t, a, Passed, Debited, Passed, Debited \cup {s})
  <2>1. ASSUME NEW x, NEW y, x # t \/ y # a
        PROVE  Gave(BatchEnd, x, y, Debited \cup {s}) = Gave(BatchEnd, x, y, Debited)
    <3>1. ASSUME NEW q \in Held(BatchEnd, y), s = SpendOf(BatchEnd, x, q)
          PROVE  FALSE
      <4>1. s.tx = x /\ s.nf = NfAt(BatchEnd, q)
        BY <3>1 DEF SpendOf
      <4>2. Leaves[BatchEnd][q + 1] = Leaves[BatchEnd][p + 1]
        BY <1>8, <4>1 DEF NfAt
      <4>3. Owner[Leaves[BatchEnd][q + 1]] = y /\ Owner[Leaves[BatchEnd][p + 1]] = a
        BY <1>8 DEF Held
      <4> QED BY <2>1, <4>1, <4>2, <4>3
    <3> HIDE DEF s, t, a
    <3> QED BY <3>1 DEF Gave
  <2> HIDE DEF t, a, s
  <2> QED BY <2>1 DEF SameElse
<1>13. Revalued(w, u, row, Net(BatchEnd, t, a, Passed, Debited \cup {s}))
  <2>1. w = [u EXCEPT ![row].value = u[row].value - Value[OutOf(n)]]
    OBVIOUS
  <2> HIDE DEF w, u, t, a, s
  <2> QED BY <1>10, <1>11, <2>1 DEF Revalued
<1>14. Values(w, BatchEnd, Passed, Debited \cup {s})
  <2> HIDE DEF w, u, t, a, s, p
  <2> QED BY <1>4, <1>6, <1>7, <1>10, <1>12, <1>13, ValuesMoved
<1> HIDE DEF w, s
<1> QED BY <1>5, <1>6, <1>14 DEF ScanValues

(* A spend of somebody else changes no value.                              *)
LEMMA ValuesOfSkip ==
  ASSUME VInv, SkipSpend
  PROVE  ScanValues'
<1>0. PICK b \in Block : AtDebit(b) /\ Debit(b).nf \notin scan.mine
  BY DEF SkipSpend, SpentHere
<1> DEFINE s == Debit(b)
<1>1. ppc = "scan" /\ UNCHANGED <<blocks, batch>> /\ scan' = [scan EXCEPT !.cur = @ + 1]
  BY <1>0 DEF AtDebit, Scanning, SkipSpend, dbVars
<1>2. /\ IsTable(scan.txs, TxId, TxRow) /\ BatchEnd \in Block
      /\ Values(scan.txs, BatchEnd, Passed, Debited)
      /\ scan = [blk |-> scan.blk, cur |-> scan.cur, pos |-> scan.pos, mine |-> scan.mine,
                 found |-> scan.found, new |-> scan.new, notes |-> scan.notes,
                 txs |-> scan.txs]
  BY <1>1, ValuesContext
<1>3. /\ scan'.blk = scan.blk /\ scan'.pos = scan.pos /\ scan'.cur = scan.cur + 1
      /\ scan'.mine = scan.mine /\ scan'.notes = scan.notes /\ scan'.txs = scan.txs
  BY <1>1, <1>2
<1>4. /\ BatchEnd' = BatchEnd /\ Passed' = Passed /\ Debited' = Debited \cup {s}
      /\ MineHere' /\ MarksSeen'
      /\ \A p \in 0..(Len(Leaves[BatchEnd]) - 1) :
           s.nf = NfAt(BatchEnd, p) /\ Owner[Leaves[BatchEnd][p + 1]] \in Account =>
             s.nf \in scan.mine
  BY <1>0, <1>1, <1>3, DebitPlace
<1>5. ASSUME NEW x \in Tx, NEW y \in Account
      PROVE  Gave(BatchEnd, x, y, Debited \cup {s}) = Gave(BatchEnd, x, y, Debited)
  <2>1. ASSUME NEW q \in Held(BatchEnd, y), s = SpendOf(BatchEnd, x, q)
        PROVE  FALSE
    <3>1. q \in 0..(Len(Leaves[BatchEnd]) - 1) /\ Owner[Leaves[BatchEnd][q + 1]] \in Account
      BY DEF Held
    <3>2. s.nf = NfAt(BatchEnd, q)
      BY <2>1 DEF SpendOf
    <3> QED BY <1>0, <1>4, <3>1, <3>2
  <2> HIDE DEF s
  <2> QED BY <2>1 DEF Gave
<1>6. Values(scan.txs, BatchEnd, Passed, Debited \cup {s})
  <2> HIDE DEF s
  <2> QED BY <1>2, <1>5, ValuesSame
<1> HIDE DEF s
<1> QED BY <1>3, <1>4, <1>6 DEF ScanValues

(* The end of a block. *)
LEMMA ValuesOfBlock ==
  ASSUME VInv, EndBlock
  PROVE  ScanValues'
<1>0. PICK b \in Block :
        /\ Scanning(b) /\ scan.cur > 2 * NSpends(b) + NOuts(b)
        /\ scan' = [scan EXCEPT !.blk = @ + 1, !.cur = 1, !.mine = {}, !.pos = @ + NOuts(b)]
  BY DEF EndBlock
<1>1. ppc = "scan" /\ InBlock /\ b = At /\ UNCHANGED <<blocks, batch, ppc>>
  BY <1>0 DEF Scanning, InBlock, At, EndBlock, dbVars
<1>2. /\ IInv /\ ScanPlace /\ NInv({})
      /\ Values(scan.txs, BatchEnd, Passed, Debited) /\ MarksSeen
      /\ scan = [blk |-> scan.blk, cur |-> scan.cur, pos |-> scan.pos, mine |-> scan.mine,
                 found |-> scan.found, new |-> scan.new, notes |-> scan.notes,
                 txs |-> scan.txs]
  BY <1>1, ValuesContext
<1>3. scan'.blk = scan.blk + 1 /\ scan'.cur = 1 /\ scan'.pos = scan.pos + NOuts(b)
      /\ scan'.txs = scan.txs /\ scan'.notes = scan.notes
  BY <1>0, <1>2
<1>4. ScanPlace' /\ BatchEnd' = BatchEnd /\ Passed' = Passed /\ Seen' = Seen
  BY <1>0, <1>1, <1>2, <1>3, ScanLeavesBlock
<1>5. Debited' = Debited
  BY <1>0, <1>1, <1>2, <1>3, DebitedLeaves
<1>6. MineHere'
  <2>1. batch.blocks \in Seq(Block)
    BY <1>2, AllEndsTyped DEF Batch
  <2>2. Len(batch.blocks) \in Nat /\ scan'.blk \in 1..(Len(batch.blocks) + 1)
    BY <1>1, <1>4, <2>1 DEF ScanPlace
  <2>3. InBlock' => scan'.blk \in 1..Len(batch.blocks)
    BY <1>1, <2>2 DEF InBlock
  <2>4. InBlock' => At' \in Block
    BY <1>1, <2>1, <2>3 DEF At
  <2>5. InBlock' => NSpends(At') \in Nat
    BY <2>4, CountsTyped
  <2> QED BY <1>3, <2>5 DEF MineHere
<1>7. MarksSeen'
  BY <1>2, <1>3, <1>4, MarksKept
<1> QED BY <1>2, <1>3, <1>4, <1>5, <1>6, <1>7 DEF ScanValues

(* The scan of a batch starts with the rows of the database. *)
LEMMA ValuesOfLoad ==
  ASSUME VInv, LoadTree
  PROVE  ScanValues'
<1>1. ppc = "load" /\ UNCHANGED <<blocks, notes, txs, batch>>
  BY DEF LoadTree, dbVars
<1>2. NInv({}) /\ IInv /\ Untorn /\ DbValues
  BY DEF VInv, NInv
<1>3. Synced \in Block /\ BatchEnd \in Block /\ Synced \in Anc[BatchEnd]
  BY <1>1, <1>2, DbContext DEF Running
<1>4. /\ batch.blocks # << >> /\ batch \in Batch /\ Len(Leaves[Synced]) \in Nat
      /\ scan'.notes = notes /\ scan'.txs = txs
      /\ Synced' = Synced /\ BatchEnd' = BatchEnd /\ ScanPlace'
      /\ Passed' = Len(Leaves[Synced]) /\ Seen' = Revealed(Synced)
  BY <1>2, LoadPlace
<1>5. scan'.blk = 1 /\ scan'.cur = 1
  BY DEF LoadTree, EmptyScan
<1>6. DbTop = Synced
  BY <1>1, <1>2 DEF DbTop, Written
<1>7. InBlock' => At' \in Block
  <2>1. batch.blocks \in Seq(Block) /\ batch.blocks # << >>
    BY <1>4 DEF Batch
  <2>2. batch.blocks[1] \in Block
    BY <2>1
  <2> QED BY <1>1, <1>5, <2>2 DEF At
<1>8. InBlock' => NSpends(At') \in Nat /\ NOuts(At') \in Nat
  BY <1>7, CountsTyped
<1>9. Debited' = SpendsOn(Synced)
  <2>1. Done' = Synced
    BY <1>4, <1>5 DEF Done
  <2>2. InBlock' => {j \in 1..NSpends(At') : j < 1 - NSpends(At') - NOuts(At')} = {}
    BY <1>8
  <2>3. Debited' = SpendsOn(Synced) \cup
          (IF InBlock'
             THEN {Spends[At'][i] : i \in {j \in 1..NSpends(At') : j < 1 - NSpends(At') - NOuts(At')}}
             ELSE {})
    BY <1>5, <2>1 DEF Debited, NSpends, NOuts
  <2> QED BY <2>2, <2>3
<1>10. Values(txs, BatchEnd, Len(Leaves[Synced]), SpendsOn(Synced))
  <2>1. Values(txs, Synced, Len(Leaves[Synced]), SpendsOn(Synced))
    BY <1>2, <1>6 DEF DbValues
  <2>2. Len(Leaves[Synced]) <= Len(Leaves[Synced]) /\ SpendsOn(Synced) \subseteq SpendsOn(Synced)
    BY <1>4
  <2> QED BY <1>3, <1>4, <2>1, <2>2, ValuesKept
<1>11. MineHere'
  BY <1>5, <1>8 DEF MineHere
<1>12. MarksSeen'
  <2>1. Sound(notes, txs, Synced)
    BY <1>2, <1>6 DEF NInv, DbNotes
  <2>2. ASSUME NEW n \in DOMAIN notes, notes[n].spent \notin Unspoken
        PROVE  notes[n].nf \in Revealed(Synced)
    <3>1. Genuine(n, notes[n], Synced)
      BY <2>1 DEF Sound
    <3> QED BY <2>2, <3>1 DEF Genuine, Revealed
  <2> QED BY <1>4, <2>2 DEF MarksSeen
<1> QED BY <1>4, <1>9, <1>10, <1>11, <1>12 DEF ScanValues

-----------------------------------------------------------------------------
(* The database *)

(* The first transaction of a batch writes the values of the scan, which   *)
(* has come to the end of the batch; the second moves the resume point to  *)
(* the block that they are of.                                             *)
LEMMA ValuesAtCommit ==
  ASSUME VInv, Commit
  PROVE  DbValues'
<1>1. /\ ppc = "scan" /\ ~InBlock /\ txs' = scan.txs
      /\ ppc' \in {"details", "store"} /\ UNCHANGED <<blocks, batch>>
  <2>1. batch.blocks \in Seq(Block)
    BY AllEndsTyped DEF VInv, NInv, Batch
  <2>2. Len(batch.blocks) \in Nat /\ scan.blk \in Nat
    BY <2>1 DEF VInv, NInv, IInv, TInv, TypeOK, ScanTypes
  <2> QED BY <2>2 DEF Commit, InBlock
<1>2. IInv /\ ScanPlace /\ Untorn /\ Values(scan.txs, BatchEnd, Passed, Debited)
  BY <1>1, ValuesContext
<1>3. Passed = Len(Leaves[BatchEnd]) /\ Debited = SpendsOn(BatchEnd)
  BY <1>1, <1>2, ScanHasPassed, DebitedIs
<1>4. DbTop' = BatchEnd
  <2>1. Synced' = Synced
    BY <1>1, SyncedKept
  <2>2. BatchEnd' = BatchEnd
    BY <1>1, <2>1 DEF BatchEnd, EndOf, LastOf
  <2> QED BY <1>1, <1>2, <2>2 DEF DbTop, Written, Untorn
<1> QED BY <1>1, <1>2, <1>3, <1>4 DEF DbValues

(* The block row of a batch makes its values those of the wallet.          *)
LEMMA ValuesAtStore ==
  ASSUME VInv, Store \/ Finish
  PROVE  DbValues'
<1>1. IInv /\ Untorn /\ DbValues
  BY DEF VInv, NInv
<1>2. DbTop' = DbTop
  <2>1. CASE Store
    <3>1. Synced' = BatchEnd
      <4>1. LastOf(batch) = BatchEnd /\ Synced' = LastOf(batch)
        BY <1>1, <2>1, StoreEffect
      <4> QED BY <4>1
    <3>2. Written /\ ~Written'
      BY <2>1 DEF Store, Written
    <3> QED BY <1>1, <3>1, <3>2 DEF DbTop, Untorn
  <2>2. CASE Finish
    <3>1. Synced' = Synced
      BY <1>1, <2>2, FinishEffect
    <3>2. ~Written /\ ~Written'
      BY <2>2 DEF Finish, ProcessorEnds, Written
    <3> QED BY <1>1, <3>1, <3>2 DEF DbTop, Untorn
  <2> QED BY <2>1, <2>2
<1>3. txs' = txs
  BY DEF Store, Finish
<1> QED BY <1>1, <1>2, <1>3 DEF DbValues

(* The other steps write no transaction and leave the place of the batch.  *)
LEMMA DbValuesKept ==
  ASSUME VInv, UNCHANGED <<blocks, txs>>, Written' => Written /\ UNCHANGED batch,
         Written => Written'
  PROVE  DbValues'
<1>1. Untorn /\ DbValues
  BY DEF VInv
<1>2. Synced' = Synced
  BY SyncedKept
<1>3. Written' => BatchEnd' = BatchEnd
  BY <1>2 DEF BatchEnd, EndOf, LastOf
<1>4. DbTop' = DbTop
  BY <1>1, <1>2, <1>3 DEF DbTop, Untorn
<1> QED BY <1>1, <1>4 DEF DbValues

(* The steps that touch neither the table nor the scan.                    *)
LEMMA ValuesStay ==
  ASSUME VInv, UNCHANGED <<blocks, txs, batch, scan, ppc>>
  PROVE  DbValues' /\ ScanValues'
<1>1. Synced' = Synced
  BY SyncedKept
<1>2. BatchEnd' = BatchEnd /\ At' = At /\ Done' = Done /\ InBlock' = InBlock
  BY <1>1 DEF BatchEnd, EndOf, LastOf, At, Done, InBlock
<1>3. Passed' = Passed /\ Seen' = Seen /\ Debited' = Debited
  BY <1>2 DEF Passed, Seen, Debited
<1>4. ScanValues'
  <2>1. MineHere => MineHere'
    BY <1>2 DEF MineHere
  <2>2. MarksSeen => MarksSeen'
    BY <1>3 DEF MarksSeen
  <2> QED BY <1>2, <1>3, <2>1, <2>2 DEF VInv, ScanValues
<1>5. DbValues'
  <2>1. Written' = Written
    BY DEF Written
  <2> QED BY <2>1, DbValuesKept
<1> QED BY <1>4, <1>5

-----------------------------------------------------------------------------
(* The invariant *)

(* A wallet without rows has the values of the genesis block.              *)
LEMMA VInvInit ==
  ASSUME Init, Untorn
  PROVE  VInv
<1>1. NInv({})
  BY NInvInit DEF Mendable
<1>2. DbTop = Genesis /\ ppc = "none" /\ DOMAIN txs = {}
  <2>1. Synced = Genesis
    BY DEF Init, Synced
  <2>2. DOMAIN txs = {}
    BY EmptyTableTyped DEF Init
  <2> QED BY <2>1, <2>2 DEF Init, Idle, DbTop, Written
<1>3. DbValues
  <2>1. Genesis \in Block /\ Leaves[Genesis] = << >>
    BY LedgerTypes, LedgerTree
  <2>2. Len(Leaves[Genesis]) = 0
    BY <2>1
  <2>3. ASSUME NEW a PROVE Held(Genesis, a) = {}
    <3>1. 0..(0 - 1) = {}
      OBVIOUS
    <3> QED BY <2>2, <3>1 DEF Held
  <2>4. \A t, a : /\ Got(Genesis, t, a, Len(Leaves[Genesis])) = {}
                  /\ Gave(Genesis, t, a, SpendsOn(Genesis)) = {}
    BY <2>3 DEF Got, Gave
  <2> QED BY <1>2, <2>4 DEF DbValues, Values
<1> QED BY <1>1, <1>2, <1>3 DEF VInv, ScanValues

(* Every step keeps the invariant.                                         *)
LEMMA VInvStep ==
  ASSUME VInv, [Next]_vars
  PROVE  VInv'
<1>1. NInv({})' /\ Untorn'
  BY NInvStep DEF VInv, Untorn
<1>2. NInv({}) /\ IInv /\ Untorn /\ Panicked
  BY DEF VInv, NInv
<1>3. CASE Server \/ Downloader \/ UNCHANGED vars
  <2>1. UNCHANGED <<blocks, txs, batch, scan, ppc>>
    BY <1>3 DEF Server, MineBlock, Reorg, Downloader, TakeBlock, DetectReorg, StreamEnd,
      StreamShort, StreamError, Send, SendPanic, SendLast, dbVars, prVars, vars
  <2> QED BY <1>1, <2>1, ValuesStay DEF VInv
<1>4. CASE WarpStart \/ ConnectFail \/ CancelWarp
  <2>1. UNCHANGED <<blocks, txs, batch, scan, ppc>>
    BY <1>4 DEF WarpStart, ConnectFail, CancelWarp, dbVars, prVars
  <2> QED BY <1>1, <2>1, ValuesStay DEF VInv
<1>5. CASE BeginPass \/ Join \/ JoinPanic \/ Crash
  <2>1. UNCHANGED <<blocks, txs>> /\ ppc' \in {"none", "open"}
    <3>1. CASE BeginPass
      <4>1. dpc = "none" /\ ppc = "none" /\ ppc' \in {"none", "open"}
        BY <1>2, <3>1 DEF BeginPass, IInv, TInv, BatchShape
      <4> QED BY <3>1, <4>1 DEF BeginPass, dbVars
    <3>2. CASE ~BeginPass
      BY <1>5, <3>2 DEF Join, JoinPanic, Crash, Die, ResetTasks, dbVars
    <3> QED BY <3>1, <3>2
  <2>2. ~Written
    <3>1. CASE BeginPass
      BY <1>2, <3>1 DEF BeginPass, IInv, TInv, BatchShape, Written
    <3>2. CASE Join \/ JoinPanic
      BY <1>2, <3>2 DEF Join, JoinPanic, Panicked, Written
    <3>3. CASE Crash
      BY <1>2, <3>3 DEF Crash, Fault, Untorn
    <3> QED BY <1>5, <3>1, <3>2, <3>3
  <2>3. ~Written' /\ ScanValues'
    BY <2>1 DEF Written, ScanValues
  <2>4. DbValues'
    BY <2>1, <2>2, <2>3, DbValuesKept
  <2> QED BY <1>1, <2>3, <2>4 DEF VInv
<1>6. CASE OpenDb \/ Recv \/ RecvClosed \/ ScanFail \/ DetailsFail \/ DetailsOk
  <2>1. UNCHANGED <<blocks, txs>> /\ ppc' # "scan"
    BY <1>6 DEF OpenDb, Recv, RecvClosed, ScanFail, DetailsFail, DetailsOk, ProcessorEnds, dbVars
  <2>2. Written' => Written /\ UNCHANGED batch
    BY <1>6 DEF OpenDb, Recv, RecvClosed, ScanFail, DetailsFail, DetailsOk, ProcessorEnds, Written
  <2>3. Written => Written'
    BY <1>2, <1>6 DEF OpenDb, Recv, RecvClosed, ScanFail, DetailsFail, DetailsOk, Fault, Untorn,
      Scanning, AtOutput, AtDebit, Written
  <2>4. DbValues' /\ ScanValues'
    BY <2>1, <2>2, <2>3, DbValuesKept DEF ScanValues
  <2> QED BY <1>1, <2>4 DEF VInv
<1>7. CASE LoadTree \/ ScanSpend \/ ScanNote \/ SkipOutput \/ ScanDebit \/ SkipSpend \/ EndBlock
  <2>1. UNCHANGED <<blocks, txs>> /\ ppc \in {"load", "scan"} /\ ppc' = "scan"
    BY <1>7 DEF LoadTree, ScanSpend, ScanNote, SkipOutput, ScanDebit, SkipSpend, EndBlock,
      Scanning, AtOutput, AtDebit, dbVars
  <2>2. DbValues'
    BY <2>1, DbValuesKept DEF Written
  <2>3. ScanValues'
    BY <1>7, ValuesOfLoad, ValuesOfSpend, ValuesOfNote, ValuesOfOthers, ValuesOfDebit,
      ValuesOfSkip, ValuesOfBlock
  <2> QED BY <1>1, <2>2, <2>3 DEF VInv
<1>8. CASE Commit \/ Store \/ Finish
  <2>1. DbValues'
    BY <1>8, ValuesAtCommit, ValuesAtStore
  <2>2. ScanValues'
    BY <1>8 DEF Commit, Store, Finish, ProcessorEnds, ScanValues
  <2> QED BY <1>1, <2>1, <2>2 DEF VInv
<1> QED BY <1>3, <1>4, <1>5, <1>6, <1>7, <1>8 DEF Next, Call, Processor

(* The values of the transactions follow the chain in every state. *)
THEOREM ValuesInvariance == Untorn => (Spec => []VInv)
<1> SUFFICES ASSUME Untorn PROVE Spec => []VInv
  OBVIOUS
<1>1. Init => VInv
  BY VInvInit
<1>2. VInv /\ [Next]_vars => VInv'
  BY VInvStep
<1> QED BY <1>1, <1>2, PTL DEF Spec

-----------------------------------------------------------------------------
(* The values of the synced chain *)

(* A leaf of ours is one that a block of the chain has created. *)
LEMMA LeafHasBlock ==
  ASSUME VInv, NEW b \in Anc[DbTop], NEW p \in Nat, p < Len(Leaves[b]),
         Owner[Leaves[b][p + 1]] \in Account
  PROVE  \E a \in Anc[b] \ {Genesis} : Len(Leaves[Parent[a]]) <= p /\ p < Len(Leaves[a])
<1>1. NInv({}) /\ Untorn /\ DbTop \in Block
  BY SyncedBelowTop DEF VInv
<1>2. b \in Block /\ p < Len(Leaves[DbTop]) /\ Leaves[DbTop][p + 1] = Leaves[b][p + 1]
  BY <1>1, Ancestor, LeafKept
<1>3. CompleteTo(notes, DbTop, {})
  BY <1>1 DEF NInv, DbNotes, DbTop
<1>4. PICK n \in DOMAIN notes : notes[n].nf = <<Leaves[DbTop][p + 1], p>>
  <2>1. p \in 0..(Len(Leaves[DbTop]) - 1)
    BY <1>1, <1>2, CountsTyped
  <2> QED BY <1>2, <1>3, <2>1 DEF CompleteTo, Complete
<1>5. Genuine(n, notes[n], DbTop)
  BY <1>1 DEF NInv, DbNotes, Sound
<1>6. PICK a \in Anc[DbTop] \ {Genesis} : Len(Leaves[Parent[a]]) <= p /\ p < Len(Leaves[a])
  <2>1. notes[n].nf[2] = p
    BY <1>4
  <2> QED BY <1>5, <2>1 DEF Genuine
<1>7. a \in Anc[b]
  <2> SUFFICES ASSUME a \notin Anc[b] PROVE FALSE
    OBVIOUS
  <2>1. a \in Block /\ b \in Anc[a] /\ b # a
    BY <1>1, <1>2, <1>6, Ancestor, LedgerAncestry
  <2>2. Parent[a] \in Block /\ b \in Anc[Parent[a]]
    <3>1. a # Genesis
      BY <1>6
    <3>2. Parent[a] \in Block /\ Anc[a] = Anc[Parent[a]] \cup {a}
      BY <2>1, <3>1, Child
    <3> QED BY <2>1, <3>2
  <2>3. Len(Leaves[b]) <= Len(Leaves[Parent[a]])
    BY <2>2, LedgerLeaves
  <2>4. Len(Leaves[b]) \in Nat /\ Len(Leaves[Parent[a]]) \in Nat
    BY <1>2, <2>2, CountsTyped
  <2> QED BY <1>6, <2>3, <2>4
<1> QED BY <1>6, <1>7

(* The notes of a chain are its leaves that are ours. *)
LEMMA NoteIsLeaf ==
  ASSUME NEW b \in Block, NEW c \in ChainNotes(b)
  PROVE  /\ c = [nf |-> c.nf, in |-> c.in] /\ c.in \in Anc[b] \ {Genesis}
         /\ \E p \in Nat :
              /\ Len(Leaves[Parent[c.in]]) <= p /\ p < Len(Leaves[c.in]) /\ p < Len(Leaves[b])
              /\ c.nf = NfAt(b, p) /\ c.nf[2] = p
              /\ Owner[c.nf[1]] \in Account
<1>1. PICK a \in Anc[b] : c \in {[nf |-> <<o, Position(o, b)>>, in |-> a] : o \in Received(a)}
  BY DEF ChainNotes
<1>2. PICK o \in Received(a) : c = [nf |-> <<o, Position(o, b)>>, in |-> a]
  BY <1>1
<1>3. PICK p \in Nat :
        /\ Len(Leaves[Parent[a]]) <= p /\ p < Len(Leaves[a]) /\ p < Len(Leaves[b])
        /\ Leaves[b][p + 1] = o /\ Position(o, b) = p
  BY ReceivedIsLeaf
<1>4. a # Genesis /\ Owner[o] \in Account
  BY ReceivedIsLeaf
<1>5. c.nf = <<o, p>> /\ c.in = a /\ c = [nf |-> c.nf, in |-> c.in]
  BY <1>2, <1>3
<1>6. c.nf = NfAt(b, p) /\ c.nf[2] = p /\ c.nf[1] = o
  BY <1>3, <1>5 DEF NfAt
<1> QED BY <1>3, <1>4, <1>5, <1>6

(* Notes of a chain that have one nullifier are the same.                  *)
LEMMA OneNote ==
  ASSUME NEW b \in Block, NEW c \in ChainNotes(b), NEW d \in ChainNotes(b), c.nf = d.nf
  PROVE  c = d
<1>1. /\ c = [nf |-> c.nf, in |-> c.in] /\ c.in \in Anc[b] \ {Genesis}
      /\ \E p \in Nat :
           Len(Leaves[Parent[c.in]]) <= p /\ p < Len(Leaves[c.in]) /\ c.nf[2] = p
  BY NoteIsLeaf
<1>2. /\ d = [nf |-> d.nf, in |-> d.in] /\ d.in \in Anc[b] \ {Genesis}
      /\ \E p \in Nat :
           Len(Leaves[Parent[d.in]]) <= p /\ p < Len(Leaves[d.in]) /\ d.nf[2] = p
  BY NoteIsLeaf
<1>3. c.in = d.in
  BY <1>1, <1>2, OneBlock
<1> QED BY <1>1, <1>2, <1>3

NoteAt(b) == [p \in Nat |-> CHOOSE c \in ChainNotes(b) : c.nf = NfAt(b, p)]

(* A leaf of ours is a note of the chain.                                  *)
LEMMA LeafIsNote ==
  ASSUME VInv, NEW b \in Anc[DbTop], NEW a \in Account, NEW p \in Held(b, a)
  PROVE  NoteAt(b)[p] \in ChainNotes(b) /\ NoteAt(b)[p].nf = NfAt(b, p)
<1>1. b \in Block
  BY SyncedBelowTop, Ancestor DEF VInv
<1>2. p \in Nat /\ p < Len(Leaves[b]) /\ Owner[Leaves[b][p + 1]] = a
  BY <1>1, HeldTyped
<1>3. PICK d \in Anc[b] \ {Genesis} : Len(Leaves[Parent[d]]) <= p /\ p < Len(Leaves[d])
  BY <1>2, LeafHasBlock
<1>4. d \in Block /\ Leaves[b][p + 1] = Leaves[d][p + 1]
  BY <1>1, <1>2, <1>3, Ancestor, LeafKept
<1>5. Leaves[b][p + 1] \in Received(d)
  BY <1>2, <1>3, <1>4, LeafIsReceived
<1>6. Position(Leaves[b][p + 1], b) = p
  BY <1>1, <1>2, PositionIs
<1> DEFINE c == [nf |-> <<Leaves[b][p + 1], Position(Leaves[b][p + 1], b)>>, in |-> d]
<1>7. c \in ChainNotes(b)
  BY <1>3, <1>5 DEF ChainNotes
<1>8. c.nf = NfAt(b, p)
  BY <1>6 DEF NfAt
<1> HIDE DEF c
<1>9. NoteAt(b)[p] = CHOOSE e \in ChainNotes(b) : e.nf = NfAt(b, p)
  BY <1>2 DEF NoteAt
<1> QED BY <1>7, <1>8, <1>9

(* The sum over notes of the property is the sum over their leaves. *)
NoteValue(b) == [c \in ChainNotes(b) |-> Value[c.nf[1]]]

(* The summand of TxNet may be given by a function.                        *)
LEMMA NotesSum ==
  ASSUME NEW b, NEW S, IsFiniteSet(S), S \subseteq ChainNotes(b)
  PROVE  MapThenSumSet(LAMBDA c : Value[c.nf[1]], S) = SumOf(NoteValue(b), S)
<1> DEFINE f == NoteValue(b)
           P(i) == i = [t \in SUBSET S |->
                     IF t = {} THEN 0 ELSE Value[Chosen(t).nf[1]] + i[t \ {Chosen(t)}]]
           c == CHOOSE i : P(i)
<1>1. MapThenSumSet(LAMBDA d : Value[d.nf[1]], S) = c[S]
  BY DEF MapThenSumSet, MapThenFoldSet, Chosen
<1>2. ASSUME NEW i PROVE P(i) <=> IsIter(f, S, i)
  <2>1. \A t \in SUBSET S : t # {} => f[Chosen(t)] = Value[Chosen(t).nf[1]]
    BY DEF Chosen, NoteValue
  <2> HIDE DEF f
  <2> QED BY <2>1 DEF IsIter
<1>3. P(c)
  <2>1. \E i : P(i)
    BY <1>2, IterExists
  <2> HIDE DEF P
  <2> QED BY <2>1
<1>4. IsIter(f, S, c)
  BY <1>2, <1>3
<1> HIDE DEF c, f
<1>5. c[S] = SumOf(f, S)
  BY <1>4, IterIsSum
<1> QED BY <1>1, <1>5 DEF f

(* A sum over notes of the chain is the one over their leaves.             *)
LEMMA SumOverNotes ==
  ASSUME VInv, NEW b \in Anc[DbTop], NEW a \in Account, NEW S, S \subseteq Held(b, a),
         NEW T, T \subseteq ChainNotes(b),
         \A c \in T : \E p \in S : c.nf = NfAt(b, p),
         \A p \in S : NoteAt(b)[p] \in T
  PROVE  MapThenSumSet(LAMBDA c : Value[c.nf[1]], T) = SumOf(LeafValue(b), S)
<1> DEFINE h == NoteAt(b)
           f == LeafValue(b)
           g == NoteValue(b)
<1>1. b \in Block
  BY SyncedBelowTop, Ancestor DEF VInv
<1>2. \A p \in S : h[p] \in ChainNotes(b) /\ h[p].nf = NfAt(b, p)
  BY LeafIsNote
<1>3. {h[p] : p \in S} = T
  <2>1. ASSUME NEW c \in T PROVE \E p \in S : h[p] = c
    <3>1. PICK p \in S : c.nf = NfAt(b, p)
      OBVIOUS
    <3>2. h[p] = c
      BY <1>1, <1>2, <3>1, OneNote
    <3> QED BY <3>2
  <2> HIDE DEF h
  <2>2. \A p \in S : h[p] \in T
    BY DEF h
  <2> QED BY <2>1, <2>2
<1>4. IsFiniteSet(S) /\ \A p \in S : f[p] \in Int /\ g[h[p]] = f[p]
  <2>1. IsFiniteSet(S) /\ \A p \in S : f[p] \in Int
    BY <1>1, PartTyped
  <2>2. ASSUME NEW p \in S PROVE g[h[p]] = f[p]
    <3>1. g[h[p]] = Value[h[p].nf[1]]
      BY <1>2 DEF NoteValue
    <3>2. h[p].nf[1] = Leaves[b][p + 1]
      BY <1>2 DEF NfAt
    <3>3. f[p] = Value[Leaves[b][p + 1]]
      BY <1>1, HeldTyped
    <3> QED BY <3>1, <3>2, <3>3
  <2> QED BY <2>1, <2>2
<1>5. \A p, q \in S : h[p] = h[q] => p = q
  <2> SUFFICES ASSUME NEW p \in S, NEW q \in S, h[p] = h[q] PROVE p = q
    OBVIOUS
  <2>1. NfAt(b, p) = NfAt(b, q)
    BY <1>2
  <2> QED BY <2>1 DEF NfAt
<1>6. IsFiniteSet({h[p] : p \in S}) /\ SumOf(g, {h[p] : p \in S}) = SumOf(f, S)
  <2> HIDE DEF h, f, g
  <2>1. Renames(f, S, g, h)
    BY <1>4, <1>5 DEF Renames
  <2> QED BY <2>1, SumRenamed
<1>7. MapThenSumSet(LAMBDA c : Value[c.nf[1]], T) = SumOf(NoteValue(b), T)
  BY <1>3, <1>6, NotesSum
<1> QED BY <1>3, <1>6, <1>7

(* What the property states is what the invariant follows. *)
LEMMA TxNetIs ==
  ASSUME VInv, NEW b \in Anc[DbTop], NEW t, NEW a \in Account
  PROVE  TxNet(t, a, b) = Net(b, t, a, Len(Leaves[b]), SpendsOn(b))
<1> DEFINE G == {c \in ChainNotes(b) : TxOf[c.nf[1]] = t /\ Owner[c.nf[1]] = a}
           V == {c \in ChainNotes(b) : Owner[c.nf[1]] = a
                   /\ \E d \in Anc[b] : [tx |-> t, nf |-> c.nf] \in SpendsIn(d)}
           got == Got(b, t, a, Len(Leaves[b]))
           gave == Gave(b, t, a, SpendsOn(b))
<1>1. b \in Block
  BY SyncedBelowTop, Ancestor DEF VInv
<1>2. ASSUME NEW c \in ChainNotes(b), Owner[c.nf[1]] = a
      PROVE  \E p \in Held(b, a) : c.nf = NfAt(b, p) /\ p < Len(Leaves[b])
  <2>1. PICK p \in Nat : p < Len(Leaves[b]) /\ c.nf = NfAt(b, p)
    BY <1>1, NoteIsLeaf
  <2>2. p \in 0..(Len(Leaves[b]) - 1)
    BY <1>1, <2>1, CountsTyped
  <2>3. Owner[Leaves[b][p + 1]] = a
    BY <1>2, <2>1 DEF NfAt
  <2> QED BY <2>1, <2>2, <2>3 DEF Held
<1>3. MapThenSumSet(LAMBDA c : Value[c.nf[1]], G) = SumOf(LeafValue(b), got)
  <2>1. got \subseteq Held(b, a) /\ G \subseteq ChainNotes(b)
    BY DEF Got
  <2>2. ASSUME NEW c \in G PROVE \E p \in got : c.nf = NfAt(b, p)
    <3>1. PICK p \in Held(b, a) : c.nf = NfAt(b, p) /\ p < Len(Leaves[b])
      BY <1>2
    <3>2. TxOf[Leaves[b][p + 1]] = t
      BY <3>1 DEF NfAt
    <3> QED BY <3>1, <3>2 DEF Got
  <2>3. ASSUME NEW p \in got PROVE NoteAt(b)[p] \in G
    <3>1. p \in Held(b, a) /\ TxOf[Leaves[b][p + 1]] = t
      BY DEF Got
    <3>2. NoteAt(b)[p] \in ChainNotes(b) /\ NoteAt(b)[p].nf = NfAt(b, p)
      BY <3>1, LeafIsNote
    <3>3. NoteAt(b)[p].nf[1] = Leaves[b][p + 1] /\ Owner[Leaves[b][p + 1]] = a
      BY <3>1, <3>2 DEF NfAt, Held
    <3> QED BY <3>1, <3>2, <3>3
  <2> HIDE DEF G, got
  <2> QED BY <2>1, <2>2, <2>3, SumOverNotes
<1>4. MapThenSumSet(LAMBDA c : Value[c.nf[1]], V) = SumOf(LeafValue(b), gave)
  <2>1. gave \subseteq Held(b, a) /\ V \subseteq ChainNotes(b)
    BY DEF Gave
  <2>2. ASSUME NEW c \in V PROVE \E p \in gave : c.nf = NfAt(b, p)
    <3>1. PICK p \in Held(b, a) : c.nf = NfAt(b, p)
      BY <1>2
    <3>2. SpendOf(b, t, p) \in SpendsOn(b)
      BY <3>1 DEF SpendOf, SpendsOn
    <3> QED BY <3>1, <3>2 DEF Gave
  <2>3. ASSUME NEW p \in gave PROVE NoteAt(b)[p] \in V
    <3>1. p \in Held(b, a) /\ SpendOf(b, t, p) \in SpendsOn(b)
      BY DEF Gave
    <3>2. NoteAt(b)[p] \in ChainNotes(b) /\ NoteAt(b)[p].nf = NfAt(b, p)
      BY <3>1, LeafIsNote
    <3>3. Owner[NoteAt(b)[p].nf[1]] = a
      BY <3>1, <3>2 DEF NfAt, Held
    <3>4. \E d \in Anc[b] : [tx |-> t, nf |-> NoteAt(b)[p].nf] \in SpendsIn(d)
      BY <3>1, <3>2 DEF SpendOf, SpendsOn
    <3> QED BY <3>2, <3>3, <3>4
  <2> HIDE DEF V, gave
  <2> QED BY <2>1, <2>2, <2>3, SumOverNotes
<1> QED BY <1>3, <1>4 DEF TxNet, Net

(* The part of a transaction of the synced chain that the chain of the     *)
(* rows has after it: none.                                                *)
LEMMA SyncedTx ==
  ASSUME VInv, NEW c \in Anc[Synced], NEW t, t \in TxsIn(c), NEW a \in Account
  PROVE  Net(DbTop, t, a, Len(Leaves[DbTop]), SpendsOn(DbTop))
           = Net(Synced, t, a, Len(Leaves[Synced]), SpendsOn(Synced))
<1>1. DbTop \in Block /\ Synced \in Block /\ Synced \in Anc[DbTop] /\ DbTop \in Anc[DbTop]
  BY SyncedBelowTop, LedgerAncestry DEF VInv
<1>2. /\ Anc[Synced] \subseteq Anc[DbTop] /\ c \in Anc[DbTop] /\ c \in Block
      /\ Len(Leaves[Synced]) \in Nat /\ Len(Leaves[c]) \in Nat /\ Len(Leaves[DbTop]) \in Nat
      /\ Len(Leaves[c]) <= Len(Leaves[Synced]) /\ Len(Leaves[Synced]) <= Len(Leaves[DbTop])
  BY <1>1, Ancestor, CountsTyped, LedgerLeaves
<1>3. Got(DbTop, t, a, Len(Leaves[DbTop])) = Got(DbTop, t, a, Len(Leaves[Synced]))
  <2>1. ASSUME NEW p \in Got(DbTop, t, a, Len(Leaves[DbTop])) PROVE p < Len(Leaves[Synced])
    <3>1. p \in Held(DbTop, a) /\ TxOf[Leaves[DbTop][p + 1]] = t
      BY DEF Got
    <3>2. p \in Nat /\ p < Len(Leaves[DbTop]) /\ Owner[Leaves[DbTop][p + 1]] = a
      BY <1>1, <3>1, HeldTyped
    <3>3. PICK d \in Anc[DbTop] \ {Genesis} : Len(Leaves[Parent[d]]) <= p /\ p < Len(Leaves[d])
      BY <1>1, <3>2, LeafHasBlock
    <3>4. d \in Block /\ Leaves[DbTop][p + 1] = Leaves[d][p + 1]
      BY <1>1, <3>2, <3>3, Ancestor, LeafKept
    <3>5. Leaves[d][p + 1] \in Received(d)
      BY <3>2, <3>3, <3>4, LeafIsReceived
    <3>6. t \in TxsIn(d)
      BY <3>1, <3>4, <3>5 DEF Received, TxsIn
    <3>7. d = c
      BY <1>1, <1>2, <3>3, <3>6, LedgerTransactions
    <3> QED BY <1>2, <3>2, <3>3, <3>7
  <2>2. ASSUME NEW p \in Got(DbTop, t, a, Len(Leaves[Synced])) PROVE p < Len(Leaves[DbTop])
    <3>1. p \in Held(DbTop, a)
      BY DEF Got
    <3> QED BY <1>1, <3>1, HeldTyped
  <2> QED BY <2>1, <2>2 DEF Got
<1>4. Gave(DbTop, t, a, SpendsOn(DbTop)) = Gave(DbTop, t, a, SpendsOn(Synced))
  <2>1. SpendsOn(Synced) \subseteq SpendsOn(DbTop)
    BY <1>2 DEF SpendsOn
  <2>2. ASSUME NEW p, SpendOf(DbTop, t, p) \in SpendsOn(DbTop)
        PROVE  SpendOf(DbTop, t, p) \in SpendsOn(Synced)
    <3>1. PICK d \in Anc[DbTop] : SpendOf(DbTop, t, p) \in SpendsIn(d)
      BY <2>2 DEF SpendsOn
    <3>2. SpendOf(DbTop, t, p).tx = t
      BY DEF SpendOf
    <3>3. t \in TxsIn(d)
      BY <3>1, <3>2 DEF TxsIn
    <3>4. d = c
      BY <1>1, <1>2, <3>3, LedgerTransactions
    <3> QED BY <3>1, <3>4 DEF SpendsOn
  <2> QED BY <2>1, <2>2 DEF Gave
<1>5. Net(DbTop, t, a, Len(Leaves[DbTop]), SpendsOn(DbTop))
        = Net(DbTop, t, a, Len(Leaves[Synced]), SpendsOn(Synced))
  BY <1>3, <1>4 DEF Net
<1>6. Net(DbTop, t, a, Len(Leaves[Synced]), SpendsOn(Synced))
        = Net(Synced, t, a, Len(Leaves[Synced]), SpendsOn(Synced))
  <2>1. Len(Leaves[Synced]) <= Len(Leaves[Synced]) /\ SpendsOn(Synced) \subseteq SpendsOn(Synced)
    BY <1>2
  <2> QED BY <1>1, <1>2, <2>1, NetKept
<1> QED BY <1>5, <1>6

(* ValuesExact is the invariant at the synced height.                      *)
LEMMA ValuesExactFromInv ==
  ASSUME VInv
  PROVE  ValuesExact
<1> SUFFICES ASSUME NEW k \in DOMAIN txs, k[1] <= SyncedHeight
             PROVE  txs[k].value = TxNet(txs[k].txid, k[3], Synced)
  BY DEF ValuesExact
<1> DEFINE t == txs[k].txid
           a == k[3]
<1>1. /\ DbTop \in Block /\ Synced \in Block /\ Synced \in Anc[DbTop]
      /\ Height[Synced] = SyncedHeight
  BY SyncedBelowTop DEF VInv
<1>2. a \in Account
  <2>1. IsTable(txs, TxId, TxRow)
    BY DEF VInv, NInv, IInv, TInv, TypeOK, DbTypes
  <2> QED BY <2>1 DEF IsTable, TxId
<1>3. /\ Keyed(DbTop, k, t)
      /\ txs[k].value = Net(DbTop, t, a, Len(Leaves[DbTop]), SpendsOn(DbTop))
  BY DEF VInv, DbValues, Values
<1>4. PICK c \in Anc[DbTop] : t \in TxsIn(c) /\ k = TxKey(c, t, a)
  BY <1>3 DEF Keyed
<1>5. c \in Anc[Synced]
  <2>1. k[1] = Height[c]
    <3> HIDE DEF t, a
    <3> QED BY <1>4 DEF TxKey
  <2> QED BY <1>1, <2>1, BelowIsAncestor
<1>6. Net(DbTop, t, a, Len(Leaves[DbTop]), SpendsOn(DbTop))
        = Net(Synced, t, a, Len(Leaves[Synced]), SpendsOn(Synced))
  <2> HIDE DEF t, a
  <2> QED BY <1>2, <1>4, <1>5, SyncedTx
<1>7. TxNet(t, a, Synced) = Net(Synced, t, a, Len(Leaves[Synced]), SpendsOn(Synced))
  <2> HIDE DEF t, a
  <2> QED BY <1>1, <1>2, TxNetIs
<1> QED BY <1>3, <1>6, <1>7

(* The value of every transaction up to the synced height is what the      *)
(* chain says that the account has received and spent in it, whatever the  *)
(* number of blocks, accounts, reorganizations and passes: the sums that   *)
(* balance and history are computed from.                                  *)
THEOREM ValuesAreExact == Untorn => (Spec => []ValuesExact)
<1> SUFFICES ASSUME Untorn PROVE Spec => []ValuesExact
  OBVIOUS
<1>1. Spec => []VInv
  BY ValuesInvariance
<1>2. VInv => ValuesExact
  BY ValuesExactFromInv
<1> QED BY <1>1, <1>2, PTL
=============================================================================
