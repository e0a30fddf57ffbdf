--------------------------- MODULE WarpSyncProofs ---------------------------
(***************************************************************************)
(* Warp sync is correctly typed, the checkpoints of the wallet are exact,  *)
(* the witnesses agree with them, the chunks in flight continue them, and  *)
(* sync never crosses to a fork, for every ledger and every bound.         *)
(*                                                                         *)
(* TypeOK alone is not inductive: what the lookups return is typed only    *)
(* if they find something.  The resume point is a MAX over the blocks      *)
(* table (HasLast), the block row is that of the last block of a batch,    *)
(* which must have one (BatchShape), and the purge looks for the highest   *)
(* witnesses up to its bound (Bounded).                                    *)
(*                                                                         *)
(* CheckpointsExact is not inductive: a block row is made of the batch and *)
(* of the tree the processor loaded, so the invariant must say that these  *)
(* continue the last checkpoint, which in turn needs the same of the       *)
(* channel and of the downloader (PipelineLinked), and that the processor  *)
(* starts with nothing in flight (Flight).                                 *)
(***************************************************************************)
EXTENDS WarpSync, SequenceTheorems, TLAPS

HasMax(S) == \E h \in S : \A k \in S : k <= h
HasLast == blocks # EmptyTable => HasMax(DOMAIN blocks)

(* The processor works on a batch, and on one that has blocks.             *)
InBatch == ppc \in {"load", "scan", "details", "store"}
BatchShape ==
  /\ InBatch => batch.blocks # << >>
  /\ ~InBatch => batch = EmptyBatch
  /\ dpc = "none" => ppc = "none"

(* Of the heights that have witnesses, those up to any d have a maximum.   *)
UpTo(S, d) == {h \in S : h <= d}
Bounded(S) == \A d \in Int : UpTo(S, d) # {} => HasMax(UpTo(S, d))
WitHeights == {k[2] : k \in DOMAIN wits}

TInv == TypeOK /\ HasLast /\ BatchShape /\ Bounded(WitHeights)

(* A set of integers with a maximum: Max returns a member and an upper     *)
(* bound of it.                                                            *)
LEMMA MaxProperties ==
  ASSUME NEW S, S \subseteq Int, HasMax(S)
  PROVE  /\ Max(S) \in S
         /\ \A k \in S : k <= Max(S)
  BY DEF HasMax, Max

(* INSERT ... ON CONFLICT DO NOTHING keeps the rows that exist and adds    *)
(* those of a free key.                                                    *)
LEMMA InsertAllTable ==
  ASSUME NEW K, NEW R, NEW f, IsTable(f, K, R), NEW h, IsTable(h, K, R)
  PROVE  /\ IsTable(InsertAll(f, h), K, R)
         /\ DOMAIN InsertAll(f, h) = DOMAIN f \cup DOMAIN h
         /\ \A j \in DOMAIN f : InsertAll(f, h)[j] = f[j]
         /\ \A j \in DOMAIN h \ DOMAIN f : InsertAll(f, h)[j] = h[j]
  BY DEF IsTable, InsertAll

(* The same for a single row. *)
LEMMA InsertTable ==
  ASSUME NEW K, NEW R, NEW f, IsTable(f, K, R), NEW k \in K, NEW r \in R
  PROVE  /\ IsTable(Insert(f, k, r), K, R)
         /\ DOMAIN Insert(f, k, r) = DOMAIN f \cup {k}
         /\ \A j \in DOMAIN f : Insert(f, k, r)[j] = f[j]
         /\ k \notin DOMAIN f => Insert(f, k, r)[k] = r
  BY DEF IsTable, Insert, InsertAll

(* HashMap::insert of a typed pair leaves a typed map. *)
LEMMA PutTable ==
  ASSUME NEW K, NEW R, NEW f, IsTable(f, K, R), NEW k \in K, NEW r \in R
  PROVE  IsTable(Put(f, k, r), K, R)
  BY DEF IsTable, Put, InsertAll

(* DELETE keeps the rows it does not name. *)
LEMMA RestrictTable ==
  ASSUME NEW K, NEW R, NEW f, IsTable(f, K, R), NEW S \in SUBSET (DOMAIN f)
  PROVE  /\ IsTable(Restrict(f, S), K, R)
         /\ DOMAIN Restrict(f, S) = S
         /\ \A j \in S : Restrict(f, S)[j] = f[j]
  BY DEF IsTable, Restrict

(* An empty table holds no row and has every type. *)
LEMMA EmptyTableTyped ==
  ASSUME NEW K, NEW R
  PROVE  IsTable(EmptyTable, K, R) /\ DOMAIN EmptyTable = {}
  BY DEF IsTable, EmptyTable

(* A table without keys is the empty table. *)
LEMMA NonEmptyTable ==
  ASSUME NEW K, NEW R, NEW f, IsTable(f, K, R)
  PROVE  f = EmptyTable <=> DOMAIN f = {}
  BY DEF IsTable, EmptyTable

(* The last block of a batch that has blocks is a block (scan.rs unwraps   *)
(* it).                                                                    *)
LEMMA LastTyped ==
  ASSUME NEW c \in Batch, c.blocks # << >>
  PROVE  LastOf(c) \in Block
  BY DEF Batch, LastOf

(* Pushing a block on the chunk of the downloader gives a chunk that ends  *)
(* in it.                                                                  *)
LEMMA PushTyped ==
  ASSUME NEW c \in Batch, NEW b \in Block
  PROVE  /\ Push(c, b) \in Batch
         /\ Push(c, b).blocks # << >>
         /\ LastOf(Push(c, b)) = b
         /\ Push(c, b).outs = c.outs \o Outs[b]
<1>1. c.blocks \in Seq(Block) /\ c.outs \in Seq(Out) /\ Outs[b] \in Seq(Out)
  BY LedgerTypes DEF Batch
<1>2. Push(c, b).blocks = Append(c.blocks, b) /\ Push(c, b).outs = c.outs \o Outs[b]
  BY DEF Push
<1>3. Append(c.blocks, b) \in Seq(Block) /\ Append(c.blocks, b) # << >>
      /\ Len(Append(c.blocks, b)) = Len(c.blocks) + 1
      /\ Append(c.blocks, b)[Len(c.blocks) + 1] = b
  BY <1>1
<1>4. c.outs \o Outs[b] \in Seq(Out)
  BY <1>1
<1> QED
  BY <1>2, <1>3, <1>4 DEF Batch, LastOf, Push

(* The fresh chunk of the downloader is an empty batch. *)
LEMMA EmptyBatchTyped ==
  EmptyBatch \in Batch /\ EmptyBatch.blocks = << >> /\ EmptyBatch.outs = << >>
  BY DEF Batch, EmptyBatch

(* What the queries for the resume point return.                           *)
LEMMA SyncedTyped ==
  ASSUME TypeOK, HasLast
  PROVE  /\ SyncedHeight \in Nat
         /\ SyncedHash \in Block \cup {NoHash}
         /\ SyncedTree \in Seq(Out)
         /\ Synced \in Block
         /\ blocks = EmptyTable => SyncedHeight = Height[Genesis] /\ Synced = Genesis
                                   /\ SyncedTree = << >> /\ SyncedHash = NoHash
         /\ blocks # EmptyTable =>
              /\ SyncedHeight \in DOMAIN blocks
              /\ \A h \in DOMAIN blocks : h <= SyncedHeight
              /\ Synced = blocks[SyncedHeight].hash /\ SyncedHash = Synced
              /\ SyncedTree = blocks[SyncedHeight].tree
<1>1. CASE blocks = EmptyTable
  BY <1>1, LedgerTypes DEF SyncedHeight, SyncedHash, SyncedTree, Synced
<1>2. CASE blocks # EmptyTable
  <2>1. DOMAIN blocks \subseteq Int
    BY DEF TypeOK, DbTypes, IsTable
  <2>2. Max(DOMAIN blocks) \in DOMAIN blocks
        /\ \A h \in DOMAIN blocks : h <= Max(DOMAIN blocks)
    BY <1>2, <2>1, MaxProperties DEF HasLast
  <2>3. blocks[Max(DOMAIN blocks)] \in BlockRow /\ Max(DOMAIN blocks) \in Nat
    BY <2>2 DEF TypeOK, DbTypes, IsTable
  <2> QED
    BY <1>2, <2>2, <2>3 DEF SyncedHeight, SyncedHash, SyncedTree, Synced, BlockRow
<1> QED BY <1>1, <1>2

-----------------------------------------------------------------------------
(* Type correctness *)

(* The locals of the scan at the start of a batch. *)
LEMMA EmptyScanTyped ==
  /\ EmptyScan = [blk |-> EmptyScan.blk, cur |-> EmptyScan.cur, pos |-> EmptyScan.pos,
        mine |-> EmptyScan.mine, found |-> EmptyScan.found, new |-> EmptyScan.new,
        notes |-> EmptyScan.notes, txs |-> EmptyScan.txs]
  /\ EmptyScan.blk = 1 /\ EmptyScan.cur = 1 /\ EmptyScan.pos = 0
  /\ EmptyScan.mine = {} /\ EmptyScan.found = FALSE
  /\ EmptyScan.new = EmptyTable /\ EmptyScan.notes = EmptyTable
  /\ EmptyScan.txs = EmptyTable
  BY DEF EmptyScan

(* The tasks hold typed values before they are spawned. *)
LEMMA IdleTyped ==
  ASSUME Idle, dend \in Nat
  PROVE  DlTypes /\ ChanTypes /\ PrTypes /\ ScanTypes
<1>1. EmptyBatch \in Batch /\ << >> \in Seq(Out) /\ << >> \in Seq(Batch) /\ Len(<< >>) = 0
  BY EmptyBatchTyped
<1>2. DlTypes
  BY <1>1 DEF Idle, DlTypes
<1>3. ChanTypes
  BY <1>1 DEF Idle, ChanTypes
<1>4. PrTypes
  BY <1>1, EmptyTableTyped DEF Idle, PrTypes
<1>5. ScanTypes
  <2>1. scan = EmptyScan
    BY DEF Idle
  <2>2. scan.found \in BOOLEAN
    BY <2>1, EmptyScanTyped, Zenon
  <2> QED BY <2>1, <2>2, EmptyScanTyped, EmptyTableTyped DEF ScanTypes
<1> QED BY <1>2, <1>3, <1>4, <1>5

(* A new wallet is typed. *)
LEMMA TypeInit == Init => TypeOK
<1> SUFFICES ASSUME Init PROVE TypeOK
  OBVIOUS
<1>1. DbTypes
  BY EmptyTableTyped DEF Init, DbTypes
<1>2. CallTypes
  <2>1. cancel \in BOOLEAN
    BY Zenon DEF Init
  <2> QED BY <2>1, WarpSyncConstants DEF Init, CallTypes
<1>3. DlTypes /\ ChanTypes /\ PrTypes /\ ScanTypes
  BY IdleTyped DEF Init
<1> QED BY <1>1, <1>2, <1>3 DEF Init, TypeOK

(* The tasks hold typed values after they have been joined or have died. *)
LEMMA ResetTyped ==
  ASSUME ResetTasks, dend \in Nat, dend' = dend
  PROVE  DlTypes' /\ ChanTypes' /\ PrTypes' /\ ScanTypes'
<1>1. EmptyBatch \in Batch /\ << >> \in Seq(Out) /\ << >> \in Seq(Batch) /\ Len(<< >>) = 0
  BY EmptyBatchTyped
<1>2. DlTypes'
  BY <1>1 DEF ResetTasks, DlTypes
<1>3. ChanTypes'
  BY <1>1 DEF ResetTasks, ChanTypes
<1>4. PrTypes'
  BY <1>1, EmptyTableTyped DEF ResetTasks, PrTypes
<1>5. ScanTypes'
  <2>1. scan' = EmptyScan
    BY DEF ResetTasks
  <2>2. scan'.found \in BOOLEAN
    BY <2>1, EmptyScanTyped, Zenon
  <2> QED BY <2>1, <2>2, EmptyScanTyped, EmptyTableTyped DEF ScanTypes
<1> QED BY <1>2, <1>3, <1>4, <1>5

(* A step keeps the types of the variables it leaves alone. *)
LEMMA Kept ==
  /\ DbTypes /\ UNCHANGED dbVars => DbTypes'
  /\ CallTypes /\ UNCHANGED callVars => CallTypes'
  /\ DlTypes /\ UNCHANGED dlVars => DlTypes'
  /\ ChanTypes /\ UNCHANGED chan => ChanTypes'
  /\ PrTypes /\ ScanTypes /\ UNCHANGED prVars => PrTypes' /\ ScanTypes'
<1>1. DbTypes /\ UNCHANGED dbVars => DbTypes'
  BY DEF DbTypes, dbVars
<1>2. CallTypes /\ UNCHANGED callVars => CallTypes'
  BY DEF CallTypes, callVars
<1>3. DlTypes /\ UNCHANGED dlVars => DlTypes'
  BY DEF DlTypes, dlVars
<1>4. ChanTypes /\ UNCHANGED chan => ChanTypes'
  BY DEF ChanTypes
<1>5. PrTypes /\ ScanTypes /\ UNCHANGED prVars => PrTypes' /\ ScanTypes'
  BY DEF PrTypes, ScanTypes, prVars
<1> QED BY <1>1, <1>2, <1>3, <1>4, <1>5

(* The steps of the server keep the types. *)
LEMMA ServerTyped ==
  ASSUME TypeOK, Server
  PROVE  TypeOK'
<1>1. tip' \in Block
  BY DEF Server, MineBlock, Reorg
<1>2. UNCHANGED dbVars /\ UNCHANGED callVars /\ UNCHANGED dlVars /\ UNCHANGED chan
      /\ UNCHANGED prVars
  BY DEF Server, MineBlock, Reorg
<1> QED BY <1>1, <1>2, Kept DEF TypeOK

(* The end of a pass (coin_sync) keeps the types of the call. *)
LEMMA ReturnTyped ==
  ASSUME CallTypes, NEW r \in {"none", "ok", "reorg", "err", "panic"}, Return(r),
         faults' \in 0..MaxFaults
  PROVE  CallTypes'
<1>1. cancel' \in BOOLEAN
  BY Zenon DEF CallTypes, Return
<1>2. pass' \in 0..2
  BY DEF CallTypes, Return
<1>3. result' \in {"none", "ok", "reorg", "err", "panic", "crash"}
  BY DEF CallTypes, Return
<1> QED BY <1>1, <1>2, <1>3 DEF CallTypes

(* The steps of the call to warp keep the types. *)
LEMMA CallTyped ==
  ASSUME TypeOK, HasLast, Call
  PROVE  TypeOK'
<1> USE DEF TypeOK
<1>1. ASSUME WarpStart PROVE TypeOK'
  <2>1. UNCHANGED dbVars /\ UNCHANGED dlVars /\ UNCHANGED chan /\ UNCHANGED prVars
    BY <1>1 DEF WarpStart
  <2>2. CallTypes' /\ tip' \in Block
    BY <1>1 DEF WarpStart, CallTypes
  <2> QED BY <2>1, <2>2, Kept
<1>2. ASSUME BeginPass PROVE TypeOK'
  <2>1. Height[tip] \in Int /\ Offset \in Int /\ SyncedHeight \in Nat
    BY SyncedTyped, LedgerTypes, WarpSyncConstants DEF Offset
  <2>2. EndHeight \in {Height[tip] - Offset, SyncedHeight} /\ SyncedHeight <= EndHeight
    <3>1. HasMax({Height[tip] - Offset, SyncedHeight})
      BY <2>1 DEF HasMax
    <3> QED BY <2>1, <3>1, MaxProperties DEF EndHeight
  <2>3. EndHeight \in Nat
    BY <2>1, <2>2
  <2>4. CallTypes'
    <3>1. faults' \in 0..MaxFaults
      BY <1>2 DEF BeginPass, CallTypes
    <3>2. CASE SyncedHeight >= EndHeight
      BY <1>2, <3>1, <3>2, ReturnTyped DEF BeginPass
    <3>3. CASE ~(SyncedHeight >= EndHeight)
      BY <1>2, <3>3, Kept DEF BeginPass, callVars
    <3> QED BY <3>2, <3>3
  <2>5. DlTypes'
    BY <1>2, <2>1, <2>3, SyncedTyped DEF BeginPass, DlTypes
  <2>6. PrTypes' /\ ScanTypes'
    BY <1>2 DEF BeginPass, PrTypes, ScanTypes
  <2>7. UNCHANGED dbVars /\ UNCHANGED chan /\ UNCHANGED tip
    BY <1>2 DEF BeginPass, dbVars
  <2> QED BY <2>4, <2>5, <2>6, <2>7, Kept
<1>3. ASSUME ConnectFail PROVE TypeOK'
  <2>1. CallTypes'
    <3>1. faults' \in 0..MaxFaults
      BY <1>3, WarpSyncConstants DEF ConnectFail, Fault, CallTypes
    <3> QED BY <1>3, <3>1, ReturnTyped DEF ConnectFail
  <2>2. UNCHANGED dbVars /\ UNCHANGED dlVars /\ UNCHANGED chan /\ UNCHANGED prVars
        /\ UNCHANGED tip
    BY <1>3 DEF ConnectFail
  <2> QED BY <2>1, <2>2, Kept
<1>4. ASSUME Join PROVE TypeOK'
  <2>1. DlTypes' /\ ChanTypes' /\ PrTypes' /\ ScanTypes'
    BY <1>4, ResetTyped DEF Join, DlTypes
  <2>2. CallTypes'
    <3>1. PassResult \in {"none", "ok", "reorg", "err", "panic"}
      BY <1>4 DEF Join, PassResult, DlTypes, PrTypes
    <3>2. faults' \in 0..MaxFaults
      BY <1>4 DEF Join, CallTypes
    <3> QED BY <1>4, <3>1, <3>2, ReturnTyped DEF Join
  <2>3. UNCHANGED dbVars /\ UNCHANGED tip
    BY <1>4 DEF Join
  <2> QED BY <2>1, <2>2, <2>3, Kept
<1>5. ASSUME Die, result' \in {"panic", "crash"}, faults' \in 0..MaxFaults PROVE TypeOK'
  <2>1. DlTypes' /\ ChanTypes' /\ PrTypes' /\ ScanTypes'
    BY <1>5, ResetTyped DEF Die, DlTypes
  <2>2. CallTypes'
    <3>1. cancel' \in BOOLEAN
      BY <1>5, Zenon DEF Die
    <3> QED BY <1>5, <3>1 DEF Die, CallTypes
  <2>3. UNCHANGED dbVars /\ UNCHANGED tip
    BY <1>5 DEF Die
  <2> QED BY <2>1, <2>2, <2>3, Kept
<1>6. ASSUME JoinPanic PROVE TypeOK'
  BY <1>5, <1>6 DEF JoinPanic, CallTypes
<1>7. ASSUME Crash PROVE TypeOK'
  BY <1>5, <1>7, WarpSyncConstants DEF Crash, Fault, CallTypes
<1>8. ASSUME CancelWarp PROVE TypeOK'
  <2>1. UNCHANGED dbVars /\ UNCHANGED dlVars /\ UNCHANGED chan /\ UNCHANGED prVars
    BY <1>8 DEF CancelWarp
  <2>2. CallTypes' /\ tip' \in Block
    BY <1>8 DEF CancelWarp, CallTypes
  <2> QED BY <2>1, <2>2, Kept
<1> QED
  BY <1>1, <1>2, <1>3, <1>4, <1>6, <1>7, <1>8 DEF Call

(* The end of the downloader keeps its types. *)
LEMMA EndsTyped ==
  ASSUME DlTypes, NEW r \in {"ok", "reorg", "err", "panic"}, DownloaderEnds(r),
         UNCHANGED <<dnext, dend, dprev>>
  PROVE  DlTypes'
  BY EmptyBatchTyped DEF DlTypes, DownloaderEnds

(* The steps of the downloader (download_chain) keep the types. *)
LEMMA DownloaderTyped ==
  ASSUME TypeOK, Downloader
  PROVE  TypeOK'
<1> USE DEF TypeOK
<1>1. ASSUME TakeBlock PROVE TypeOK'
  <2>1. PICK b \in Block :
          /\ dprev' = b
          /\ IF Len(cbs.outs) + Len(Outs[b]) > MaxOutputs
               THEN /\ dpc' = "send" /\ outbox' = cbs
                    /\ cbs' = Push(EmptyBatch, b)
               ELSE /\ cbs' = Push(cbs, b)
                    /\ UNCHANGED <<dpc, outbox>>
    BY <1>1 DEF TakeBlock
  <2>2. Push(EmptyBatch, b) \in Batch /\ Push(cbs, b) \in Batch
    BY PushTyped, EmptyBatchTyped DEF DlTypes
  <2>3. dnext' = dnext + 1 /\ UNCHANGED <<dend, dres>>
    BY <1>1 DEF TakeBlock
  <2>4. DlTypes'
    <3>1. /\ dpc' \in {dpc, "send"}
          /\ outbox' \in {outbox, cbs}
          /\ cbs' \in {Push(EmptyBatch, b), Push(cbs, b)}
      BY <2>1
    <3> QED BY <2>1, <2>2, <2>3, <3>1 DEF DlTypes
  <2>5. UNCHANGED dbVars /\ UNCHANGED callVars /\ UNCHANGED chan /\ UNCHANGED prVars
        /\ UNCHANGED tip
    BY <1>1 DEF TakeBlock
  <2> QED BY <2>4, <2>5, Kept
<1>2. ASSUME DetectReorg PROVE TypeOK'
  <2>1. UNCHANGED dbVars /\ UNCHANGED callVars /\ UNCHANGED chan /\ UNCHANGED prVars
        /\ UNCHANGED tip
    BY <1>2 DEF DetectReorg
  <2> QED BY <1>2, <2>1, EndsTyped, Kept DEF DetectReorg
<1>3. ASSUME StreamEnd PROVE TypeOK'
  <2>1. UNCHANGED dbVars /\ UNCHANGED callVars /\ UNCHANGED chan /\ UNCHANGED prVars
        /\ UNCHANGED tip
    BY <1>3 DEF StreamEnd
  <2>2. DlTypes'
    BY <1>3, EmptyBatchTyped DEF StreamEnd, DlTypes
  <2> QED BY <2>1, <2>2, Kept
<1>4. ASSUME StreamShort PROVE TypeOK'
  <2>1. UNCHANGED dbVars /\ UNCHANGED callVars /\ UNCHANGED chan /\ UNCHANGED prVars
        /\ UNCHANGED tip
    BY <1>4 DEF StreamShort
  <2> QED BY <1>4, <2>1, EndsTyped, Kept DEF StreamShort
<1>5. ASSUME StreamError PROVE TypeOK'
  <2>1. UNCHANGED dbVars /\ UNCHANGED chan /\ UNCHANGED prVars /\ UNCHANGED tip
    BY <1>5 DEF StreamError
  <2>2. CallTypes'
    BY <1>5, WarpSyncConstants DEF StreamError, Fault, CallTypes
  <2> QED BY <1>5, <2>1, <2>2, EndsTyped, Kept DEF StreamError
<1>6. ASSUME Send PROVE TypeOK'
  <2>1. UNCHANGED dbVars /\ UNCHANGED callVars /\ UNCHANGED prVars /\ UNCHANGED tip
    BY <1>6 DEF Send
  <2>2. DlTypes'
    BY <1>6, EmptyBatchTyped DEF Send, DlTypes
  <2>3. ChanTypes'
    <3>1. chan = << >> /\ outbox \in Batch /\ chan' = Append(chan, outbox)
      BY <1>6 DEF Send, Slot, DlTypes
    <3> QED BY <3>1 DEF ChanTypes
  <2> QED BY <2>1, <2>2, <2>3, Kept
<1>7. ASSUME SendPanic PROVE TypeOK'
  <2>1. UNCHANGED dbVars /\ UNCHANGED callVars /\ UNCHANGED chan /\ UNCHANGED prVars
        /\ UNCHANGED tip
    BY <1>7 DEF SendPanic
  <2> QED BY <1>7, <2>1, EndsTyped, Kept DEF SendPanic
<1>8. ASSUME SendLast PROVE TypeOK'
  <2>1. UNCHANGED dbVars /\ UNCHANGED callVars /\ UNCHANGED prVars /\ UNCHANGED tip
    BY <1>8 DEF SendLast
  <2>2. DlTypes'
    BY <1>8, EndsTyped DEF SendLast
  <2>3. ChanTypes'
    <3>1. CASE UNCHANGED chan
      BY <3>1, Kept
    <3>2. CASE Slot /\ chan' = Append(chan, outbox)
      <4>1. chan = << >> /\ outbox \in Batch
        BY <3>2 DEF Slot, DlTypes
      <4> QED BY <3>2, <4>1 DEF ChanTypes
    <3> QED BY <1>8, <3>1, <3>2 DEF SendLast
  <2> QED BY <2>1, <2>2, <2>3, Kept
<1> QED
  BY <1>1, <1>2, <1>3, <1>4, <1>5, <1>6, <1>7, <1>8 DEF Downloader

(* The end of the processor keeps its types. *)
LEMMA ProcessorEndsTyped ==
  ASSUME PrTypes, NEW r \in {"ok", "err", "panic"}, ProcessorEnds(r)
  PROVE  PrTypes' /\ ScanTypes'
<1>1. EmptyBatch \in Batch /\ << >> \in Seq(Out)
  BY EmptyBatchTyped
<1>2. PrTypes'
  BY <1>1, EmptyTableTyped DEF ProcessorEnds, PrTypes
<1>3. ScanTypes'
  <2>1. scan' = EmptyScan
    BY DEF ProcessorEnds
  <2>2. scan'.found \in BOOLEAN
    BY <2>1, EmptyScanTyped, Zenon
  <2> QED BY <2>1, <2>2, EmptyScanTyped, EmptyTableTyped DEF ScanTypes
<1> QED BY <1>2, <1>3

(* What LoadTree reads from the database. *)
LEMMA ReadTyped ==
  ASSUME DbTypes
  PROVE  /\ IsTable(Nullifiers, Nf, NoteId)
         /\ IsTable(StoredWitnesses, NoteId, Witness)
<1>1. IsTable(Nullifiers, Nf, NoteId)
  <2>1. \A n \in Unspent(notes) : n \in NoteId /\ notes[n].nf \in Nf
    BY DEF DbTypes, IsTable, Unspent, NoteRow
  <2>2. \A nf \in {notes[n].nf : n \in Unspent(notes)} :
          (CHOOSE n \in Unspent(notes) : notes[n].nf = nf) \in Unspent(notes)
    OBVIOUS
  <2> QED BY <2>1, <2>2 DEF IsTable, Nullifiers
<1>2. IsTable(StoredWitnesses, NoteId, Witness)
  <2>1. \A n \in Unspent(notes) : n \in NoteId
    BY DEF DbTypes, IsTable, Unspent
  <2>2. \A k \in DOMAIN wits : wits[k] \in Witness
    BY DEF DbTypes, IsTable
  <2> QED BY <2>1, <2>2 DEF IsTable, StoredWitnesses
<1> QED BY <1>1, <1>2

(* The rows of a table of transactions after store_transaction. *)
LEMMA StoreTransactionTyped ==
  ASSUME ScanTypes, NEW b \in Block, NEW t \in Tx, NEW a \in Account
  PROVE  IsTable(StoreTransaction(b, t, a), TxId, TxRow)
<1>1. TxKey(b, t, a) \in TxId
  BY LedgerTypes DEF TxKey, TxId
<1>2. [txid |-> t, value |-> 0] \in TxRow
  BY DEF TxRow
<1> QED BY <1>1, <1>2, InsertTable DEF ScanTypes, StoreTransaction

(* add_value keeps the types of the transactions. *)
LEMMA AddValueTyped ==
  ASSUME NEW f, IsTable(f, TxId, TxRow), NEW k \in DOMAIN f, NEW v \in Int
  PROVE  IsTable([f EXCEPT ![k].value = @ + v], TxId, TxRow)
<1>1. f[k] \in TxRow
  BY DEF IsTable
<1>2. [f[k] EXCEPT !.value = @ + v] \in TxRow
  BY <1>1 DEF TxRow
<1> QED BY <1>2 DEF IsTable

(* add_value of a negative amount keeps the types of the transactions. *)
LEMMA SubValueTyped ==
  ASSUME NEW f, IsTable(f, TxId, TxRow), NEW k \in DOMAIN f, NEW v \in Int
  PROVE  IsTable([f EXCEPT ![k].value = @ - v], TxId, TxRow)
<1>1. f[k] \in TxRow
  BY DEF IsTable
<1>2. [f[k] EXCEPT !.value = @ - v] \in TxRow
  BY <1>1 DEF TxRow
<1> QED BY <1>2 DEF IsTable

(* An item of the spends of a block is a transaction and a nullifier. *)
LEMMA SpendTyped ==
  ASSUME NEW b \in Block, NEW i \in 1..NSpends(b)
  PROVE  Spends[b][i].nf \in Nf /\ Spends[b][i].tx \in Tx
<1>1. Spends[b] \in Seq(Spend) /\ i \in 1..Len(Spends[b])
  BY LedgerTypes DEF NSpends
<1>2. Spends[b][i] \in Spend
  BY <1>1
<1> QED BY <1>2 DEF Spend

(* The steps of the scan keep the types, the lookups of store_transaction  *)
(* included.                                                               *)
LEMMA ScanStepTyped ==
  ASSUME PrTypes, ScanTypes, BatchShape,
         ScanSpend \/ ScanNote \/ SkipOutput \/ ScanDebit \/ SkipSpend \/ EndBlock
  PROVE  PrTypes' /\ ScanTypes'
<1>1. ASSUME ScanSpend PROVE PrTypes' /\ ScanTypes'
  <2>1. PICK b \in Block :
          /\ Scanning(b) /\ scan.cur \in 1..NSpends(b)
          /\ LET nf == Spends[b][scan.cur].nf IN
             IF nf \in DOMAIN nfs
               THEN /\ scan' = [scan EXCEPT !.cur = @ + 1, !.mine = @ \cup {nf},
                          !.notes = [n \in DOMAIN @ |->
                             IF n = nfs[nf] THEN [@[n] EXCEPT !.spent = Height[b]] ELSE @[n]]]
                    /\ nfs' = Restrict(nfs, DOMAIN nfs \ {nf})
               ELSE scan' = [scan EXCEPT !.cur = @ + 1] /\ UNCHANGED nfs
    BY <1>1 DEF ScanSpend
  <2> DEFINE nf == Spends[b][scan.cur].nf
             marked == [n \in DOMAIN scan.notes |->
                          IF n = nfs[nf] THEN [scan.notes[n] EXCEPT !.spent = Height[b]]
                                         ELSE scan.notes[n]]
  <2>2. nf \in Nf /\ Height[b] \in Nat
    BY <2>1, SpendTyped, LedgerTypes
  <2>3. IsTable(marked, NoteId, NoteRow)
    <3>1. \A n \in DOMAIN scan.notes : n \in NoteId /\ scan.notes[n] \in NoteRow
      BY DEF ScanTypes, IsTable
    <3>2. \A n \in DOMAIN scan.notes : marked[n] \in NoteRow
      BY <2>2, <3>1 DEF NoteRow
    <3> QED BY <3>1, <3>2 DEF IsTable
  <2>4. UNCHANGED <<ppc, batch, tree, bwits, pres>>
    BY <1>1 DEF ScanSpend
  <2>5. CASE nf \in DOMAIN nfs
    <3>1. scan' = [scan EXCEPT !.cur = @ + 1, !.mine = @ \cup {nf}, !.notes = marked]
      BY <2>1, <2>5
    <3>2. ScanTypes'
      <4>1. scan' = [blk |-> scan'.blk, cur |-> scan'.cur, pos |-> scan'.pos, mine |-> scan'.mine,
             found |-> scan'.found, new |-> scan'.new, notes |-> scan'.notes, txs |-> scan'.txs]
        BY <3>1 DEF ScanTypes
      <4>2. /\ scan'.blk = scan.blk /\ scan'.cur = scan.cur + 1 /\ scan'.pos = scan.pos
            /\ scan'.mine = scan.mine \cup {nf} /\ scan'.found = scan.found
            /\ scan'.new = scan.new /\ scan'.notes = marked /\ scan'.txs = scan.txs
        BY <3>1 DEF ScanTypes
      <4> QED BY <2>2, <2>3, <4>1, <4>2 DEF ScanTypes
    <3>3. IsTable(nfs', Nf, NoteId)
      BY <2>1, <2>5, RestrictTable DEF PrTypes
    <3> QED BY <2>4, <3>2, <3>3 DEF PrTypes
  <2>6. CASE nf \notin DOMAIN nfs
    <3>1. scan' = [scan EXCEPT !.cur = @ + 1] /\ UNCHANGED nfs
      BY <2>1, <2>6
    <3> QED BY <2>4, <3>1 DEF ScanTypes, PrTypes
  <2> QED BY <2>5, <2>6
<1>2. ASSUME ScanNote PROVE PrTypes' /\ ScanTypes'
  <2>1. PICK b \in Block :
          /\ AtOutput(b) /\ Mine(NewNf(b)[1])
          /\ \E row \in TxRows(StoreTransaction(b, TxOf[NewNf(b)[1]], Owner[NewNf(b)[1]]),
                               TxOf[NewNf(b)[1]], Owner[NewNf(b)[1]]) :
               LET nf == NewNf(b)
                   o == nf[1]
                   table == StoreTransaction(b, TxOf[o], Owner[o])
                   id == <<row, o>> IN
               /\ NoteFound(id, nf)
               /\ scan' = [scan EXCEPT !.cur = @ + 1, !.found = TRUE,
                     !.notes = Insert(@, id, [nf |-> nf, height |-> Height[b], spent |-> Null]),
                     !.txs = [table EXCEPT ![row].value = @ + Value[o]],
                     !.new = Put(@, id, nf[2])]
               /\ nfs' = Learn(nf, id)
    BY <1>2 DEF ScanNote
  <2> DEFINE nf == NewNf(b)
             o == nf[1]
             table == StoreTransaction(b, TxOf[o], Owner[o])
  <2>2. PICK row \in TxRows(table, TxOf[o], Owner[o]) :
          /\ scan' = [scan EXCEPT !.cur = @ + 1, !.found = TRUE,
               !.notes = Insert(@, <<row, o>>, [nf |-> nf, height |-> Height[b], spent |-> Null]),
               !.txs = [table EXCEPT ![row].value = @ + Value[o]],
               !.new = Put(@, <<row, o>>, nf[2])]
          /\ nfs' = Learn(nf, <<row, o>>)
    BY <2>1
  <2>3. nf \in Nf /\ o \in Out /\ nf[2] \in Nat /\ Owner[o] \in Account
    <3>1. scan.cur - NSpends(b) \in 1..NOuts(b) /\ Outs[b] \in Seq(Out)
      BY <2>1, LedgerTypes DEF AtOutput
    <3>2. scan.cur - NSpends(b) \in Nat /\ scan.cur - NSpends(b) >= 1
          /\ Outs[b][scan.cur - NSpends(b)] \in Out
      BY <3>1 DEF NOuts
    <3>3. nf = <<Outs[b][scan.cur - NSpends(b)], scan.pos + (scan.cur - NSpends(b)) - 1>>
          /\ Mine(nf[1])
      BY <2>1 DEF NewNf
    <3>4. scan.pos \in Nat
      BY DEF ScanTypes
    <3> HIDE DEF nf
    <3>5. o = Outs[b][scan.cur - NSpends(b)]
          /\ nf[2] = scan.pos + (scan.cur - NSpends(b)) - 1 /\ nf = <<o, nf[2]>>
      BY <3>3
    <3>6. nf[2] \in Nat
      BY <3>2, <3>4, <3>5
    <3> QED BY <3>2, <3>3, <3>5, <3>6 DEF Nf, Mine
  <2>4. IsTable(table, TxId, TxRow)
    BY <2>3, LedgerTypes, StoreTransactionTyped
  <2>5. row \in DOMAIN table /\ <<row, o>> \in NoteId
    BY <2>3, <2>4 DEF TxRows, IsTable, NoteId
  <2>6. IsTable([table EXCEPT ![row].value = @ + Value[o]], TxId, TxRow)
    <3>1. row \in DOMAIN table /\ Value[o] \in Int
      BY <2>3, <2>5, LedgerTypes
    <3> QED BY <2>4, <3>1, AddValueTyped
  <2>7. IsTable(Insert(scan.notes, <<row, o>>, [nf |-> nf, height |-> Height[b], spent |-> Null]),
                NoteId, NoteRow)
    <3>1. [nf |-> nf, height |-> Height[b], spent |-> Null] \in NoteRow
      BY <2>3, LedgerTypes DEF NoteRow
    <3> QED BY <2>5, <3>1, InsertTable DEF ScanTypes
  <2>8. IsTable(Put(scan.new, <<row, o>>, nf[2]), NoteId, Nat)
    BY <2>3, <2>5, PutTable DEF ScanTypes
  <2>9. IsTable(nfs', Nf, NoteId)
    BY <2>2, <2>3, <2>5, PutTable DEF Learn, PrTypes
  <2>10. ScanTypes'
    <3>1. scan'.found \in BOOLEAN
      <4>1. scan'.found = TRUE
        BY <2>2 DEF ScanTypes
      <4> QED BY <4>1, Zenon
    <3>2. scan' = [blk |-> scan'.blk, cur |-> scan'.cur, pos |-> scan'.pos, mine |-> scan'.mine,
             found |-> scan'.found, new |-> scan'.new, notes |-> scan'.notes, txs |-> scan'.txs]
      BY <2>2 DEF ScanTypes
    <3>3. /\ scan'.blk = scan.blk /\ scan'.cur = scan.cur + 1 /\ scan'.pos = scan.pos
          /\ scan'.mine = scan.mine
          /\ scan'.notes = Insert(scan.notes, <<row, o>>,
                                  [nf |-> nf, height |-> Height[b], spent |-> Null])
          /\ scan'.txs = [table EXCEPT ![row].value = @ + Value[o]]
          /\ scan'.new = Put(scan.new, <<row, o>>, nf[2])
      BY <2>2 DEF ScanTypes
    <3>4. scan'.blk \in Nat /\ scan'.cur \in Nat /\ scan'.pos \in Nat /\ scan'.mine \subseteq Nf
      BY <3>3 DEF ScanTypes
    <3>5. IsTable(scan'.new, NoteId, Nat) /\ IsTable(scan'.notes, NoteId, NoteRow)
          /\ IsTable(scan'.txs, TxId, TxRow)
      <4> HIDE DEF table, nf, o
      <4> QED BY <2>6, <2>7, <2>8, <3>3, Zenon
    <3> QED BY <3>1, <3>2, <3>4, <3>5, Zenon DEF ScanTypes
  <2> QED BY <1>2, <2>9, <2>10 DEF ScanNote, PrTypes
<1>3. ASSUME SkipOutput \/ SkipSpend PROVE PrTypes' /\ ScanTypes'
  BY <1>3 DEF SkipOutput, SkipSpend, PrTypes, ScanTypes
<1>4. ASSUME ScanDebit PROVE PrTypes' /\ ScanTypes'
  <2>1. PICK b \in Block : \E n \in DebitNotes(Debit(b).nf) : AtDebit(b) /\
            LET table == StoreTransaction(b, Debit(b).tx, AccountOf(n)) IN
            \E row \in TxRows(table, Debit(b).tx, AccountOf(n)) :
              scan' = [scan EXCEPT !.cur = @ + 1, !.found = TRUE,
                         !.txs = [table EXCEPT ![row].value = @ - Value[OutOf(n)]]]
    BY <1>4 DEF ScanDebit
  <2>2. PICK n \in DebitNotes(Debit(b).nf) : AtDebit(b) /\
            \E row \in TxRows(StoreTransaction(b, Debit(b).tx, AccountOf(n)),
                              Debit(b).tx, AccountOf(n)) :
              scan' = [scan EXCEPT !.cur = @ + 1, !.found = TRUE,
                         !.txs = [StoreTransaction(b, Debit(b).tx, AccountOf(n))
                                    EXCEPT ![row].value = @ - Value[OutOf(n)]]]
    BY <2>1
  <2> DEFINE table == StoreTransaction(b, Debit(b).tx, AccountOf(n))
  <2>3. PICK row \in TxRows(table, Debit(b).tx, AccountOf(n)) :
              scan' = [scan EXCEPT !.cur = @ + 1, !.found = TRUE,
                         !.txs = [table EXCEPT ![row].value = @ - Value[OutOf(n)]]]
    BY <2>2
  <2>4. AccountOf(n) \in Account /\ OutOf(n) \in Out
    <3>1. n \in NoteId
      BY <2>2 DEF DebitNotes, ScanTypes, IsTable
    <3> QED BY <3>1 DEF NoteId, TxId, AccountOf, OutOf
  <2>5. Debit(b).tx \in Tx
    BY <2>2, SpendTyped DEF AtDebit, Debit
  <2>6. IsTable(table, TxId, TxRow)
    BY <2>4, <2>5, StoreTransactionTyped
  <2>7. IsTable([table EXCEPT ![row].value = @ - Value[OutOf(n)]], TxId, TxRow)
    <3>1. row \in DOMAIN table /\ Value[OutOf(n)] \in Int
      BY <2>4, LedgerTypes DEF TxRows
    <3> QED BY <2>6, <3>1, SubValueTyped
  <2>8. ScanTypes'
    <3>1. scan'.found \in BOOLEAN
      <4>1. scan'.found = TRUE
        BY <2>3 DEF ScanTypes
      <4> QED BY <4>1, Zenon
    <3>2. scan' = [blk |-> scan'.blk, cur |-> scan'.cur, pos |-> scan'.pos, mine |-> scan'.mine,
             found |-> scan'.found, new |-> scan'.new, notes |-> scan'.notes, txs |-> scan'.txs]
      BY <2>3 DEF ScanTypes
    <3>3. /\ scan'.blk = scan.blk /\ scan'.cur = scan.cur + 1 /\ scan'.pos = scan.pos
          /\ scan'.mine = scan.mine /\ scan'.notes = scan.notes /\ scan'.new = scan.new
          /\ scan'.txs = [table EXCEPT ![row].value = @ - Value[OutOf(n)]]
      BY <2>3 DEF ScanTypes
    <3> QED BY <2>7, <3>1, <3>2, <3>3 DEF ScanTypes
  <2> QED BY <1>4, <2>8 DEF ScanDebit, PrTypes
<1>5. ASSUME EndBlock PROVE PrTypes' /\ ScanTypes'
  <2>1. PICK b \in Block :
      scan' = [scan EXCEPT !.blk = @ + 1, !.cur = 1, !.mine = {}, !.pos = @ + NOuts(b)]
    BY <1>5 DEF EndBlock
  <2>2. NOuts(b) \in Nat
    BY LedgerTypes DEF NOuts
  <2>3. ScanTypes'
    <3>1. scan' = [blk |-> scan'.blk, cur |-> scan'.cur, pos |-> scan'.pos, mine |-> scan'.mine,
             found |-> scan'.found, new |-> scan'.new, notes |-> scan'.notes, txs |-> scan'.txs]
      BY <2>1 DEF ScanTypes
    <3>2. /\ scan'.blk = scan.blk + 1 /\ scan'.cur = 1 /\ scan'.pos = scan.pos + NOuts(b)
          /\ scan'.mine = {} /\ scan'.found = scan.found
          /\ scan'.new = scan.new /\ scan'.notes = scan.notes /\ scan'.txs = scan.txs
      BY <2>1 DEF ScanTypes
    <3> QED BY <2>2, <3>1, <3>2 DEF ScanTypes
  <2> QED BY <1>5, <2>3 DEF EndBlock, PrTypes
<1> QED BY <1>1, <1>2, <1>3, <1>4, <1>5

(* The witnesses that a batch ends with (builder.rs) are those it started  *)
(* with and those of the notes it found.                                   *)
LEMMA NewWitnessesTyped ==
  ASSUME PrTypes, ScanTypes, NewTree \in Seq(Out)
  PROVE  /\ IsTable(NewWitnesses, NoteId, Witness)
         /\ DOMAIN NewWitnesses = DOMAIN bwits \cup DOMAIN scan.new
<1> DEFINE old == [n \in DOMAIN bwits |-> [bwits[n] EXCEPT !.leaves = @ \o batch.outs]]
           new == [n \in DOMAIN scan.new |-> [pos |-> scan.new[n], leaves |-> NewTree]]
<1>1. IsTable(old, NoteId, Witness)
  <2>1. batch.outs \in Seq(Out)
    BY DEF PrTypes, Batch
  <2>2. \A n \in DOMAIN bwits : n \in NoteId /\ old[n] \in Witness
    <3> TAKE n \in DOMAIN bwits
    <3>1. n \in NoteId /\ bwits[n].pos \in Nat /\ bwits[n].leaves \in Seq(Out)
          /\ bwits[n] = [pos |-> bwits[n].pos, leaves |-> bwits[n].leaves]
      BY DEF PrTypes, IsTable, Witness
    <3>2. bwits[n].leaves \o batch.outs \in Seq(Out)
      BY <2>1, <3>1
    <3>3. old[n] = [pos |-> bwits[n].pos, leaves |-> bwits[n].leaves \o batch.outs]
      BY <3>1
    <3> QED BY <3>1, <3>2, <3>3 DEF Witness
  <2> QED BY <2>2 DEF IsTable
<1>2. IsTable(new, NoteId, Witness)
  BY DEF ScanTypes, IsTable, Witness
<1>3. NewWitnesses = InsertAll(old, new)
  BY DEF NewWitnesses
<1>4. DOMAIN old = DOMAIN bwits /\ DOMAIN new = DOMAIN scan.new
  OBVIOUS
<1> HIDE DEF old, new
<1>5. IsTable(InsertAll(old, new), NoteId, Witness)
      /\ DOMAIN InsertAll(old, new) = DOMAIN old \cup DOMAIN new
  <2>1. \A f, h : IsTable(f, NoteId, Witness) /\ IsTable(h, NoteId, Witness) =>
          /\ IsTable(InsertAll(f, h), NoteId, Witness)
          /\ DOMAIN InsertAll(f, h) = DOMAIN f \cup DOMAIN h
    BY DEF IsTable, InsertAll
  <2> QED BY <1>1, <1>2, <2>1, Zenon
<1> QED BY <1>3, <1>4, <1>5

(* The steps of the processor keep the types. *)
LEMMA ProcessorTyped ==
  ASSUME TypeOK, HasLast, BatchShape, Processor
  PROVE  TypeOK'
<1> USE DEF TypeOK
<1>1. ASSUME OpenDb PROVE TypeOK'
  <2>1. PrTypes' /\ ScanTypes'
    BY <1>1, ReadTyped DEF OpenDb, PrTypes, ScanTypes
  <2>2. UNCHANGED dbVars /\ UNCHANGED callVars /\ UNCHANGED dlVars /\ UNCHANGED chan
        /\ UNCHANGED tip
    BY <1>1 DEF OpenDb
  <2> QED BY <2>1, <2>2, Kept
<1>2. ASSUME Recv PROVE TypeOK'
  <2>1. Head(chan) \in Batch /\ ChanTypes'
    <3>1. chan \in Seq(Batch) /\ chan # << >> /\ chan' = Tail(chan) /\ Len(chan) <= 1
      BY <1>2 DEF Recv, ChanTypes
    <3>2. Head(chan) \in Batch /\ Tail(chan) \in Seq(Batch) /\ Len(Tail(chan)) = Len(chan) - 1
      BY <3>1
    <3> QED BY <3>1, <3>2 DEF ChanTypes
  <2>2. PrTypes' /\ ScanTypes'
    BY <1>2, <2>1 DEF Recv, PrTypes, ScanTypes
  <2>3. UNCHANGED dbVars /\ UNCHANGED callVars /\ UNCHANGED dlVars /\ UNCHANGED tip
    BY <1>2 DEF Recv
  <2> QED BY <2>1, <2>2, <2>3, Kept
<1>3. ASSUME RecvClosed PROVE TypeOK'
  <2>1. PrTypes' /\ ScanTypes'
    BY <1>3 DEF RecvClosed, PrTypes, ScanTypes
  <2>2. UNCHANGED dbVars /\ UNCHANGED callVars /\ UNCHANGED dlVars /\ UNCHANGED chan
        /\ UNCHANGED tip
    BY <1>3 DEF RecvClosed
  <2> QED BY <2>1, <2>2, Kept
<1>4. ASSUME LoadTree PROVE TypeOK'
  <2>1. SyncedTree \in Seq(Out)
    BY SyncedTyped
  <2>2. Len(SyncedTree) \in Nat
    BY <2>1
  <2>3. PrTypes'
    BY <1>4, <2>1, ReadTyped DEF LoadTree, PrTypes
  <2>4. ScanTypes'
    <3>1. scan' = [EmptyScan EXCEPT !.pos = Len(SyncedTree), !.notes = notes, !.txs = txs]
      BY <1>4 DEF LoadTree
    <3>2. EmptyScan.found \in BOOLEAN
      BY EmptyScanTyped, Zenon
    <3>3. scan' = [blk |-> scan'.blk, cur |-> scan'.cur, pos |-> scan'.pos, mine |-> scan'.mine,
             found |-> scan'.found, new |-> scan'.new, notes |-> scan'.notes, txs |-> scan'.txs]
      BY <3>1 DEF EmptyScan
    <3>4. /\ scan'.blk = EmptyScan.blk /\ scan'.cur = EmptyScan.cur
          /\ scan'.pos = Len(SyncedTree)
          /\ scan'.mine = EmptyScan.mine /\ scan'.found = EmptyScan.found
          /\ scan'.new = EmptyScan.new /\ scan'.notes = notes /\ scan'.txs = txs
      BY <3>1 DEF EmptyScan
    <3> QED BY <2>2, <3>2, <3>3, <3>4, EmptyScanTyped, EmptyTableTyped DEF ScanTypes, DbTypes
  <2>5. UNCHANGED dbVars /\ UNCHANGED callVars /\ UNCHANGED dlVars /\ UNCHANGED chan
        /\ UNCHANGED tip
    BY <1>4 DEF LoadTree
  <2> QED BY <2>3, <2>4, <2>5, Kept
<1>5. ASSUME ScanSpend \/ ScanNote \/ SkipOutput \/ ScanDebit \/ SkipSpend \/ EndBlock
      PROVE TypeOK'
  <2>1. UNCHANGED dbVars /\ UNCHANGED callVars /\ UNCHANGED dlVars /\ UNCHANGED chan
        /\ UNCHANGED tip
    BY <1>5 DEF ScanSpend, ScanNote, SkipOutput, ScanDebit, SkipSpend, EndBlock
  <2> QED BY <1>5, <2>1, ScanStepTyped, Kept
<1>6. ASSUME ScanFail PROVE TypeOK'
  <2>1. UNCHANGED dbVars /\ UNCHANGED callVars /\ UNCHANGED dlVars /\ UNCHANGED chan
        /\ UNCHANGED tip
    BY <1>6 DEF ScanFail
  <2> QED BY <1>6, <2>1, ProcessorEndsTyped, Kept DEF ScanFail
<1>7. ASSUME Commit PROVE TypeOK'
  <2>1. PrTypes' /\ ScanTypes'
    BY <1>7 DEF Commit, PrTypes, ScanTypes
  <2>2. DbTypes'
    BY <1>7 DEF Commit, DbTypes, ScanTypes
  <2>3. UNCHANGED callVars /\ UNCHANGED dlVars /\ UNCHANGED chan /\ UNCHANGED tip
    BY <1>7 DEF Commit
  <2> QED BY <2>1, <2>2, <2>3, Kept
<1>8. ASSUME DetailsOk PROVE TypeOK'
  <2>1. PrTypes' /\ ScanTypes'
    BY <1>8 DEF DetailsOk, PrTypes, ScanTypes
  <2>2. UNCHANGED dbVars /\ UNCHANGED callVars /\ UNCHANGED dlVars /\ UNCHANGED chan
        /\ UNCHANGED tip
    BY <1>8 DEF DetailsOk
  <2> QED BY <2>1, <2>2, Kept
<1>9. ASSUME DetailsFail PROVE TypeOK'
  <2>1. PICK r \in {"err", "panic"} : ProcessorEnds(r)
    BY <1>9 DEF DetailsFail
  <2>2. PrTypes' /\ ScanTypes'
    BY <2>1, ProcessorEndsTyped
  <2>3. CallTypes'
    BY <1>9, WarpSyncConstants DEF DetailsFail, Fault, CallTypes
  <2>4. UNCHANGED dbVars /\ UNCHANGED dlVars /\ UNCHANGED chan /\ UNCHANGED tip
    BY <1>9 DEF DetailsFail
  <2> QED BY <2>2, <2>3, <2>4, Kept
<1>10. ASSUME Store PROVE TypeOK'
  <2>1. LastOf(batch) \in Block /\ Height[LastOf(batch)] \in Nat
    BY <1>10, LastTyped, LedgerTypes DEF Store, PrTypes, BatchShape, InBatch
  <2>2. NewTree \in Seq(Out)
    BY DEF NewTree, PrTypes, Batch
  <2>3. IsTable(NewWitnesses, NoteId, Witness)
    BY <2>2, NewWitnessesTyped
  <2>4. DbTypes'
    <3> DEFINE h == Height[LastOf(batch)]
               rows == [k \in {<<n, h>> : n \in DOMAIN NewWitnesses} |-> NewWitnesses[k[1]]]
    <3>1. IsTable(rows, NoteId \X Nat, Witness)
      BY <2>1, <2>3 DEF IsTable
    <3>2. wits' = InsertAll(wits, rows)
          /\ blocks' = Insert(blocks, h, [hash |-> LastOf(batch), tree |-> NewTree])
          /\ UNCHANGED <<notes, txs>>
      BY <1>10 DEF Store
    <3>3. IsTable(wits', NoteId \X Nat, Witness)
      BY <3>1, <3>2, InsertAllTable DEF DbTypes
    <3>4. [hash |-> LastOf(batch), tree |-> NewTree] \in BlockRow
      BY <2>1, <2>2 DEF BlockRow
    <3>5. IsTable(blocks', Nat, BlockRow)
      BY <2>1, <3>2, <3>4, InsertTable DEF DbTypes
    <3> QED BY <3>2, <3>3, <3>5 DEF DbTypes
  <2>5. PrTypes'
    BY <1>10, EmptyBatchTyped, EmptyTableTyped DEF Store, PrTypes
  <2>6. ScanTypes'
    <3>1. scan' = EmptyScan
      BY <1>10 DEF Store
    <3>2. scan'.found \in BOOLEAN
      BY <3>1, EmptyScanTyped, Zenon
    <3> QED BY <3>1, <3>2, EmptyScanTyped, EmptyTableTyped DEF ScanTypes
  <2>7. UNCHANGED callVars /\ UNCHANGED dlVars /\ UNCHANGED chan /\ UNCHANGED tip
    BY <1>10 DEF Store
  <2> QED BY <2>4, <2>5, <2>6, <2>7, Kept
<1>11. ASSUME Finish PROVE TypeOK'
  <2>1. PrTypes' /\ ScanTypes'
    BY <1>11, ProcessorEndsTyped DEF Finish
  <2>2. DbTypes'
    <3>1. CASE OldCheckpoints = {}
      BY <1>11, <3>1 DEF Finish, DbTypes
    <3>2. CASE OldCheckpoints # {}
      <4>1. /\ wits' = Restrict(wits, {k \in DOMAIN wits : k[2] >= Max(OldCheckpoints)})
            /\ blocks' = Restrict(blocks, {h \in DOMAIN blocks : h >= Max(OldCheckpoints)})
            /\ UNCHANGED <<notes, txs>>
        BY <1>11, <3>2 DEF Finish
      <4> QED BY <4>1, RestrictTable DEF DbTypes
    <3> QED BY <3>1, <3>2
  <2>3. UNCHANGED callVars /\ UNCHANGED dlVars /\ UNCHANGED chan /\ UNCHANGED tip
    BY <1>11 DEF Finish
  <2> QED BY <2>1, <2>2, <2>3, Kept
<1> QED
  BY <1>1, <1>2, <1>3, <1>4, <1>5, <1>6, <1>7, <1>8, <1>9, <1>10, <1>11 DEF Processor

-----------------------------------------------------------------------------
(* The two facts that type correctness rests on. *)

(* Witnesses of one more height. *)
LEMMA BoundedAdd ==
  ASSUME NEW S, S \subseteq Int, Bounded(S), NEW h \in Int
  PROVE  Bounded(S \cup {h})
<1> SUFFICES ASSUME NEW d \in Int, {j \in S \cup {h} : j <= d} # {}
             PROVE  HasMax({j \in S \cup {h} : j <= d})
  BY DEF Bounded, UpTo
<1>1. CASE {j \in S : j <= d} = {}
  BY <1>1 DEF HasMax
<1>2. CASE {j \in S : j <= d} # {}
  <2>1. PICK k \in {j \in S : j <= d} : \A i \in {j \in S : j <= d} : i <= k
    BY <1>2 DEF Bounded, UpTo, HasMax
  <2>2. CASE h <= d /\ ~(h <= k)
    BY <2>1, <2>2 DEF HasMax
  <2>3. CASE ~(h <= d) \/ h <= k
    BY <2>1, <2>3 DEF HasMax
  <2> QED BY <2>2, <2>3
<1> QED BY <1>1, <1>2

(* Witnesses below a height purged. *)
LEMMA BoundedAbove ==
  ASSUME NEW S, S \subseteq Int, Bounded(S), NEW m \in Int
  PROVE  Bounded({h \in S : h >= m})
<1> SUFFICES ASSUME NEW d \in Int, {j \in {h \in S : h >= m} : j <= d} # {}
             PROVE  HasMax({j \in {h \in S : h >= m} : j <= d})
  BY DEF Bounded, UpTo
<1>1. PICK i \in S : i >= m /\ i <= d
  OBVIOUS
<1>2. PICK k \in {j \in S : j <= d} : \A l \in {j \in S : j <= d} : l <= k
  BY <1>1 DEF Bounded, UpTo, HasMax
<1>3. k >= m
  BY <1>1, <1>2
<1> QED BY <1>2, <1>3 DEF HasMax

(* What a purge knows of its bound. *)
LEMMA PurgeBound ==
  ASSUME TInv, OldCheckpoints # {}
  PROVE  /\ Max(OldCheckpoints) \in WitHeights
         /\ Max(OldCheckpoints) \in Nat
         /\ Max(OldCheckpoints) <= dend - PurgeDepth
<1>1. WitHeights \subseteq Nat /\ WitHeights \subseteq Int
  <2>1. \A k \in DOMAIN wits : k \in NoteId \X Nat
    BY DEF TInv, TypeOK, DbTypes, IsTable
  <2> QED BY <2>1 DEF WitHeights
<1>2. dend - PurgeDepth \in Int
  BY WarpSyncConstants DEF TInv, TypeOK, DlTypes
<1>3. OldCheckpoints = {h \in WitHeights : h <= dend - PurgeDepth}
  BY DEF OldCheckpoints, WitHeights
<1>4. HasMax(OldCheckpoints) /\ OldCheckpoints \subseteq Int
  <2>1. OldCheckpoints = UpTo(WitHeights, dend - PurgeDepth)
    BY <1>3 DEF UpTo
  <2>2. OldCheckpoints \subseteq Int
    <3>1. \A S, d : UpTo(S, d) \subseteq S
      BY DEF UpTo
    <3> QED BY <1>1, <2>1, <3>1, Zenon
  <2> QED BY <1>2, <2>1, <2>2 DEF TInv, Bounded
<1>5. Max(OldCheckpoints) \in OldCheckpoints
  BY <1>4, MaxProperties
<1> QED BY <1>1, <1>3, <1>5

(* Every step keeps what a purge relies on to find its bound. *)
LEMMA BoundedStep ==
  ASSUME TInv, Next
  PROVE  Bounded(WitHeights)'
<1>1. WitHeights \subseteq Int
  <2>1. \A k \in DOMAIN wits : k \in NoteId \X Nat
    BY DEF TInv, TypeOK, DbTypes, IsTable
  <2> QED BY <2>1 DEF WitHeights
<1>2. CASE Store
  <2> DEFINE h == Height[LastOf(batch)]
             rows == [k \in {<<n, h>> : n \in DOMAIN NewWitnesses} |-> NewWitnesses[k[1]]]
  <2>1. h \in Int
    BY <1>2, LastTyped, LedgerTypes DEF Store, TInv, TypeOK, PrTypes, BatchShape, InBatch
  <2>2. DOMAIN wits' = DOMAIN wits \cup {<<n, h>> : n \in DOMAIN NewWitnesses}
    BY <1>2 DEF Store, InsertAll
  <2>3. CASE DOMAIN NewWitnesses = {}
    <3>1. WitHeights' = WitHeights
      BY <2>2, <2>3 DEF WitHeights
    <3> QED BY <3>1 DEF TInv, Bounded
  <2>4. CASE DOMAIN NewWitnesses # {}
    <3>1. WitHeights' = WitHeights \cup {h}
      <4>1. \A x \in WitHeights' : x \in WitHeights \/ x = h
        BY <2>2 DEF WitHeights
      <4>2. \A x \in WitHeights : x \in WitHeights'
        BY <2>2 DEF WitHeights
      <4>3. h \in WitHeights'
        <5>1. PICK n \in DOMAIN NewWitnesses : TRUE
          BY <2>4
        <5>2. <<n, h>> \in DOMAIN wits' /\ <<n, h>>[2] = h
          BY <2>2, <5>1
        <5> QED BY <5>2 DEF WitHeights
      <4> QED BY <4>1, <4>2, <4>3
    <3>2. Bounded(WitHeights \cup {h})
      BY <1>1, <2>1, BoundedAdd DEF TInv
    <3> QED BY <3>1, <3>2 DEF Bounded
  <2> QED BY <2>3, <2>4
<1>3. CASE Finish
  <2>1. CASE OldCheckpoints = {}
    <3>1. WitHeights' = WitHeights
      BY <1>3, <2>1 DEF Finish, WitHeights
    <3> QED BY <3>1 DEF TInv, Bounded
  <2>2. CASE OldCheckpoints # {}
    <3> DEFINE m == Max(OldCheckpoints)
    <3>1. m \in Int
      BY <2>2, PurgeBound
    <3>2. wits' = Restrict(wits, {k \in DOMAIN wits : k[2] >= m})
      BY <1>3, <2>2 DEF Finish
    <3>3. WitHeights' = {h \in WitHeights : h >= m}
      BY <3>2 DEF WitHeights, Restrict
    <3>4. Bounded({h \in WitHeights : h >= m})
      BY <1>1, <3>1, BoundedAbove DEF TInv
    <3> QED BY <3>3, <3>4 DEF Bounded
  <2> QED BY <2>1, <2>2
<1>4. CASE ~Store /\ ~Finish
  <2>1. UNCHANGED wits
    BY <1>4 DEF Next, Server, Call, Downloader, Processor, MineBlock, Reorg,
      WarpStart, BeginPass, ConnectFail, Join, JoinPanic, Crash, Die, CancelWarp,
      TakeBlock, DetectReorg, StreamEnd, StreamShort, StreamError, Send, SendPanic, SendLast,
      OpenDb, Recv, RecvClosed, LoadTree, ScanSpend, ScanNote, SkipOutput, ScanDebit,
      SkipSpend, ScanFail, EndBlock, Commit, DetailsOk, DetailsFail, dbVars
  <2>2. WitHeights' = WitHeights
    BY <2>1 DEF WitHeights
  <2> QED BY <2>2 DEF TInv, Bounded
<1> QED BY <1>2, <1>3, <1>4

(* Every step leaves the blocks table empty or with a last block: the      *)
(* queries for the resume point have an answer.                            *)
LEMMA HasLastStep ==
  ASSUME TInv, Next
  PROVE  HasLast'
<1> USE DEF TInv
<1>1. CASE Store
  <2> DEFINE h == Height[LastOf(batch)]
  <2>1. h \in Nat
    BY <1>1, LastTyped, LedgerTypes DEF Store, TypeOK, PrTypes, BatchShape, InBatch
  <2>2. DOMAIN blocks' = DOMAIN blocks \cup {h}
    BY <1>1 DEF Store, Insert, InsertAll
  <2>3. DOMAIN blocks \subseteq Int
    BY DEF TypeOK, DbTypes, IsTable
  <2>4. CASE DOMAIN blocks = {}
    BY <2>1, <2>2, <2>4 DEF HasLast, HasMax
  <2>5. CASE DOMAIN blocks # {}
    <3>1. PICK k \in DOMAIN blocks : \A j \in DOMAIN blocks : j <= k
      BY <2>5, EmptyTableTyped DEF HasLast, HasMax
    <3>2. CASE h <= k
      BY <2>1, <2>2, <2>3, <3>1, <3>2 DEF HasLast, HasMax
    <3>3. CASE ~(h <= k)
      BY <2>1, <2>2, <2>3, <3>1, <3>3 DEF HasLast, HasMax
    <3> QED BY <3>2, <3>3
  <2> QED BY <2>4, <2>5
<1>2. CASE Finish
  <2>1. CASE OldCheckpoints = {}
    <3>1. UNCHANGED blocks
      BY <1>2, <2>1 DEF Finish
    <3> QED BY <3>1 DEF HasLast
  <2>2. CASE OldCheckpoints # {} /\ blocks' = Restrict(blocks, {h \in DOMAIN blocks : h >= Max(OldCheckpoints)})
    <3> DEFINE m == Max(OldCheckpoints)
    <3>1. DOMAIN blocks' = {h \in DOMAIN blocks : h >= m}
      BY <2>2 DEF Restrict
    <3>2. CASE DOMAIN blocks' = {}
      <4>1. blocks' = EmptyTable
        BY <2>2, <3>1, <3>2 DEF Restrict, EmptyTable
      <4> QED BY <4>1 DEF HasLast
    <3>3. CASE DOMAIN blocks' # {}
      <4>1. PICK k \in DOMAIN blocks : \A j \in DOMAIN blocks : j <= k
        BY <3>1, <3>3, EmptyTableTyped DEF HasLast, HasMax
      <4>2. PICK j \in DOMAIN blocks' : j \in DOMAIN blocks
        BY <3>1, <3>3
      <4>3. m \in Int /\ k \in Int /\ j \in Int /\ j >= m /\ j <= k
        BY <2>2, <3>1, <4>1, <4>2, PurgeBound DEF TypeOK, DbTypes, IsTable
      <4>4. k \in DOMAIN blocks'
        BY <3>1, <4>1, <4>3
      <4> QED BY <3>1, <4>1, <4>4 DEF HasLast, HasMax
    <3> QED BY <3>2, <3>3
  <2> QED BY <1>2, <2>1, <2>2 DEF Finish
<1>3. CASE ~Store /\ ~Finish
  <2>1. UNCHANGED blocks
    BY <1>3 DEF Next, Server, Call, Downloader, Processor, MineBlock, Reorg,
      WarpStart, BeginPass, ConnectFail, Join, JoinPanic, Crash, Die, CancelWarp,
      TakeBlock, DetectReorg, StreamEnd, StreamShort, StreamError, Send, SendPanic, SendLast,
      OpenDb, Recv, RecvClosed, LoadTree, ScanSpend, ScanNote, SkipOutput, ScanDebit,
      SkipSpend, ScanFail, EndBlock, Commit, DetailsOk, DetailsFail, dbVars
  <2> QED BY <2>1 DEF HasLast
<1> QED BY <1>1, <1>2, <1>3

(* The processor holds a batch with blocks exactly while it works on one. *)
LEMMA BatchShapeStep ==
  ASSUME TInv, Next
  PROVE  BatchShape'
<1> USE DEF TInv, BatchShape, InBatch
<1>1. CASE Server
  BY <1>1 DEF Server, MineBlock, Reorg, prVars, dlVars
<1>2. CASE Call
  <2>1. CASE Join \/ JoinPanic \/ Crash
    BY <2>1 DEF Join, JoinPanic, Crash, Die, ResetTasks
  <2>2. CASE BeginPass
    <3>1. UNCHANGED batch /\ ppc' \in {ppc, "open"} /\ dpc = "none"
      BY <2>2 DEF BeginPass
    <3>2. dpc' = "none" => ppc' = ppc
      BY <2>2 DEF BeginPass
    <3> QED BY <3>1, <3>2
  <2>3. CASE WarpStart \/ ConnectFail \/ CancelWarp
    BY <2>3 DEF WarpStart, ConnectFail, CancelWarp, prVars, dlVars
  <2> QED BY <1>2, <2>1, <2>2, <2>3 DEF Call
<1>3. CASE Downloader
  <2>1. UNCHANGED <<ppc, batch>>
    BY <1>3 DEF Downloader, TakeBlock, DetectReorg, StreamEnd, StreamShort, StreamError,
       Send, SendPanic, SendLast, prVars
  <2>2. dpc # "none"
    BY <1>3 DEF Downloader, TakeBlock, DetectReorg, StreamEnd, StreamShort, StreamError,
       Send, SendPanic, SendLast, Streamed
  <2>3. dpc' # "none"
    <3>1. CASE TakeBlock
      BY <2>2, <3>1 DEF TakeBlock
    <3>2. CASE DetectReorg \/ StreamEnd \/ StreamShort \/ StreamError \/ Send
               \/ SendPanic \/ SendLast
      BY <3>2 DEF DetectReorg, StreamEnd, StreamShort, StreamError,
         Send, SendPanic, SendLast, DownloaderEnds
    <3> QED BY <1>3, <3>1, <3>2 DEF Downloader
  <2> QED BY <2>1, <2>3
<1>4. CASE Recv
  BY <1>4 DEF Recv, dlVars
<1>5. CASE ScanFail
  BY <1>5 DEF ScanFail, ProcessorEnds, dlVars, AtOutput, AtDebit, Scanning
<1>6. CASE DetailsFail
  BY <1>6 DEF DetailsFail, ProcessorEnds, dlVars
<1>7. CASE Finish
  BY <1>7 DEF Finish, ProcessorEnds, dlVars
<1>8. CASE OpenDb \/ RecvClosed \/ LoadTree \/ Commit \/ DetailsOk \/ Store
  BY <1>8 DEF OpenDb, RecvClosed, LoadTree, Commit, DetailsOk, Store, dlVars
<1>9. CASE ScanSpend \/ ScanNote \/ SkipOutput \/ ScanDebit \/ SkipSpend \/ EndBlock
  <2>1. ppc = "scan" /\ UNCHANGED <<ppc, batch, dpc>>
    BY <1>9 DEF ScanSpend, ScanNote, SkipOutput, ScanDebit, SkipSpend, EndBlock, Scanning,
      AtOutput, AtDebit, dlVars
  <2> QED BY <2>1
<1> QED BY <1>1, <1>2, <1>3, <1>4, <1>5, <1>6, <1>7, <1>8, <1>9 DEF Next, Processor

(* The inductive invariant holds of a new wallet. *)
LEMMA TInvInit == Init => TInv
<1> SUFFICES ASSUME Init PROVE TInv
  OBVIOUS
<1>1. TypeOK
  BY TypeInit
<1>2. HasLast /\ BatchShape
  BY DEF Init, Idle, HasLast, BatchShape, InBatch
<1>3. WitHeights = {}
  BY EmptyTableTyped DEF Init, WitHeights
<1>4. Bounded(WitHeights)
  BY <1>3 DEF Bounded, UpTo
<1> QED BY <1>1, <1>2, <1>4 DEF TInv

(* Every step keeps the inductive invariant of the types. *)
LEMMA TInvStep == TInv /\ [Next]_vars => TInv'
<1> SUFFICES ASSUME TInv, [Next]_vars PROVE TInv'
  OBVIOUS
<1>1. CASE UNCHANGED vars
  <2>1. UNCHANGED dbVars /\ UNCHANGED callVars /\ UNCHANGED dlVars /\ UNCHANGED chan
        /\ UNCHANGED prVars /\ UNCHANGED tip
    BY <1>1 DEF vars, dbVars, callVars, dlVars, prVars
  <2>2. TypeOK'
    BY <2>1, Kept DEF TInv, TypeOK
  <2>3. HasLast' /\ BatchShape' /\ Bounded(WitHeights)'
    <3>1. WitHeights' = WitHeights
      BY <2>1 DEF WitHeights, dbVars
    <3> QED BY <2>1, <3>1 DEF Bounded, TInv, HasLast, BatchShape, InBatch, dbVars, prVars, dlVars
  <2> QED BY <2>2, <2>3 DEF TInv
<1>2. CASE Next
  <2>1. TypeOK'
    BY <1>2, ServerTyped, CallTyped, DownloaderTyped, ProcessorTyped DEF Next, TInv
  <2> QED BY <1>2, <2>1, HasLastStep, BatchShapeStep, BoundedStep DEF TInv
<1> QED BY <1>1, <1>2

(* Type correctness of warp sync: in every reachable state the database,   *)
(* the tasks and the channel hold values of their types; no lookup of the  *)
(* scan, the purge or the resume point ever leaves them.                   *)
THEOREM TypeCorrect == Spec => []TypeOK
<1>1. Spec => []TInv
  BY TInvInit, TInvStep, PTL DEF Spec
<1>2. TInv => TypeOK
  BY DEF TInv
<1> QED BY <1>1, <1>2, PTL

-----------------------------------------------------------------------------
(* The checkpoints and the chunks in flight *)

(* What is in flight at each point of the downloader. *)
Flight ==
  /\ dpc = "none" => cbs = EmptyBatch /\ outbox = EmptyBatch /\ chan = << >>
  /\ dpc = "stream" => outbox = EmptyBatch
  /\ dpc = "last" => cbs = EmptyBatch
  /\ dpc = "done" => cbs = EmptyBatch /\ outbox = EmptyBatch

(* The witnesses of the batch under way start from the tree of the batch. *)
LoadedTogether ==
  ppc \in {"scan", "details", "store"} => \A n \in DOMAIN bwits : bwits[n].leaves = tree

IInv ==
  /\ TInv
  /\ CheckpointsExact
  /\ AnchorsAgree
  /\ PipelineLinked
  /\ Flight
  /\ LoadedTogether

-----------------------------------------------------------------------------
(* The ledger and the chunks *)

(* An ancestor is a block, lower than its descendants or equal to them. *)
LEMMA Ancestor ==
  ASSUME NEW b \in Block, NEW a \in Anc[b]
  PROVE  /\ a \in Block /\ Anc[a] \subseteq Anc[b]
         /\ Height[a] \in Nat /\ Height[b] \in Nat /\ Height[a] <= Height[b]
         /\ Height[a] = Height[b] => a = b
<1>1. a \in Block
  BY LedgerTypes
<1>2. \A c \in Block : \A d \in Anc[c] :
        Anc[d] \subseteq Anc[c] /\ Height[d] <= Height[c] /\ (Height[d] = Height[c] => d = c)
  BY LedgerAncestry
<1> QED BY <1>1, <1>2, LedgerTypes

(* A block extends its parent by its outputs. *)
LEMMA Child ==
  ASSUME NEW b \in Block, b # Genesis
  PROVE  /\ Parent[b] \in Block
         /\ Height[b] = Height[Parent[b]] + 1
         /\ Anc[b] = Anc[Parent[b]] \cup {b}
         /\ Leaves[b] = Leaves[Parent[b]] \o Outs[b]
  BY LedgerTypes, LedgerAncestry, LedgerTree

(* The block a chunk ends in. *)
LEMMA EndTyped ==
  ASSUME NEW c \in Batch, NEW f \in Block
  PROVE  EndOf(c, f) \in Block
  BY LastTyped DEF EndOf

(* An empty chunk ends where it starts. *)
LEMMA EmptyFollows ==
  ASSUME NEW f \in Block
  PROVE  EndOf(EmptyBatch, f) = f /\ Follows(EmptyBatch, f)
<1>1. EndOf(EmptyBatch, f) = f
  BY DEF EmptyBatch, EndOf
<1>2. Leaves[f] \o << >> = Leaves[f]
  BY LedgerTypes
<1>3. 1..Len(EmptyBatch.blocks) = {}
  BY DEF EmptyBatch
<1> QED BY <1>1, <1>2, <1>3, LedgerAncestry DEF Follows, EmptyBatch

(* A chunk that a child of its last block is pushed on still follows f. *)
LEMMA PushFollows ==
  ASSUME NEW c \in Batch, NEW f \in Block, NEW b \in Block \ {Genesis},
         Follows(c, f), Parent[b] = EndOf(c, f)
  PROVE  EndOf(Push(c, b), f) = b /\ Follows(Push(c, b), f)
<1>1. EndOf(Push(c, b), f) = b
  BY PushTyped DEF EndOf
<1>2. f \in Anc[b] /\ Height[b] > Height[f]
  <2>1. f \in Anc[Parent[b]] /\ Parent[b] \in Block
    BY LedgerTypes DEF Follows
  <2>2. Height[f] <= Height[Parent[b]] /\ Height[b] = Height[Parent[b]] + 1
    <3>1. Height[f] <= Height[Parent[b]]
      BY <2>1, Ancestor
    <3>2. Height[b] = Height[Parent[b]] + 1
      BY Child
    <3> QED BY <3>1, <3>2
  <2>3. Height[f] \in Nat /\ Height[Parent[b]] \in Nat
    BY <2>1, LedgerTypes
  <2> QED BY <2>1, <2>2, <2>3, LedgerAncestry
<1>3. Leaves[b] = Leaves[f] \o Push(c, b).outs
  <2>1. Leaves[b] = (Leaves[f] \o c.outs) \o Outs[b]
    BY LedgerTree DEF Follows
  <2>2. Leaves[f] \in Seq(Out) /\ c.outs \in Seq(Out) /\ Outs[b] \in Seq(Out)
    BY LedgerTypes DEF Batch
  <2>3. (Leaves[f] \o c.outs) \o Outs[b] = Leaves[f] \o (c.outs \o Outs[b])
    <3>1. \A s, t, u \in Seq(Out) : (s \o t) \o u = s \o (t \o u)
      BY ConcatAssociative
    <3> QED BY <2>2, <3>1
  <2> QED BY <2>1, <2>3, PushTyped
<1>4. ASSUME NEW i \in 1..Len(Push(c, b).blocks)
      PROVE  /\ Parent[Push(c, b).blocks[i]] = IF i = 1 THEN f ELSE Push(c, b).blocks[i - 1]
             /\ Push(c, b).blocks[i] # Genesis /\ Push(c, b).blocks[i] \in Anc[b]
  <2>1. c.blocks \in Seq(Block) /\ Push(c, b).blocks = Append(c.blocks, b)
    BY DEF Batch, Push
  <2>2. Len(Push(c, b).blocks) = Len(c.blocks) + 1 /\ Len(c.blocks) \in Nat
        /\ Push(c, b).blocks[Len(c.blocks) + 1] = b
        /\ \A j \in 1..Len(c.blocks) : Push(c, b).blocks[j] = c.blocks[j]
    BY <2>1
  <2>3. CASE i <= Len(c.blocks)
    <3>1. i \in 1..Len(c.blocks) /\ (i # 1 => i - 1 \in 1..Len(c.blocks))
      BY <2>2, <2>3
    <3>2. c.blocks[i] \in Anc[Parent[b]]
      BY <3>1 DEF Follows
    <3>3. Anc[Parent[b]] \subseteq Anc[b]
      BY Child
    <3> QED BY <2>2, <3>1, <3>2, <3>3 DEF Follows
  <2>4. CASE i = Len(c.blocks) + 1
    <3>1. b \in Anc[b]
      BY LedgerAncestry
    <3>2. i = 1 => c.blocks = << >>
      BY <2>1, <2>2, <2>4
    <3>3. i # 1 => i - 1 = Len(c.blocks) /\ i - 1 \in 1..Len(c.blocks) /\ c.blocks # << >>
      BY <2>1, <2>2, <2>4
    <3>4. Parent[b] = IF i = 1 THEN f ELSE c.blocks[Len(c.blocks)]
      BY <3>2, <3>3 DEF EndOf, LastOf
    <3> QED BY <2>2, <2>4, <3>1, <3>3, <3>4
  <2> QED BY <2>2, <2>3, <2>4
<1> QED BY <1>1, <1>2, <1>3, <1>4 DEF Follows

(* The block after the activation block is its child. *)
LEMMA ChildOfGenesis ==
  ASSUME NEW b \in Block, Height[b] = Height[Genesis] + 1
  PROVE  b # Genesis /\ Parent[b] = Genesis
<1>1. Height[Genesis] \in Nat /\ Parent[b] \in Block
  BY LedgerTypes
<1>2. b # Genesis
  BY <1>1
<1>3. Height[Parent[b]] = Height[Genesis]
  BY <1>1, <1>2, Child, LedgerTypes
<1>4. Genesis \in Anc[Parent[b]]
  BY <1>1, LedgerAncestry
<1>5. Genesis = Parent[b]
  BY <1>1, <1>3, <1>4, Ancestor
<1> QED BY <1>2, <1>5, Zenon

(* An upper bound in the set is what Max returns. *)
LEMMA MaxIs ==
  ASSUME NEW S, S \subseteq Int, NEW h \in S, \A k \in S : k <= h
  PROVE  Max(S) = h
<1>1. Max(S) \in S /\ \A k \in S : k <= Max(S)
  BY MaxProperties DEF HasMax
<1>2. h \in Int /\ Max(S) \in Int /\ h <= Max(S) /\ Max(S) <= h
  BY <1>1
<1> QED BY <1>2

(* The synced block is at the synced height, and the tree is its tree. *)
LEMMA SyncedExact ==
  ASSUME TInv, CheckpointsExact
  PROVE  /\ Synced \in Block
         /\ Height[Synced] = SyncedHeight
         /\ SyncedTree = Leaves[Synced]
<1>1. CASE blocks = EmptyTable
  BY <1>1, SyncedTyped, LedgerTypes, LedgerTree DEF TInv
<1>2. CASE blocks # EmptyTable
  BY <1>2, SyncedTyped DEF TInv, CheckpointsExact
<1> QED BY <1>1, <1>2

(* The resume point is a function of the blocks table. *)
LEMMA SyncedKept ==
  ASSUME UNCHANGED blocks
  PROVE  /\ SyncedHeight' = SyncedHeight /\ Synced' = Synced
         /\ SyncedHash' = SyncedHash /\ SyncedTree' = SyncedTree
  BY DEF SyncedHeight, Synced, SyncedHash, SyncedTree

-----------------------------------------------------------------------------
(* The inductive invariant holds of a new wallet. *)
LEMMA InitInv == Init => IInv
<1> SUFFICES ASSUME Init PROVE IInv
  OBVIOUS
<1>1. TInv
  BY TInvInit
<1>2. CheckpointsExact /\ AnchorsAgree
  BY EmptyTableTyped DEF Init, CheckpointsExact, AnchorsAgree
<1>3. PipelineLinked /\ Flight /\ LoadedTogether
  BY DEF Init, Idle, PipelineLinked, Flight, LoadedTogether
<1> QED BY <1>1, <1>2, <1>3 DEF IInv

(* Every step keeps what is in flight at each point of the downloader. *)
LEMMA FlightStep ==
  ASSUME IInv, Next
  PROVE  Flight'
<1> USE DEF IInv
<1>1. CASE Server
  BY <1>1 DEF Server, MineBlock, Reorg, dlVars, Flight
<1>2. CASE Call
  <2>1. CASE Join \/ JoinPanic \/ Crash
    BY <2>1 DEF Join, JoinPanic, Crash, Die, ResetTasks, Flight
  <2>2. CASE BeginPass
    <3>1. dpc = "none" /\ dpc' \in {"none", "stream"} /\ UNCHANGED <<cbs, outbox, chan>>
      BY <2>2 DEF BeginPass
    <3> QED BY <3>1 DEF Flight
  <2>3. CASE WarpStart \/ ConnectFail \/ CancelWarp
    BY <2>3 DEF WarpStart, ConnectFail, CancelWarp, dlVars, Flight
  <2> QED BY <1>2, <2>1, <2>2, <2>3 DEF Call
<1>3. CASE TakeBlock
  <2>1. dpc = "stream"
    BY <1>3 DEF TakeBlock, Streamed
  <2>2. CASE dpc' = "send"
    BY <2>2 DEF Flight
  <2>3. CASE dpc' = dpc /\ outbox' = outbox
    BY <2>1, <2>3 DEF Flight
  <2> QED BY <1>3, <2>2, <2>3 DEF TakeBlock
<1>4. CASE DetectReorg \/ StreamShort \/ StreamError \/ SendPanic \/ SendLast
  BY <1>4 DEF DetectReorg, StreamShort, StreamError, SendPanic, SendLast, DownloaderEnds, Flight
<1>5. CASE StreamEnd
  BY <1>5 DEF StreamEnd, Flight
<1>6. CASE Send
  BY <1>6 DEF Send, Flight
<1>7. CASE Processor
  <2>1. UNCHANGED <<dpc, cbs, outbox>>
    BY <1>7 DEF Processor, OpenDb, Recv, RecvClosed, LoadTree, ScanSpend, ScanNote, SkipOutput,
      ScanDebit, SkipSpend, ScanFail, EndBlock, Commit, DetailsOk, DetailsFail, Store, Finish,
      dlVars
  <2>2. dpc = "none" => chan' = << >>
    <3>1. CASE Recv
      BY <3>1 DEF Recv, Flight
    <3>2. CASE ~Recv
      <4>1. UNCHANGED chan
        BY <1>7, <3>2 DEF Processor, OpenDb, RecvClosed, LoadTree, ScanSpend, ScanNote,
          SkipOutput, ScanDebit, SkipSpend, ScanFail, EndBlock, Commit, DetailsOk, DetailsFail,
          Store, Finish
      <4> QED BY <4>1 DEF Flight
    <3> QED BY <3>1, <3>2
  <2> QED BY <2>1, <2>2 DEF Flight
<1> QED BY <1>1, <1>2, <1>3, <1>4, <1>5, <1>6, <1>7 DEF Next, Downloader

(* The witnesses the processor works on are those of the tree it works on: *)
(* both are read by the one get_tree.                                      *)
LEMMA LoadedStep ==
  ASSUME IInv, Next
  PROVE  LoadedTogether'
<1> USE DEF IInv
<1>1. CASE Server \/ Downloader
  <2>1. UNCHANGED <<ppc, bwits, tree>>
    BY <1>1 DEF Server, MineBlock, Reorg, Downloader, TakeBlock, DetectReorg, StreamEnd,
      StreamShort, StreamError, Send, SendPanic, SendLast, prVars
  <2> QED BY <2>1 DEF LoadedTogether
<1>2. CASE Call
  <2>1. CASE Join \/ JoinPanic \/ Crash
    BY <2>1 DEF Join, JoinPanic, Crash, Die, ResetTasks, LoadedTogether
  <2>2. CASE BeginPass
    <3>1. ppc' \in {ppc, "open"} /\ UNCHANGED <<bwits, tree>>
      BY <2>2 DEF BeginPass
    <3> QED BY <3>1 DEF LoadedTogether
  <2>3. CASE WarpStart \/ ConnectFail \/ CancelWarp
    BY <2>3 DEF WarpStart, ConnectFail, CancelWarp, prVars, LoadedTogether
  <2> QED BY <1>2, <2>1, <2>2, <2>3 DEF Call
<1>3. CASE LoadTree
  <2>1. bwits' = StoredWitnesses /\ tree' = SyncedTree
    BY <1>3 DEF LoadTree
  <2>2. \A n \in DOMAIN StoredWitnesses : StoredWitnesses[n].leaves = SyncedTree
    <3> TAKE n \in DOMAIN StoredWitnesses
    <3>1. blocks # EmptyTable /\ <<n, SyncedHeight>> \in DOMAIN wits
          /\ StoredWitnesses[n] = wits[<<n, SyncedHeight>>]
      BY DEF StoredWitnesses
    <3>2. \A k \in DOMAIN wits : wits[k].leaves = blocks[k[2]].tree
      BY DEF AnchorsAgree
    <3>3. wits[<<n, SyncedHeight>>].leaves = blocks[SyncedHeight].tree
      BY <3>1, <3>2
    <3> QED BY <3>1, <3>3, SyncedTyped DEF TInv
  <2> QED BY <2>1, <2>2 DEF LoadedTogether
<1>4. CASE OpenDb \/ Recv \/ RecvClosed \/ Store \/ ScanFail \/ DetailsFail \/ Finish
  BY <1>4 DEF OpenDb, Recv, RecvClosed, Store, ScanFail, DetailsFail, Finish, ProcessorEnds,
    LoadedTogether
<1>5. CASE ScanSpend \/ ScanNote \/ SkipOutput \/ ScanDebit \/ SkipSpend \/ EndBlock
           \/ Commit \/ DetailsOk
  <2>1. ppc \in {"scan", "details"} /\ UNCHANGED <<bwits, tree>>
    BY <1>5 DEF ScanSpend, ScanNote, SkipOutput, ScanDebit, SkipSpend, EndBlock, Commit,
      DetailsOk, AtOutput, AtDebit, Scanning
  <2> QED BY <2>1 DEF LoadedTogether
<1> QED BY <1>1, <1>2, <1>3, <1>4, <1>5 DEF Next, Processor

(* The rows that Store adds. *)
LEMMA StoreEffect ==
  ASSUME IInv, Store
  PROVE  LET b == LastOf(batch) h == Height[b] IN
         /\ b \in Block /\ h \in Nat /\ h > SyncedHeight
         /\ Synced \in Anc[b] /\ b = BatchEnd
         /\ \A g \in DOMAIN blocks : g < h
         /\ DOMAIN blocks' = DOMAIN blocks \cup {h}
         /\ \A g \in DOMAIN blocks : blocks'[g] = blocks[g]
         /\ blocks'[h] = [hash |-> b, tree |-> Leaves[b]]
         /\ NewTree = Leaves[b]
         /\ SyncedHeight' = h /\ Synced' = b
<1> USE DEF IInv
<1> DEFINE b == LastOf(batch)
           h == Height[b]
<1>1. batch \in Batch /\ batch.blocks # << >>
  BY DEF Store, TInv, TypeOK, PrTypes, BatchShape, InBatch
<1>2. b \in Block /\ h \in Nat /\ b = BatchEnd
  BY <1>1, LastTyped, LedgerTypes DEF BatchEnd, EndOf
<1>3. Follows(batch, Synced) /\ tree = Leaves[Synced]
  BY DEF Store, PipelineLinked
<1>4. Synced \in Anc[b] /\ h > Height[Synced] /\ Leaves[b] = Leaves[Synced] \o batch.outs
  BY <1>1, <1>3 DEF Follows, EndOf
<1>5. h > SyncedHeight
  BY <1>4, SyncedExact
<1>6. NewTree = Leaves[b]
  BY <1>3, <1>4 DEF NewTree
<1>7. DOMAIN blocks \subseteq Int
  BY DEF TInv, TypeOK, DbTypes, IsTable
<1>8. \A g \in DOMAIN blocks : g < h
  <2> TAKE g \in DOMAIN blocks
  <2>1. g <= SyncedHeight /\ SyncedHeight \in Int /\ g \in Int
    BY <1>7, SyncedTyped, EmptyTableTyped DEF TInv
  <2> QED BY <1>2, <1>5, <2>1
<1>9. blocks' = Insert(blocks, h, [hash |-> b, tree |-> NewTree])
  BY DEF Store
<1>10. h \notin DOMAIN blocks
  BY <1>2, <1>8
<1>11. /\ DOMAIN blocks' = DOMAIN blocks \cup {h}
       /\ \A g \in DOMAIN blocks : blocks'[g] = blocks[g]
       /\ blocks'[h] = [hash |-> b, tree |-> Leaves[b]]
  BY <1>6, <1>9, <1>10 DEF Insert, InsertAll
<1>12. SyncedHeight' = h /\ Synced' = b
  <2>1. DOMAIN blocks' # {} /\ blocks' # EmptyTable
    BY <1>11, EmptyTableTyped
  <2>2. h \in DOMAIN blocks' /\ \A k \in DOMAIN blocks' : k <= h
    BY <1>2, <1>7, <1>8, <1>11
  <2>3. DOMAIN blocks' \subseteq Int
    BY <1>2, <1>7, <1>11
  <2>4. Max(DOMAIN blocks') = h
    BY <2>2, <2>3, MaxIs
  <2> QED BY <1>11, <2>1, <2>4 DEF SyncedHeight, Synced, SyncedHash
<1> QED BY <1>2, <1>4, <1>5, <1>6, <1>8, <1>11, <1>12

(* What a purge keeps. *)
LEMMA FinishEffect ==
  ASSUME IInv, Finish
  PROVE  /\ DOMAIN blocks' \subseteq DOMAIN blocks /\ DOMAIN wits' \subseteq DOMAIN wits
         /\ \A g \in DOMAIN blocks' : blocks'[g] = blocks[g]
         /\ \A k \in DOMAIN wits' : wits'[k] = wits[k] /\ k[2] \in DOMAIN blocks'
         /\ \A k \in DOMAIN wits : k[2] \in DOMAIN blocks' => k \in DOMAIN wits'
         /\ SyncedHeight' = SyncedHeight /\ Synced' = Synced
<1> USE DEF IInv
<1>1. CASE OldCheckpoints = {}
  <2>1. UNCHANGED <<wits, blocks>>
    BY <1>1 DEF Finish
  <2> QED BY <2>1, SyncedKept DEF AnchorsAgree
<1>2. CASE OldCheckpoints # {}
  <2> DEFINE m == Max(OldCheckpoints)
  <2>1. /\ wits' = Restrict(wits, {k \in DOMAIN wits : k[2] >= m})
        /\ blocks' = Restrict(blocks, {h \in DOMAIN blocks : h >= m})
    BY <1>2 DEF Finish
  <2>2. m \in WitHeights /\ m \in Nat
    BY <1>2, PurgeBound
  <2>3. m \in DOMAIN blocks
    BY <2>2 DEF WitHeights, AnchorsAgree
  <2>4. /\ DOMAIN blocks' = {h \in DOMAIN blocks : h >= m}
        /\ \A g \in DOMAIN blocks' : blocks'[g] = blocks[g]
        /\ DOMAIN wits' = {k \in DOMAIN wits : k[2] >= m}
        /\ \A k \in DOMAIN wits' : wits'[k] = wits[k]
    BY <2>1 DEF Restrict
  <2>5. /\ \A k \in DOMAIN wits' : k[2] \in DOMAIN blocks'
        /\ \A k \in DOMAIN wits : k[2] \in DOMAIN blocks' => k \in DOMAIN wits'
    BY <2>4 DEF AnchorsAgree
  <2>6. DOMAIN blocks \subseteq Int /\ blocks # EmptyTable
    BY <2>3, EmptyTableTyped DEF TInv, TypeOK, DbTypes, IsTable
  <2>7. SyncedHeight \in DOMAIN blocks /\ \A h \in DOMAIN blocks : h <= SyncedHeight
    BY <2>6, SyncedTyped DEF TInv
  <2>8. SyncedHeight \in DOMAIN blocks' /\ \A h \in DOMAIN blocks' : h <= SyncedHeight
    BY <2>2, <2>3, <2>4, <2>6, <2>7
  <2>9. DOMAIN blocks' \subseteq Int /\ blocks' # EmptyTable
    BY <2>4, <2>6, <2>8, EmptyTableTyped
  <2>10. Max(DOMAIN blocks') = SyncedHeight
    BY <2>8, <2>9, MaxIs
  <2>11. SyncedHeight' = SyncedHeight
    BY <2>9, <2>10 DEF SyncedHeight
  <2>12. Synced' = Synced
    BY <2>4, <2>6, <2>8, <2>9, <2>11 DEF Synced, SyncedHash
  <2> QED BY <2>4, <2>5, <2>11, <2>12
<1> QED BY <1>1, <1>2

(* Only Store and Finish write the blocks and the witnesses. *)
LEMMA OthersKeepBlocks ==
  ASSUME Next, ~Store, ~Finish
  PROVE  UNCHANGED <<blocks, wits>>
  BY DEF Next, Server, Call, Downloader, Processor, MineBlock, Reorg,
     WarpStart, BeginPass, ConnectFail, Join, JoinPanic, Crash, Die, CancelWarp,
     TakeBlock, DetectReorg, StreamEnd, StreamShort, StreamError, Send, SendPanic, SendLast,
     OpenDb, Recv, RecvClosed, LoadTree, ScanSpend, ScanNote, SkipOutput, ScanDebit,
     SkipSpend, ScanFail, EndBlock, Commit, DetailsOk, DetailsFail, dbVars

(* Every step keeps the checkpoints exact: Store adds the tree of the last *)
(* block of the batch.                                                     *)
LEMMA CheckpointsStep ==
  ASSUME IInv, Next
  PROVE  CheckpointsExact'
<1> USE DEF IInv
<1>1. CASE Store
  <2> DEFINE b == LastOf(batch)
             h == Height[b]
  <2>1. /\ b \in Block /\ h \in Nat /\ Synced \in Anc[b]
        /\ \A g \in DOMAIN blocks : g < h
        /\ DOMAIN blocks' = DOMAIN blocks \cup {h}
        /\ \A g \in DOMAIN blocks : blocks'[g] = blocks[g]
        /\ blocks'[h] = [hash |-> b, tree |-> Leaves[b]]
    BY <1>1, StoreEffect
  <2>2. DOMAIN blocks \subseteq Int
    BY DEF TInv, TypeOK, DbTypes, IsTable
  <2>3. \A g \in DOMAIN blocks : blocks[g].hash \in Anc[b]
    <3> TAKE g \in DOMAIN blocks
    <3>1. SyncedHeight \in DOMAIN blocks /\ g <= SyncedHeight
          /\ Synced = blocks[SyncedHeight].hash
      BY SyncedTyped, EmptyTableTyped DEF TInv
    <3>2. blocks[g].hash \in Anc[Synced]
      BY <3>1 DEF CheckpointsExact
    <3>3. Anc[Synced] \subseteq Anc[b]
      BY <2>1, Ancestor
    <3> QED BY <3>2, <3>3
  <2>4. b \in Anc[b]
    BY <2>1, LedgerAncestry
  <2> SUFFICES ASSUME NEW k \in DOMAIN blocks'
               PROVE  /\ Height[blocks'[k].hash] = k
                      /\ blocks'[k].tree = Leaves[blocks'[k].hash]
                      /\ \A g \in DOMAIN blocks' : g <= k => blocks'[g].hash \in Anc[blocks'[k].hash]
    BY DEF CheckpointsExact
  <2>5. CASE k = h
    BY <2>1, <2>3, <2>4, <2>5
  <2>6. CASE k \in DOMAIN blocks
    BY <2>1, <2>2, <2>6 DEF CheckpointsExact
  <2> QED BY <2>1, <2>5, <2>6
<1>2. CASE Finish
  BY <1>2, FinishEffect DEF CheckpointsExact
<1>3. CASE ~Store /\ ~Finish
  BY <1>3, OthersKeepBlocks DEF CheckpointsExact
<1> QED BY <1>1, <1>2, <1>3

(* Every step keeps the witnesses of a height in agreement with the block  *)
(* row of that height.                                                     *)
LEMMA AnchorsStep ==
  ASSUME IInv, Next
  PROVE  AnchorsAgree'
<1> USE DEF IInv
<1>1. CASE Store
  <2> DEFINE b == LastOf(batch)
             h == Height[b]
             rows == [k \in {<<n, h>> : n \in DOMAIN NewWitnesses} |-> NewWitnesses[k[1]]]
  <2>1. /\ \A g \in DOMAIN blocks : g < h
        /\ DOMAIN blocks' = DOMAIN blocks \cup {h}
        /\ \A g \in DOMAIN blocks : blocks'[g] = blocks[g]
        /\ blocks'[h] = [hash |-> b, tree |-> Leaves[b]]
        /\ NewTree = Leaves[b] /\ h \in Nat
    BY <1>1, StoreEffect
  <2>2. wits' = InsertAll(wits, rows)
    BY <1>1 DEF Store
  <2>3. \A n \in DOMAIN NewWitnesses : NewWitnesses[n].leaves = NewTree
    <3>1. ppc = "store" /\ \A n \in DOMAIN bwits : bwits[n].leaves = tree
      BY <1>1 DEF Store, LoadedTogether
    <3>2. \A n \in DOMAIN bwits : bwits[n] \in Witness
      BY DEF TInv, TypeOK, PrTypes, IsTable
    <3>3. \A n \in DOMAIN bwits : [bwits[n] EXCEPT !.leaves = @ \o batch.outs].leaves = NewTree
      BY <3>1, <3>2 DEF NewTree, Witness
    <3> QED BY <3>3 DEF NewWitnesses, InsertAll
  <2> SUFFICES ASSUME NEW k \in DOMAIN wits'
               PROVE  k[2] \in DOMAIN blocks' /\ wits'[k].leaves = blocks'[k[2]].tree
    BY DEF AnchorsAgree
  <2>4. CASE k \in DOMAIN wits
    <3>1. wits'[k] = wits[k] /\ k[2] \in DOMAIN blocks
      BY <2>2, <2>4 DEF InsertAll, AnchorsAgree
    <3> QED BY <2>1, <2>4, <3>1 DEF AnchorsAgree
  <2>5. CASE k \notin DOMAIN wits
    <3>1. k \in DOMAIN rows /\ wits'[k] = rows[k]
      BY <2>2, <2>5 DEF InsertAll
    <3>2. PICK n \in DOMAIN NewWitnesses : k = <<n, h>>
      BY <3>1
    <3>3. k[2] = h /\ rows[k] = NewWitnesses[n]
      BY <3>1, <3>2
    <3> QED BY <2>1, <2>3, <3>1, <3>2, <3>3
  <2> QED BY <2>4, <2>5
<1>2. CASE Finish
  BY <1>2, FinishEffect DEF AnchorsAgree
<1>3. CASE ~Store /\ ~Finish
  BY <1>3, OthersKeepBlocks DEF AnchorsAgree
<1> QED BY <1>1, <1>2, <1>3

-----------------------------------------------------------------------------
(* The chunks in flight *)

Running == ppc \notin {"none", "finish", "done"}
Linkage ==
  /\ Follows(batch, Synced) /\ Follows(Queued, BatchEnd)
  /\ Follows(outbox, QueuedEnd) /\ Follows(cbs, OutboxEnd)
Cursor ==
  dpc \in {"stream", "send", "last"} \/ dres = "ok" =>
    /\ dnext = Height[ChunkEnd] + 1
    /\ dprev = ChunkEnd \/ (dprev = NoHash /\ ChunkEnd = Genesis)
TreeLoaded == ppc \in {"scan", "details", "store"} => tree = Leaves[Synced]

(* PipelineLinked, in the parts the steps below treat one by one. *)
LEMMA PipelineParts ==
  PipelineLinked <=> (Running => Linkage /\ Cursor /\ TreeLoaded)
  BY DEF PipelineLinked, Running, Linkage, Cursor, TreeLoaded

(* The chunks are batches and end in blocks. *)
LEMMA AllEndsTyped ==
  ASSUME IInv
  PROVE  /\ Synced \in Block /\ BatchEnd \in Block /\ QueuedEnd \in Block
         /\ OutboxEnd \in Block /\ ChunkEnd \in Block
         /\ batch \in Batch /\ Queued \in Batch /\ outbox \in Batch /\ cbs \in Batch
<1>1. batch \in Batch /\ outbox \in Batch /\ cbs \in Batch
  BY DEF IInv, TInv, TypeOK, PrTypes, DlTypes
<1>2. Queued \in Batch
  <2>1. chan \in Seq(Batch)
    BY DEF IInv, TInv, TypeOK, ChanTypes
  <2> QED BY <2>1, EmptyBatchTyped DEF Queued
<1>3. Synced \in Block
  BY SyncedExact DEF IInv
<1>4. BatchEnd \in Block
  BY <1>1, <1>3, EndTyped DEF BatchEnd
<1>5. QueuedEnd \in Block
  BY <1>2, <1>4, EndTyped DEF QueuedEnd
<1>6. OutboxEnd \in Block
  BY <1>1, <1>5, EndTyped DEF OutboxEnd
<1>7. ChunkEnd \in Block
  BY <1>1, <1>6, EndTyped DEF ChunkEnd
<1> QED BY <1>1, <1>2, <1>3, <1>4, <1>5, <1>6, <1>7

(* A step that leaves the chunks and the checkpoints alone. *)
LEMMA ChunksKept ==
  ASSUME UNCHANGED <<blocks, batch, chan, outbox, cbs>>
  PROVE  /\ Synced' = Synced /\ BatchEnd' = BatchEnd /\ Queued' = Queued
         /\ QueuedEnd' = QueuedEnd /\ OutboxEnd' = OutboxEnd /\ ChunkEnd' = ChunkEnd
         /\ Linkage => Linkage'
<1>1. Synced' = Synced
  BY SyncedKept
<1>2. BatchEnd' = BatchEnd /\ Queued' = Queued
  BY <1>1 DEF BatchEnd, EndOf, LastOf, Queued
<1>3. QueuedEnd' = QueuedEnd
  BY <1>2 DEF QueuedEnd, EndOf, LastOf
<1>4. OutboxEnd' = OutboxEnd
  BY <1>3 DEF OutboxEnd, EndOf, LastOf
<1>5. ChunkEnd' = ChunkEnd
  BY <1>4 DEF ChunkEnd, EndOf, LastOf
<1>6. Linkage => Linkage'
  BY <1>1, <1>2, <1>3, <1>4 DEF Linkage
<1> QED BY <1>1, <1>2, <1>3, <1>4, <1>5, <1>6

(* The steps of the call and of the server keep the chunks linked: a pass  *)
(* starts with none in flight, at the resume point.                        *)
LEMMA PipelineCall ==
  ASSUME IInv, Server \/ Call
  PROVE  PipelineLinked'
<1> USE DEF IInv
<1>1. CASE Join \/ JoinPanic \/ Crash
  BY <1>1 DEF Join, JoinPanic, Crash, Die, ResetTasks, PipelineLinked
<1>2. CASE Server \/ WarpStart \/ ConnectFail \/ CancelWarp
  <2>1. UNCHANGED <<blocks, batch, chan, outbox, cbs, dpc, dnext, dprev, dres, ppc, tree>>
    BY <1>2 DEF Server, MineBlock, Reorg, WarpStart, ConnectFail, CancelWarp, dbVars, dlVars,
      prVars
  <2> QED BY <2>1, ChunksKept
      DEF PipelineLinked, Linkage
<1>3. CASE BeginPass
  <2>1. dpc = "none" /\ ppc = "none" /\ UNCHANGED <<blocks, batch, chan, outbox, cbs, tree>>
    BY <1>3 DEF BeginPass, TInv, BatchShape, dbVars
  <2>2. CASE ppc' = "none"
    BY <2>2 DEF PipelineLinked
  <2>3. CASE ppc' # "none"
    <3>1. dpc' = "stream" /\ dnext' = SyncedHeight + 1 /\ dprev' = SyncedHash /\ ppc' = "open"
      BY <1>3, <2>1, <2>3 DEF BeginPass
    <3>2. batch = EmptyBatch /\ chan = << >> /\ outbox = EmptyBatch /\ cbs = EmptyBatch
      BY <2>1 DEF Flight, TInv, BatchShape, InBatch
    <3>3. Synced \in Block /\ Height[Synced] = SyncedHeight
      BY SyncedExact
    <3>4. BatchEnd = Synced /\ Queued = EmptyBatch /\ QueuedEnd = Synced /\ OutboxEnd = Synced
          /\ ChunkEnd = Synced
      BY <3>2, <3>3, EmptyFollows DEF BatchEnd, Queued, QueuedEnd, OutboxEnd, ChunkEnd
    <3>5. Linkage
      BY <3>2, <3>3, <3>4, EmptyFollows DEF Linkage
    <3>6. SyncedHash = Synced \/ (SyncedHash = NoHash /\ Synced = Genesis)
      BY SyncedTyped DEF TInv
    <3>7. Linkage' /\ ChunkEnd' = Synced
      BY <2>1, <3>4, <3>5, ChunksKept
    <3> QED BY <3>1, <3>3, <3>6, <3>7 DEF PipelineLinked, Linkage
  <2> QED BY <2>2, <2>3
<1> QED BY <1>1, <1>2, <1>3 DEF Call

(* The steps of the downloader keep the chunks linked, because of its      *)
(* prev_hash check, and hand them over in order.                           *)
LEMMA PipelineDownloader ==
  ASSUME IInv, Downloader
  PROVE  PipelineLinked'
<1> USE DEF IInv
<1>1. UNCHANGED <<blocks, batch, ppc, tree>> /\ Synced' = Synced /\ BatchEnd' = BatchEnd
  <2>1. UNCHANGED <<blocks, batch, ppc, tree>>
    BY DEF Downloader, TakeBlock, DetectReorg, StreamEnd, StreamShort, StreamError, Send,
      SendPanic, SendLast, dbVars, prVars
  <2>2. Synced' = Synced
    BY <2>1, SyncedKept
  <2> QED BY <2>1, <2>2 DEF BatchEnd, EndOf, LastOf
<1> SUFFICES ASSUME Running' PROVE Linkage' /\ Cursor' /\ TreeLoaded'
  BY DEF PipelineLinked, Running, Linkage, Cursor, TreeLoaded
<1>2. Running /\ Linkage /\ Cursor /\ TreeLoaded
  BY <1>1, PipelineParts DEF Running
<1>3. TreeLoaded'
  BY <1>1, <1>2 DEF TreeLoaded
<1>4. Synced \in Block /\ BatchEnd \in Block /\ QueuedEnd \in Block
      /\ OutboxEnd \in Block /\ ChunkEnd \in Block
      /\ Queued \in Batch /\ outbox \in Batch /\ cbs \in Batch
  BY AllEndsTyped
<1>5. ASSUME UNCHANGED chan PROVE Queued' = Queued /\ QueuedEnd' = QueuedEnd
  BY <1>1, <1>5 DEF Queued, QueuedEnd, EndOf, LastOf
<1>6. CASE TakeBlock
  <2>1. PICK b \in Block :
          /\ Streamed(b) /\ Linked(b) /\ dprev' = b
          /\ IF Len(cbs.outs) + Len(Outs[b]) > MaxOutputs
               THEN /\ dpc' = "send" /\ outbox' = cbs
                    /\ cbs' = Push(EmptyBatch, b)
               ELSE /\ cbs' = Push(cbs, b)
                    /\ UNCHANGED <<dpc, outbox>>
    BY <1>6 DEF TakeBlock
  <2>2. dpc = "stream" /\ Height[b] = dnext /\ dnext' = dnext + 1 /\ UNCHANGED chan
    BY <1>6, <2>1 DEF TakeBlock, Streamed
  <2>3. Queued' = Queued /\ QueuedEnd' = QueuedEnd
    BY <1>5, <2>2
  <2>4. outbox = EmptyBatch /\ OutboxEnd = QueuedEnd
    BY <1>4, <2>2, EmptyFollows DEF Flight, OutboxEnd
  <2>5. Height[b] = Height[ChunkEnd] + 1
        /\ (dprev = ChunkEnd \/ (dprev = NoHash /\ ChunkEnd = Genesis))
    BY <1>2, <2>2 DEF Cursor
  <2>6. b # Genesis /\ Parent[b] = ChunkEnd
    <3>1. Genesis \in Block /\ Height[Genesis] <= Height[ChunkEnd]
          /\ Height[Genesis] \in Nat /\ Height[ChunkEnd] \in Nat
      <4>1. Genesis \in Anc[ChunkEnd]
        BY <1>4, LedgerAncestry
      <4> QED BY <1>4, <4>1, Ancestor
    <3>2. b # Genesis
      BY <2>5, <3>1
    <3>3. CASE dprev = ChunkEnd
      <4>1. dprev # NoHash
        BY <1>4, <3>3, WarpSyncConstants
      <4> QED BY <2>1, <3>2, <3>3, <4>1 DEF Linked
    <3>4. CASE ChunkEnd = Genesis
      BY <2>5, <3>4, ChildOfGenesis
    <3> QED BY <2>5, <3>3, <3>4
  <2>7. CASE dpc' = "send" /\ outbox' = cbs /\ cbs' = Push(EmptyBatch, b)
    <3>1. OutboxEnd' = ChunkEnd /\ Follows(outbox', QueuedEnd)
      BY <1>2, <2>3, <2>4, <2>7 DEF OutboxEnd, ChunkEnd, EndOf, LastOf, Linkage
    <3>2. EndOf(EmptyBatch, ChunkEnd) = ChunkEnd /\ Follows(EmptyBatch, ChunkEnd)
      BY <1>4, EmptyFollows
    <3>3. EndOf(cbs', ChunkEnd) = b /\ Follows(cbs', ChunkEnd)
      BY <1>4, <2>6, <2>7, <3>2, PushFollows, EmptyBatchTyped
    <3>4. ChunkEnd' = b
      BY <3>1, <3>3 DEF ChunkEnd, EndOf, LastOf
    <3>5. Linkage'
      BY <1>1, <1>2, <2>3, <3>1, <3>3 DEF Linkage
    <3>6. Cursor'
      BY <2>1, <2>2, <3>4 DEF Cursor
    <3> QED BY <1>3, <3>5, <3>6
  <2>8. CASE cbs' = Push(cbs, b) /\ UNCHANGED <<dpc, outbox>>
    <3>1. OutboxEnd' = OutboxEnd
      BY <2>3, <2>8 DEF OutboxEnd, EndOf, LastOf
    <3>2. EndOf(cbs', OutboxEnd) = b /\ Follows(cbs', OutboxEnd)
      BY <1>2, <1>4, <2>6, <2>8, PushFollows DEF Linkage, ChunkEnd
    <3>3. ChunkEnd' = b
      BY <3>1, <3>2 DEF ChunkEnd, EndOf, LastOf
    <3>4. Linkage'
      BY <1>1, <1>2, <2>3, <2>8, <3>1, <3>2 DEF Linkage
    <3>5. Cursor'
      BY <2>1, <2>2, <3>3 DEF Cursor
    <3> QED BY <1>3, <3>4, <3>5
  <2> QED BY <2>1, <2>7, <2>8
<1>7. ASSUME DetectReorg \/ StreamShort \/ StreamError \/ SendPanic
      PROVE Linkage' /\ Cursor' /\ TreeLoaded'
  <2>1. UNCHANGED chan /\ outbox' = EmptyBatch /\ cbs' = EmptyBatch /\ dpc' = "done"
        /\ dres' # "ok"
    BY <1>7 DEF DetectReorg, StreamShort, StreamError, SendPanic, DownloaderEnds
  <2>2. Queued' = Queued /\ QueuedEnd' = QueuedEnd
    BY <1>5, <2>1
  <2>3. OutboxEnd' = QueuedEnd
    BY <1>4, <2>1, <2>2, EmptyFollows DEF OutboxEnd
  <2>4. Linkage'
    BY <1>1, <1>2, <1>4, <2>1, <2>2, <2>3, EmptyFollows DEF Linkage
  <2> QED BY <1>3, <2>1, <2>4 DEF Cursor
<1>8. CASE StreamEnd
  <2>1. UNCHANGED chan /\ outbox' = cbs /\ cbs' = EmptyBatch /\ dpc' = "last"
        /\ dpc = "stream" /\ UNCHANGED <<dnext, dprev>>
    BY <1>8 DEF StreamEnd
  <2>2. Queued' = Queued /\ QueuedEnd' = QueuedEnd
    BY <1>5, <2>1
  <2>3. outbox = EmptyBatch /\ OutboxEnd = QueuedEnd
    BY <1>4, <2>1, EmptyFollows DEF Flight, OutboxEnd
  <2>4. OutboxEnd' = ChunkEnd
    BY <2>1, <2>2, <2>3 DEF OutboxEnd, ChunkEnd, EndOf, LastOf
  <2>5. Linkage'
    BY <1>1, <1>2, <1>4, <2>1, <2>2, <2>3, <2>4, EmptyFollows DEF Linkage
  <2>6. ChunkEnd' = ChunkEnd
    BY <1>4, <2>1, <2>4, EmptyFollows DEF ChunkEnd
  <2>7. Cursor'
    BY <1>2, <2>1, <2>6 DEF Cursor
  <2> QED BY <1>3, <2>5, <2>7
<1>9. ASSUME chan = << >>, chan' = Append(chan, outbox), outbox' = EmptyBatch
      PROVE Queued = EmptyBatch /\ QueuedEnd = BatchEnd /\ Queued' = outbox
            /\ QueuedEnd' = OutboxEnd /\ OutboxEnd' = OutboxEnd
  <2>1. Queued = EmptyBatch /\ QueuedEnd = BatchEnd
    BY <1>4, <1>9, EmptyFollows DEF Queued, QueuedEnd
  <2>2. chan' # << >> /\ Head(chan') = outbox
    BY <1>9
  <2>3. Queued' = outbox
    BY <2>2 DEF Queued
  <2>4. QueuedEnd' = OutboxEnd
    BY <1>1, <2>1, <2>3 DEF QueuedEnd, OutboxEnd, EndOf, LastOf
  <2>5. OutboxEnd' = OutboxEnd
    BY <1>4, <1>9, <2>4, EmptyFollows DEF OutboxEnd
  <2> QED BY <2>1, <2>3, <2>4, <2>5
<1>10. CASE Send
  <2>1. chan = << >> /\ chan' = Append(chan, outbox) /\ outbox' = EmptyBatch
        /\ UNCHANGED <<cbs, dnext, dprev>> /\ dpc = "send"
    BY <1>10 DEF Send, Slot
  <2>2. Queued = EmptyBatch /\ QueuedEnd = BatchEnd /\ Queued' = outbox
        /\ QueuedEnd' = OutboxEnd /\ OutboxEnd' = OutboxEnd
    BY <1>9, <2>1
  <2>3. ChunkEnd' = ChunkEnd
    BY <2>1, <2>2 DEF ChunkEnd, EndOf, LastOf
  <2>4. Linkage'
    BY <1>1, <1>2, <1>4, <2>1, <2>2, EmptyFollows DEF Linkage
  <2>5. Cursor'
    BY <1>2, <2>1, <2>3 DEF Cursor
  <2> QED BY <1>3, <2>4, <2>5
<1>11. CASE SendLast
  <2>1. chan = << >> /\ chan' = Append(chan, outbox)
    BY <1>2, <1>11 DEF SendLast, ReceiverDropped, Slot, Running
  <2>2. outbox' = EmptyBatch /\ cbs' = EmptyBatch /\ dpc' = "done"
        /\ dpc = "last" /\ cbs = EmptyBatch /\ UNCHANGED <<dnext, dprev>>
    BY <1>11 DEF SendLast, DownloaderEnds, Flight
  <2>3. Queued = EmptyBatch /\ QueuedEnd = BatchEnd /\ Queued' = outbox
        /\ QueuedEnd' = OutboxEnd /\ OutboxEnd' = OutboxEnd
    BY <1>9, <2>1, <2>2
  <2>4. Linkage'
    BY <1>1, <1>2, <1>4, <2>2, <2>3, EmptyFollows DEF Linkage
  <2>5. ChunkEnd' = ChunkEnd
    BY <2>2, <2>3 DEF ChunkEnd, EndOf, LastOf
  <2>6. Cursor'
    BY <1>2, <2>2, <2>5 DEF Cursor
  <2> QED BY <1>3, <2>4, <2>6
<1> QED BY <1>6, <1>7, <1>8, <1>10, <1>11 DEF Downloader

(* The steps of the processor keep the chunks linked: Store moves the      *)
(* resume point to the end of the batch.                                   *)
LEMMA PipelineProcessor ==
  ASSUME IInv, Processor
  PROVE  PipelineLinked'
<1> USE DEF IInv
<1>1. UNCHANGED <<outbox, cbs, dpc, dnext, dprev, dres>>
  BY DEF Processor, OpenDb, Recv, RecvClosed, LoadTree, ScanSpend, ScanNote, SkipOutput,
    ScanDebit, SkipSpend, ScanFail, EndBlock, Commit, DetailsOk, DetailsFail, Store, Finish,
    dlVars
<1>2. Synced \in Block /\ BatchEnd \in Block /\ QueuedEnd \in Block
      /\ OutboxEnd \in Block /\ ChunkEnd \in Block
      /\ batch \in Batch /\ Queued \in Batch /\ outbox \in Batch /\ cbs \in Batch
  BY AllEndsTyped
<1>3. CASE RecvClosed \/ ScanFail \/ DetailsFail \/ Finish
  BY <1>3 DEF RecvClosed, ScanFail, DetailsFail, Finish, ProcessorEnds, PipelineLinked
<1>4. CASE Recv \/ Store
  <2>1. Running /\ Linkage /\ Cursor /\ TreeLoaded
    BY <1>4, PipelineParts DEF Running, Recv, Store
  <2>2. CASE Recv
    <3>1. ppc = "recv" /\ chan # << >> /\ chan' = Tail(chan) /\ UNCHANGED <<blocks, tree>>
          /\ (ppc' = "recv" \/ ppc' = "load")
      BY <2>2 DEF Recv, dbVars
    <3>2. batch = EmptyBatch /\ BatchEnd = Synced /\ Queued = Head(chan)
      BY <1>2, <3>1, EmptyFollows DEF TInv, BatchShape, InBatch, BatchEnd, Queued
    <3>3. Queued' = EmptyBatch
      <4>1. chan \in Seq(Batch) /\ Len(chan) <= 1
        BY DEF TInv, TypeOK, ChanTypes
      <4>2. Tail(chan) = << >>
        BY <3>1, <4>1
      <4> QED BY <3>1, <4>2 DEF Queued
    <3>4. Synced' = Synced
      BY <3>1, SyncedKept
    <3>5. BatchEnd' = QueuedEnd /\ Follows(batch', Synced)
      <4>1. CASE Queued.blocks = << >>
        <5>1. batch' = batch
          BY <2>2, <3>2, <4>1 DEF Recv
        <5>2. QueuedEnd = BatchEnd
          BY <4>1 DEF QueuedEnd, EndOf
        <5> QED BY <2>1, <3>4, <5>1, <5>2 DEF BatchEnd, EndOf, LastOf, Linkage
      <4>2. CASE Queued.blocks # << >>
        <5>1. batch' = Queued
          BY <2>2, <3>2, <4>2 DEF Recv
        <5> QED BY <2>1, <3>2, <3>4, <5>1 DEF BatchEnd, QueuedEnd, EndOf, LastOf, Linkage
      <4> QED BY <4>1, <4>2
    <3>6. QueuedEnd' = QueuedEnd
      BY <1>2, <3>3, <3>5, EmptyFollows DEF QueuedEnd
    <3>7. OutboxEnd' = OutboxEnd
      BY <1>1, <3>6 DEF OutboxEnd, EndOf, LastOf
    <3>8. ChunkEnd' = ChunkEnd
      BY <1>1, <3>7 DEF ChunkEnd, EndOf, LastOf
    <3>9. Linkage'
      BY <1>1, <1>2, <2>1, <3>3, <3>4, <3>5, <3>6, <3>7, EmptyFollows DEF Linkage
    <3>10. Cursor'
      BY <1>1, <2>1, <3>8 DEF Cursor
    <3>11. TreeLoaded'
      BY <3>1 DEF TreeLoaded
    <3> QED BY <3>9, <3>10, <3>11
        DEF PipelineLinked, Linkage, Cursor, TreeLoaded
  <2>3. CASE Store
    <3>1. batch' = EmptyBatch /\ ppc' = "recv" /\ UNCHANGED chan
      BY <2>3 DEF Store
    <3>2. Synced' = BatchEnd
      BY <2>3, StoreEffect
    <3>3. BatchEnd' = BatchEnd
      BY <1>2, <3>1, <3>2, EmptyFollows DEF BatchEnd
    <3>4. Queued' = Queued /\ QueuedEnd' = QueuedEnd
      BY <3>1, <3>3 DEF Queued, QueuedEnd, EndOf, LastOf
    <3>5. OutboxEnd' = OutboxEnd
      BY <1>1, <3>4 DEF OutboxEnd, EndOf, LastOf
    <3>6. ChunkEnd' = ChunkEnd
      BY <1>1, <3>5 DEF ChunkEnd, EndOf, LastOf
    <3>7. Linkage'
      BY <1>1, <1>2, <2>1, <3>1, <3>2, <3>3, <3>4, <3>5, EmptyFollows DEF Linkage
    <3>8. Cursor'
      BY <1>1, <2>1, <3>6 DEF Cursor
    <3>9. TreeLoaded'
      BY <3>1 DEF TreeLoaded
    <3> QED BY <3>7, <3>8, <3>9
        DEF PipelineLinked, Linkage, Cursor, TreeLoaded
  <2> QED BY <1>4, <2>2, <2>3
<1>5. CASE OpenDb \/ LoadTree \/ Commit \/ DetailsOk \/ ScanSpend \/ ScanNote
           \/ SkipOutput \/ ScanDebit \/ SkipSpend \/ EndBlock
  <2>1. UNCHANGED <<blocks, batch, chan>>
    BY <1>5 DEF OpenDb, LoadTree, Commit, DetailsOk, ScanSpend, ScanNote, SkipOutput,
      ScanDebit, SkipSpend, EndBlock, dbVars
  <2>2. ppc \in {"open", "load", "scan", "details"}
    BY <1>5 DEF OpenDb, LoadTree, Commit, DetailsOk, ScanSpend, ScanNote, SkipOutput,
      ScanDebit, SkipSpend, EndBlock, AtOutput, AtDebit, Scanning
  <2>3. Linkage /\ Cursor /\ TreeLoaded
    BY <2>2, PipelineParts DEF Running
  <2>4. Linkage' /\ ChunkEnd' = ChunkEnd /\ Synced' = Synced
    BY <1>1, <2>1, <2>3, ChunksKept
  <2>5. Cursor'
    BY <1>1, <2>3, <2>4 DEF Cursor
  <2>6. TreeLoaded'
    <3>1. CASE OpenDb
      BY <3>1 DEF OpenDb, TreeLoaded
    <3>2. CASE LoadTree
      <4>1. tree' = Leaves[Synced]
        BY <3>2, SyncedExact DEF LoadTree
      <4> QED BY <2>4, <4>1 DEF TreeLoaded
    <3>3. CASE ~OpenDb /\ ~LoadTree
      <4>1. UNCHANGED tree /\ ppc \in {"scan", "details"}
        BY <1>5, <3>3 DEF Commit, DetailsOk, ScanSpend, ScanNote, SkipOutput,
          ScanDebit, SkipSpend, EndBlock, AtOutput, AtDebit, Scanning
      <4> QED BY <2>3, <2>4, <4>1 DEF TreeLoaded
    <3> QED BY <3>1, <3>2, <3>3
  <2> QED BY <2>4, <2>5, <2>6
      DEF PipelineLinked, Linkage, Cursor, TreeLoaded
<1> QED BY <1>3, <1>4, <1>5 DEF Processor

-----------------------------------------------------------------------------
(* Every step keeps the inductive invariant. *)
LEMMA StepInv == IInv /\ [Next]_vars => IInv'
<1> SUFFICES ASSUME IInv, [Next]_vars PROVE IInv'
  OBVIOUS
<1>1. TInv'
  BY TInvStep DEF IInv
<1>2. CASE UNCHANGED vars
  <2>1. UNCHANGED <<blocks, wits, batch, chan, outbox, cbs, dpc, dnext, dprev, dres, ppc, tree,
                    bwits>>
    BY <1>2 DEF vars
  <2>2. CheckpointsExact' /\ AnchorsAgree' /\ Flight' /\ LoadedTogether'
    BY <2>1 DEF IInv, CheckpointsExact, AnchorsAgree, Flight, LoadedTogether
  <2>3. PipelineLinked'
    BY <2>1, ChunksKept DEF IInv, PipelineLinked, Linkage
  <2> QED BY <1>1, <2>2, <2>3 DEF IInv
<1>3. CASE Next
  <2>1. CheckpointsExact' /\ AnchorsAgree' /\ Flight' /\ LoadedTogether'
    BY <1>3, CheckpointsStep, AnchorsStep, FlightStep, LoadedStep
  <2>2. PipelineLinked'
    BY <1>3, PipelineCall, PipelineDownloader, PipelineProcessor DEF Next
  <2> QED BY <1>1, <2>1, <2>2 DEF IInv
<1> QED BY <1>2, <1>3

(* The inductive invariant holds in every reachable state. *)
THEOREM Invariance == Spec => []IInv
  BY InitInv, StepInv, PTL DEF Spec

(* Whatever is reorganized, interrupted or crashed and whenever, each      *)
(* block row holds the commitment tree of its own block and the older rows *)
(* are its ancestors: sync always resumes from a state of one real chain.  *)
THEOREM CheckpointsAreExact == Spec => []CheckpointsExact
<1>1. IInv => CheckpointsExact
  BY DEF IInv
<1> QED BY <1>1, Invariance, PTL

(* The chunks between the downloader and the processor continue the chain  *)
(* from the resume point, without gap and without overlap, whatever        *)
(* happens to the server's chain meanwhile.                                *)
THEOREM ChunksAreLinked == Spec => []PipelineLinked
<1>1. IInv => PipelineLinked
  BY DEF IInv
<1> QED BY <1>1, Invariance, PTL

(* The witnesses stored at one height all stand for the tree of the block  *)
(* row of that height: the notes of a payment are spent against one        *)
(* anchor.                                                                 *)
THEOREM WitnessesShareAnchors == Spec => []AnchorsAgree
<1>1. IInv => AnchorsAgree
  BY DEF IInv
<1> QED BY <1>1, Invariance, PTL

LEMMA KeepsFork ==
  ASSUME IInv, Next
  PROVE  Synced \in Anc[Synced']
<1>1. Synced \in Block /\ Synced \in Anc[Synced]
  BY SyncedExact, LedgerAncestry DEF IInv
<1>2. CASE Store
  BY <1>2, StoreEffect
<1>3. CASE Finish
  BY <1>1, <1>3, FinishEffect
<1>4. CASE ~Store /\ ~Finish
  BY <1>1, <1>4, OthersKeepBlocks, SyncedKept
<1> QED BY <1>2, <1>3, <1>4

(* No step takes the wallet from a block to one that does not extend it. *)
THEOREM ForksAreNeverCrossed == Spec => NeverCrossFork
<1>1. IInv /\ [Next]_vars => [(Synced \in Anc[Synced'])]_vars
  BY KeepsFork
<1> QED BY <1>1, Invariance, PTL DEF Spec, NeverCrossFork

-----------------------------------------------------------------------------
(***************************************************************************)
(* What the end of a sync promises: Ok means that every block was stored,  *)
(* and the purge takes no witness that a payment would use, for every      *)
(* ledger, every bound and every fault.                                    *)
(*                                                                         *)
(* OkMeansSynced joins what three parties know: the downloader, that it    *)
(* has taken all blocks of the range (Reached); the channel, that nothing  *)
(* is left in it when it is closed; the processor, that the last batch it  *)
(* stored ends where the downloader stopped (Settled).                     *)
(***************************************************************************)

Reached == dpc = "last" \/ dres = "ok" => cancel \/ dnext > dend

Settled ==
  ppc = "finish" \/ pres = "ok" =>
    /\ dpc = "done" /\ ppc \in {"finish", "done"}
    /\ dres = "ok" => /\ dnext = Height[Synced] + 1
                      /\ dprev = Synced \/ dprev = NoHash

Resting == dpc = "none" => dprev = NoHash /\ dres = "none" /\ pres = "none"

RInv == IInv /\ Reached /\ Settled /\ Resting

-----------------------------------------------------------------------------
(* Nothing runs before the first pass or after the last. *)
LEMMA RestingStep ==
  ASSUME RInv, Next
  PROVE  Resting'
<1> USE DEF RInv
<1>1. CASE Server
  BY <1>1 DEF Server, MineBlock, Reorg, dlVars, prVars, Resting
<1>2. CASE Call
  <2>1. CASE Join \/ JoinPanic \/ Crash
    BY <2>1 DEF Join, JoinPanic, Crash, Die, ResetTasks, Resting
  <2>2. CASE BeginPass
    BY <2>2 DEF BeginPass, Resting
  <2>3. CASE WarpStart \/ ConnectFail \/ CancelWarp
    BY <2>3 DEF WarpStart, ConnectFail, CancelWarp, dlVars, prVars, Resting
  <2> QED BY <1>2, <2>1, <2>2, <2>3 DEF Call
<1>3. CASE Downloader
  <2>1. dpc' # "none"
    BY <1>3 DEF Downloader, TakeBlock, Streamed, DetectReorg, StreamEnd, StreamShort, StreamError,
      Send, SendPanic, SendLast, DownloaderEnds
  <2> QED BY <2>1 DEF Resting
<1>4. CASE Processor
  <2>1. UNCHANGED dpc /\ dpc # "none"
    <3>1. ppc # "none"
      BY <1>4 DEF Processor, OpenDb, Recv, RecvClosed, LoadTree, ScanSpend, ScanNote, SkipOutput,
        ScanDebit, SkipSpend, ScanFail, EndBlock, Commit, DetailsOk, DetailsFail, Store, Finish,
        AtOutput, AtDebit, Scanning
    <3>2. UNCHANGED dpc
      BY <1>4 DEF Processor, OpenDb, Recv, RecvClosed, LoadTree, ScanSpend, ScanNote, SkipOutput,
        ScanDebit, SkipSpend, ScanFail, EndBlock, Commit, DetailsOk, DetailsFail, Store, Finish,
        dlVars
    <3> QED BY <3>1, <3>2 DEF IInv, TInv, BatchShape
  <2> QED BY <2>1 DEF Resting
<1> QED BY <1>1, <1>2, <1>3, <1>4 DEF Next

(* The downloader ends well only at the end of the range, or cancelled. *)
LEMMA ReachedStep ==
  ASSUME RInv, Next
  PROVE  Reached'
<1> USE DEF RInv
<1>1. CASE Server
  BY <1>1 DEF Server, MineBlock, Reorg, dlVars, callVars, Reached
<1>2. CASE Call
  <2>1. CASE Join \/ JoinPanic \/ Crash
    BY <2>1 DEF Join, JoinPanic, Crash, Die, ResetTasks, Reached
  <2>2. CASE BeginPass
    <3>1. dpc' \in {"none", "stream"} /\ dres' = dres /\ dres = "none"
      BY <2>2 DEF BeginPass, Resting
    <3> QED BY <3>1 DEF Reached
  <2>3. CASE ConnectFail
    BY <2>3 DEF ConnectFail, dlVars, Resting, Reached
  <2>4. CASE WarpStart \/ CancelWarp
    BY <2>4 DEF WarpStart, CancelWarp, dlVars, Reached
  <2> QED BY <1>2, <2>1, <2>2, <2>3, <2>4 DEF Call
<1>3. CASE Downloader
  <2>1. UNCHANGED <<cancel, dend>>
    BY <1>3 DEF Downloader, TakeBlock, DetectReorg, StreamEnd, StreamShort, StreamError,
      Send, SendPanic, SendLast, callVars
  <2>2. CASE StreamEnd
    BY <2>1, <2>2 DEF StreamEnd, Reached
  <2>3. CASE SendLast
    BY <2>1, <2>3 DEF SendLast, Reached
  <2>4. CASE DetectReorg \/ StreamShort \/ StreamError \/ SendPanic
    BY <2>4 DEF DetectReorg, StreamShort, StreamError, SendPanic, DownloaderEnds, Reached
  <2>5. CASE Send
    BY <2>1, <2>5 DEF Send, Reached
  <2>6. CASE TakeBlock
    <3>1. dpc = "stream" /\ dpc' \in {"stream", "send"} /\ dres' = dres /\ dnext' = dnext + 1
      BY <2>6 DEF TakeBlock, Streamed
    <3>2. dnext \in Nat /\ dend \in Nat
      BY DEF IInv, TInv, TypeOK, DlTypes
    <3> QED BY <2>1, <3>1, <3>2 DEF Reached
  <2> QED BY <1>3, <2>2, <2>3, <2>4, <2>5, <2>6 DEF Downloader
<1>4. CASE Processor
  <2>1. UNCHANGED <<cancel, dpc, dres, dnext, dend>>
    BY <1>4 DEF Processor, OpenDb, Recv, RecvClosed, LoadTree, ScanSpend, ScanNote, SkipOutput,
      ScanDebit, SkipSpend, ScanFail, EndBlock, Commit, DetailsOk, DetailsFail, Store, Finish,
      dlVars, callVars
  <2> QED BY <2>1 DEF Reached
<1> QED BY <1>1, <1>2, <1>3, <1>4 DEF Next

(* When the channel is closed and empty the synced block is the last one   *)
(* that the downloader has taken.                                          *)
LEMMA ClosedMeansSettled ==
  ASSUME RInv, RecvClosed
  PROVE  dpc = "done" /\ (dres = "ok" => /\ dnext = Height[Synced] + 1
                                         /\ dprev = Synced \/ dprev = NoHash)
<1> USE DEF RInv, IInv
<1>1. ppc = "recv" /\ chan = << >> /\ dpc = "done"
  BY DEF RecvClosed, SenderDropped
<1>2. batch = EmptyBatch /\ outbox = EmptyBatch /\ cbs = EmptyBatch /\ Queued = EmptyBatch
  BY <1>1 DEF TInv, BatchShape, InBatch, Flight, Queued
<1>3. Synced \in Block
  BY SyncedExact
<1>4. ChunkEnd = Synced
  BY <1>2, <1>3, EmptyFollows DEF ChunkEnd, OutboxEnd, QueuedEnd, BatchEnd
<1>5. Cursor
  BY <1>1, PipelineParts DEF Running
<1> QED BY <1>1, <1>4, <1>5 DEF Cursor

LEMMA SettledStep ==
  ASSUME RInv, Next
  PROVE  Settled'
<1> USE DEF RInv
<1>1. CASE Server
  <2>1. UNCHANGED <<blocks, ppc, pres, dpc, dres, dnext, dprev>>
    BY <1>1 DEF Server, MineBlock, Reorg, dbVars, dlVars, prVars
  <2> QED BY <2>1, SyncedKept DEF Settled
<1>2. CASE Call
  <2>1. CASE Join \/ JoinPanic \/ Crash
    BY <2>1 DEF Join, JoinPanic, Crash, Die, ResetTasks, Settled
  <2>2. CASE BeginPass
    <3>1. ppc' \in {"none", "open"} /\ pres' = "none"
      BY <2>2 DEF BeginPass, Resting, IInv, TInv, BatchShape
    <3> QED BY <3>1 DEF Settled
  <2>3. CASE WarpStart \/ ConnectFail \/ CancelWarp
    <3>1. UNCHANGED <<blocks, ppc, pres, dpc, dres, dnext, dprev>>
      BY <2>3 DEF WarpStart, ConnectFail, CancelWarp, dbVars, dlVars, prVars
    <3> QED BY <3>1, SyncedKept DEF Settled
  <2> QED BY <1>2, <2>1, <2>2, <2>3 DEF Call
<1>3. CASE Downloader
  <2>1. dpc # "done" /\ UNCHANGED <<ppc, pres>>
    BY <1>3 DEF Downloader, TakeBlock, Streamed, DetectReorg, StreamEnd, StreamShort, StreamError,
      Send, SendPanic, SendLast, prVars
  <2> QED BY <2>1 DEF Settled
<1>4. CASE RecvClosed
  <2>1. UNCHANGED <<blocks, dpc, dres, dnext, dprev>> /\ ppc' = "finish"
    BY <1>4 DEF RecvClosed, dbVars, dlVars
  <2> QED BY <1>4, <2>1, ClosedMeansSettled, SyncedKept DEF Settled
<1>5. CASE Finish
  <2>1. UNCHANGED <<dpc, dres, dnext, dprev>> /\ ppc = "finish" /\ ppc' = "done"
    BY <1>5 DEF Finish, ProcessorEnds, dlVars
  <2>2. Synced' = Synced
    BY <1>5, FinishEffect
  <2> QED BY <2>1, <2>2 DEF Settled
<1>6. CASE ScanFail \/ DetailsFail
  BY <1>6 DEF ScanFail, DetailsFail, ProcessorEnds, Settled
<1>7. CASE OpenDb \/ Recv \/ LoadTree \/ ScanSpend \/ ScanNote \/ SkipOutput \/ ScanDebit
           \/ SkipSpend \/ EndBlock \/ Commit \/ DetailsOk \/ Store
  <2>1. ppc \notin {"finish", "done"} /\ pres' = pres
    BY <1>7 DEF OpenDb, Recv, LoadTree, ScanSpend, ScanNote, SkipOutput, ScanDebit, SkipSpend,
      EndBlock, Commit, DetailsOk, Store, AtOutput, AtDebit, Scanning
  <2>2. ppc' # "finish"
    BY <1>7, <2>1 DEF OpenDb, Recv, LoadTree, ScanSpend, ScanNote, SkipOutput, ScanDebit,
      SkipSpend, EndBlock, Commit, DetailsOk, Store
  <2> QED BY <2>1, <2>2 DEF Settled
<1> QED BY <1>1, <1>2, <1>3, <1>4, <1>5, <1>6, <1>7 DEF Next, Processor

LEMMA RInvInit == Init => RInv
  BY InitInv DEF Init, Idle, RInv, Reached, Settled, Resting

LEMMA RInvStep == RInv /\ [Next]_vars => RInv'
<1> SUFFICES ASSUME RInv, [Next]_vars PROVE RInv'
  OBVIOUS
<1>1. IInv'
  BY StepInv DEF RInv
<1>2. CASE UNCHANGED vars
  <2>1. UNCHANGED <<blocks, ppc, pres, dpc, dres, dnext, dprev, dend, cancel>>
    BY <1>2 DEF vars
  <2> QED BY <1>1, <2>1, SyncedKept DEF RInv, Reached, Settled, Resting
<1>3. CASE Next
  BY <1>1, <1>3, ReachedStep, SettledStep, RestingStep DEF RInv
<1> QED BY <1>2, <1>3

(* The inductive invariant of the end of a sync. *)
THEOREM ResultInvariance == Spec => []RInv
  BY RInvInit, RInvStep, PTL DEF Spec

-----------------------------------------------------------------------------
(* A call that was not cancelled and returns Ok has stored every block it  *)
(* downloaded, up to the height it set out to reach, wherever chunks,      *)
(* channel and tasks were interrupted before (scan.rs:46-315, chain.rs).   *)
THEOREM OkIsSynced == Spec => OkMeansSynced
<1>1. RInv /\ [Next]_vars =>
        [WarpReturns /\ result' = "ok" /\ ~cancel =>
           /\ SyncedHeight >= dend'
           /\ dprev # NoHash => Synced = dprev]_vars
  <2> SUFFICES ASSUME RInv, Next, pass # 0, pass' = 0, result' = "ok", ~cancel
               PROVE  SyncedHeight >= dend' /\ (dprev # NoHash => Synced = dprev)
    BY DEF WarpReturns
  <2>1. CASE BeginPass
    <3>1. dpc = "none" /\ dend' = EndHeight
      BY <2>1 DEF BeginPass
    <3>2. SyncedHeight >= EndHeight
      BY <2>1 DEF BeginPass
    <3> QED BY <3>1, <3>2 DEF RInv, Resting
  <2>2. CASE Join
    <3>1. dend' = dend /\ ppc = "done" /\ Return(PassResult)
      BY <2>2 DEF Join
    <3>2. PassResult = "ok"
      BY <3>1 DEF Return
    <3>3. dres = "ok" /\ pres = "ok"
      BY <3>2 DEF PassResult
    <3>4. dnext > dend /\ dnext = Height[Synced] + 1 /\ (dprev = Synced \/ dprev = NoHash)
      BY <3>3 DEF RInv, Reached, Settled
    <3>5. Synced \in Block /\ Height[Synced] = SyncedHeight
      BY SyncedExact DEF RInv, IInv
    <3>6. dend \in Nat /\ Height[Synced] \in Nat
      BY <3>5, LedgerTypes DEF RInv, IInv, TInv, TypeOK, DlTypes
    <3> QED BY <3>1, <3>4, <3>5, <3>6
  <2>3. CASE JoinPanic \/ Crash
    BY <2>3 DEF JoinPanic, Crash
  <2>4. CASE ConnectFail
    BY <2>4 DEF ConnectFail, Return
  <2>5. CASE WarpStart \/ CancelWarp
    BY <2>5 DEF WarpStart, CancelWarp
  <2>6. CASE Server \/ Downloader \/ Processor
    <3>1. pass' = pass
      BY <2>6 DEF Server, MineBlock, Reorg, Downloader, TakeBlock, DetectReorg, StreamEnd,
        StreamShort, StreamError, Send, SendPanic, SendLast, Processor, OpenDb, Recv, RecvClosed,
        LoadTree, ScanSpend, ScanNote, SkipOutput, ScanDebit, SkipSpend, ScanFail, EndBlock,
        Commit, DetailsOk, DetailsFail, Store, Finish, callVars
    <3> QED BY <3>1
  <2> QED BY <2>1, <2>2, <2>3, <2>4, <2>5, <2>6 DEF Next, Call
<1> QED BY <1>1, ResultInvariance, PTL DEF Spec, OkMeansSynced

-----------------------------------------------------------------------------
(* The highest witnesses up to an anchor that is not below the purge bound *)
(* are at a height that the purge keeps.                                   *)
LEMMA PurgeKeepsHighest ==
  ASSUME IInv, NEW anchor \in Int, anchor >= dend - PurgeDepth, OldCheckpoints # {}
  PROVE  LET hs == {k[2] : k \in {w \in DOMAIN wits : w[2] <= anchor}}
             kept == {h \in hs : h >= Max(OldCheckpoints)}
         IN hs # {} /\ kept # {} /\ Max(hs) \in Int /\ Max(hs) >= Max(OldCheckpoints)
            /\ Max(kept) = Max(hs)
<1> DEFINE m == Max(OldCheckpoints)
           hs == {k[2] : k \in {w \in DOMAIN wits : w[2] <= anchor}}
           kept == {h \in hs : h >= m}
<1>1. m \in WitHeights /\ m \in Nat /\ m <= dend - PurgeDepth
  BY PurgeBound DEF IInv
<1>2. WitHeights \subseteq Nat
  <2>1. \A k \in DOMAIN wits : k \in NoteId \X Nat
    BY DEF IInv, TInv, TypeOK, DbTypes, IsTable
  <2> QED BY <2>1 DEF WitHeights
<1>3. dend - PurgeDepth \in Int
  BY WarpSyncConstants DEF IInv, TInv, TypeOK, DlTypes
<1>4. hs = UpTo(WitHeights, anchor) /\ hs \subseteq Int
  BY <1>2 DEF UpTo, WitHeights
<1>5. m \in hs
  <2>1. m <= anchor
    BY <1>1, <1>3
  <2> QED BY <1>1, <1>4, <2>1 DEF UpTo
<1>6. HasMax(hs)
  BY <1>4, <1>5 DEF IInv, TInv, Bounded
<1> HIDE DEF hs, m
<1>7. Max(hs) \in hs /\ \A k \in hs : k <= Max(hs)
  BY <1>4, <1>6, MaxProperties
<1>8. Max(hs) \in Int /\ Max(hs) >= m
  BY <1>4, <1>5, <1>7
<1>9. kept \subseteq Int /\ Max(hs) \in kept /\ \A k \in kept : k <= Max(hs)
  BY <1>4, <1>7, <1>8
<1>10. Max(kept) = Max(hs)
  BY <1>9, MaxIs
<1> QED BY <1>5, <1>8, <1>9, <1>10 DEF hs, m

(* The purge at the end of a sync removes no witness that a payment with   *)
(* an anchor at or above its bound would use, and leaves the checkpoint    *)
(* that the next sync resumes from (scan.rs:296, db.rs:537-557).           *)
THEOREM PurgeIsSafe == Spec => PurgeKeepsAnchors
<1>1. IInv /\ [Next]_vars =>
        [ppc = "finish" =>
           /\ \A anchor \in {h \in {Height[b] : b \in Block} : h >= dend - PurgeDepth} :
                WitnessesAt(anchor) = WitnessesAt(anchor)'
           /\ SyncedHeight' = SyncedHeight]_vars
  <2> SUFFICES ASSUME IInv, Next, ppc = "finish"
               PROVE  /\ \A anchor \in {h \in {Height[b] : b \in Block} : h >= dend - PurgeDepth} :
                           WitnessesAt(anchor) = WitnessesAt(anchor)'
                      /\ SyncedHeight' = SyncedHeight
    OBVIOUS
  <2>1. CASE UNCHANGED <<blocks, wits>>
    BY <2>1, SyncedKept DEF WitnessesAt
  <2>2. CASE Finish /\ OldCheckpoints # {}
    <3>1. SyncedHeight' = SyncedHeight
      BY <2>2, FinishEffect
    <3>2. ASSUME NEW anchor \in {h \in {Height[b] : b \in Block} : h >= dend - PurgeDepth}
          PROVE  WitnessesAt(anchor) = WitnessesAt(anchor)'
      <4> DEFINE m == Max(OldCheckpoints)
                 hs == {k[2] : k \in {w \in DOMAIN wits : w[2] <= anchor}}
                 kept == {h \in hs : h >= m}
      <4>1. anchor \in Int /\ anchor >= dend - PurgeDepth
        BY LedgerTypes
      <4>2. hs # {} /\ kept # {} /\ Max(hs) \in Int /\ Max(hs) >= m /\ Max(kept) = Max(hs)
        BY <2>2, <4>1, PurgeKeepsHighest
      <4>3. DOMAIN wits' = {k \in DOMAIN wits : k[2] >= m}
        BY <2>2 DEF Finish, Restrict
      <4> HIDE DEF m
      <4>4. {k[2] : k \in {w \in DOMAIN wits' : w[2] <= anchor}} = kept
        BY <4>3
      <4>5. WitnessesAt(anchor) = {k \in DOMAIN wits : k[2] = Max(hs)}
        BY <4>2 DEF WitnessesAt
      <4>6. WitnessesAt(anchor)' = {k \in DOMAIN wits' : k[2] = Max(kept)}
        BY <4>2, <4>4 DEF WitnessesAt
      <4> QED BY <4>2, <4>3, <4>5, <4>6
    <3> QED BY <3>1, <3>2
  <2>3. CASE Finish /\ OldCheckpoints = {}
    BY <2>1, <2>3 DEF Finish
  <2>4. CASE ~Finish
    <3>1. ~Store
      BY DEF Store
    <3> QED BY <2>1, <2>4, <3>1, OthersKeepBlocks
  <2> QED BY <2>2, <2>3, <2>4
<1> QED BY <1>1, Invariance, PTL DEF Spec, PurgeKeepsAnchors
=============================================================================
