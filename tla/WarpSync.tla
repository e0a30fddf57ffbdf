------------------------------ MODULE WarpSync ------------------------------
(***************************************************************************)
(* One wallet running warp sync against a lightwalletd server: coin_sync   *)
(* (api/sync.rs) makes two passes of sync_async (scan.rs).  A pass spawns  *)
(* two tasks joined by a channel of one slot: the downloader               *)
(* (download_chain, chain.rs) streams blocks, checks that they link and    *)
(* cuts them into batches; the processor scans each batch, advances the    *)
(* commitment tree and the witnesses, and writes the database.             *)
(*                                                                         *)
(* A batch is written by TWO database transactions: Commit ends the one    *)
(* that records notes, spends and transactions, Store is the one that      *)
(* records the tree, the witnesses and the block row that sync resumes     *)
(* from.  The retrieval of transaction details runs between them.          *)
(*                                                                         *)
(* The tree and the witnesses are represented by the leaves they stand     *)
(* for: advance_tree (builder.rs) is abstracted to "append these leaves".  *)
(***************************************************************************)
EXTENDS Ledger, FiniteSets, FiniteSetsExt

CONSTANTS
  MaxOutputs,    \* MAX_OUTPUTS_PER_CHUNK
  AnchorOffset,  \* anchor_offset of the first pass
  PurgeDepth,    \* witnesses are kept this far behind the end (100)
  GetTx,         \* get_tx: fetch the details of our transactions
  Faults,        \* the kinds of event outside the wallet that may happen
  MaxFaults,     \* bound on failures (network, details, crash) in a behaviour
  NoHash,        \* prev_hash = None
  Null           \* SQL NULL in received_notes.spent

FaultKinds == {"reorg", "network", "details", "crash", "cancel"}

ASSUME WarpSyncConstants ==
  /\ MaxOutputs \in Nat
  /\ AnchorOffset \in Nat
  /\ PurgeDepth \in Nat
  /\ GetTx \in BOOLEAN
  /\ Faults \subseteq FaultKinds
  /\ MaxFaults \in Nat
  /\ NoHash \notin Block
  /\ Null \notin Nat

VARIABLES
  tip,     \* the block lightwalletd reports as the latest
  \* the wallet database
  blocks,  \* blocks: height -> hash and commitment tree
  notes,   \* received_notes: <<tx row, output>> -> nullifier, height, spent
  txs,     \* transactions: <<height, tx_index, account>> -> txid, value
  wits,    \* sapling_witnesses: <<note, height>> -> position, leaves
  \* the call to warp
  pass,    \* 0 when no sync runs, else the pass of coin_sync under way
  result,  \* what the last call returned
  cancel,  \* SYNC_CANCELED
  faults,  \* failures so far, at most MaxFaults
  \* the downloader task
  dpc, dnext, dend,
  dprev,   \* prev_hash
  cbs,     \* the chunk being filled
  outbox,  \* the full chunk waiting for the channel
  dres,    \* what the task returned
  chan,    \* the mpsc channel, capacity 1
  \* the processor task
  ppc,
  nfs,     \* the nullifiers of our unspent notes: nullifier -> note
  batch,   \* the batch in progress
  tree,    \* the commitment tree at the start of the batch
  bwits,   \* the witnesses at the start of the batch: note -> witness
  scan,    \* the locals of the scan and its uncommitted rows
  pres     \* what the task returned

dbVars == <<blocks, notes, txs, wits>>
callVars == <<pass, result, cancel, faults>>
dlVars == <<dpc, dnext, dend, dprev, cbs, outbox, dres>>
prVars == <<ppc, nfs, batch, tree, bwits, scan, pres>>
vars == <<tip, blocks, notes, txs, wits, pass, result, cancel, faults,
          dpc, dnext, dend, dprev, cbs, outbox, dres, chan,
          ppc, nfs, batch, tree, bwits, scan, pres>>

-----------------------------------------------------------------------------
(* Rows and tables *)

Batch == [blocks : Seq(Block), outs : Seq(Out)]
EmptyBatch == [blocks |-> << >>, outs |-> << >>]
Push(c, b) == [blocks |-> Append(c.blocks, b), outs |-> c.outs \o Outs[b]]
LastOf(c) == c.blocks[Len(c.blocks)]

TxId == Nat \X Nat \X Account      \* the unique key of transactions
NoteId == TxId \X Out              \* the unique key of received_notes
BlockRow == [hash : Block, tree : Seq(Out)]
TxRow == [txid : Tx, value : Int]
NoteRow == [nf : Nf, height : Nat, spent : Nat \cup {Null}]
Witness == [pos : Nat, leaves : Seq(Out)]

IsTable(f, Key, Row) ==
  /\ f = [k \in DOMAIN f |-> f[k]]
  /\ \A k \in DOMAIN f : k \in Key /\ f[k] \in Row

EmptyTable == [k \in {} |-> k]

(* INSERT ... ON CONFLICT DO NOTHING: the rows of g whose key is not taken. *)
InsertAll(f, g) ==
  [k \in DOMAIN f \cup DOMAIN g |-> IF k \in DOMAIN f THEN f[k] ELSE g[k]]
Insert(f, k, row) == InsertAll(f, [j \in {k} |-> row])

(* HashMap::insert: a key that is taken gets the new value. *)
Put(f, k, v) == InsertAll([j \in {k} |-> v], f)

AccountOf(n) == n[1][3]
OutOf(n) == n[2]

(* "spent IS NULL OR spent = 0": 0 marks a note spent by a payment that    *)
(* has been broadcast and not seen in a block.                             *)
UnspentUnmarked(table) == {n \in DOMAIN table : table[n].spent = Null}
Unspent(table) == {n \in DOMAIN table : table[n].spent \in {Null, 0}}

(* DbAdapter::get_db_height, get_db_hash and the tree of get_tree *)
SyncedHeight == IF blocks = EmptyTable THEN Height[Genesis] ELSE Max(DOMAIN blocks)
SyncedHash == IF blocks = EmptyTable THEN NoHash ELSE blocks[SyncedHeight].hash
SyncedTree == IF blocks = EmptyTable THEN << >> ELSE blocks[SyncedHeight].tree

(* DbAdapter::get_nullifiers; nf is UNIQUE in received_notes. *)
Nullifiers ==
  [nf \in {notes[n].nf : n \in Unspent(notes)} |->
     CHOOSE n \in Unspent(notes) : notes[n].nf = nf]

EmptyScan ==
  [blk |-> 1, cur |-> 1, pos |-> 0, mine |-> {}, found |-> FALSE,
   new |-> EmptyTable, notes |-> EmptyTable, txs |-> EmptyTable]

-----------------------------------------------------------------------------
Idle ==
  /\ dpc = "none" /\ dnext = 0 /\ dprev = NoHash /\ dres = "none"
  /\ cbs = EmptyBatch /\ outbox = EmptyBatch /\ chan = << >>
  /\ ppc = "none" /\ nfs = EmptyTable /\ batch = EmptyBatch
  /\ tree = << >> /\ bwits = EmptyTable /\ scan = EmptyScan /\ pres = "none"

Init ==
  /\ tip \in Block
  /\ blocks = EmptyTable /\ notes = EmptyTable /\ txs = EmptyTable /\ wits = EmptyTable
  /\ pass = 0 /\ result = "none" /\ cancel = FALSE /\ faults = 0
  /\ dend = 0
  /\ Idle

-----------------------------------------------------------------------------
(* The server: its best chain grows, or is replaced by another one. *)

MineBlock ==
  /\ \E b \in Block : b # Genesis /\ Parent[b] = tip /\ tip' = b
  /\ UNCHANGED <<dbVars, callVars, dlVars, chan, prVars>>

Reorg ==
  /\ "reorg" \in Faults
  /\ \E b \in Block : tip \notin Anc[b] /\ b \notin Anc[tip] /\ tip' = b
  /\ UNCHANGED <<dbVars, callVars, dlVars, chan, prVars>>

(* A failure outside the wallet; MaxFaults bounds how many happen. *)
Fault(kind) ==
  /\ kind \in Faults
  /\ faults < MaxFaults
  /\ faults' = faults + 1

-----------------------------------------------------------------------------
(* The call: warp (dart_ffi.rs), coin_sync (api/sync.rs), and the head and *)
(* the tail of sync_async (scan.rs).                                       *)

WarpStart ==
  /\ pass = 0
  /\ pass' = 1
  /\ UNCHANGED <<tip, dbVars, result, cancel, faults, dlVars, chan, prVars>>

(* A pass returns r: Ok leads from the first pass to the second; anything  *)
(* else, and the end of the second, returns to the caller, which clears    *)
(* SYNC_CANCELED.                                                          *)
Return(r) ==
  IF r = "ok" /\ pass = 1
    THEN pass' = 2 /\ UNCHANGED <<result, cancel>>
    ELSE pass' = 0 /\ result' = r /\ cancel' = FALSE

Offset == IF pass = 1 THEN AnchorOffset ELSE 0
EndHeight == Max({Height[tip] - Offset, SyncedHeight})

BeginPass ==
  /\ pass # 0 /\ dpc = "none"
  /\ dend' = EndHeight
  /\ IF SyncedHeight >= EndHeight
       THEN /\ Return("ok")
            /\ UNCHANGED <<dpc, dnext, dprev, ppc>>
       ELSE /\ dpc' = "stream" /\ dnext' = SyncedHeight + 1 /\ dprev' = SyncedHash
            /\ ppc' = "open"
            /\ UNCHANGED <<pass, result, cancel>>
  /\ UNCHANGED <<tip, dbVars, faults, cbs, outbox, dres, chan,
                 nfs, batch, tree, bwits, scan, pres>>

ConnectFail ==
  /\ pass # 0 /\ dpc = "none"
  /\ Fault("network")
  /\ Return("err")
  /\ UNCHANGED <<tip, dbVars, dlVars, chan, prVars>>

(* The tasks and everything they hold are gone. *)
ResetTasks ==
  /\ dpc' = "none" /\ dnext' = 0 /\ dprev' = NoHash /\ dres' = "none"
  /\ cbs' = EmptyBatch /\ outbox' = EmptyBatch /\ chan' = << >>
  /\ ppc' = "none" /\ nfs' = EmptyTable /\ batch' = EmptyBatch
  /\ tree' = << >> /\ bwits' = EmptyTable /\ scan' = EmptyScan /\ pres' = "none"

(* try_join! on the two JoinHandles: an Err the tasks return is looked at  *)
(* when both have ended, the downloader's first.                           *)
PassResultOfProcessor == pres
PassResult == IF dres # "ok" THEN dres ELSE pres

Join ==
  /\ dpc = "done" /\ ppc = "done"
  /\ dres # "panic" /\ pres # "panic"
  /\ Return(PassResult)
  /\ ResetTasks
  /\ UNCHANGED <<tip, dbVars, faults, dend>>

(* The volatile state goes with the process. *)
Die ==
  /\ pass' = 0 /\ cancel' = FALSE
  /\ ResetTasks
  /\ UNCHANGED <<tip, dbVars, dend>>

(* A panic is a JoinError: try_join! returns at once and resume_unwind     *)
(* takes the panic through the extern "C" function, which aborts.          *)
JoinPanic ==
  /\ \/ dpc = "done" /\ dres = "panic"
     \/ ppc = "done" /\ pres = "panic"
  /\ Die
  /\ result' = "panic"
  /\ UNCHANGED faults

Crash ==
  /\ pass # 0
  /\ Fault("crash")
  /\ Die
  /\ result' = "crash"

CancelWarp ==
  /\ "cancel" \in Faults
  /\ ~cancel
  /\ cancel' = TRUE
  /\ UNCHANGED <<tip, dbVars, pass, result, faults, dlVars, chan, prVars>>

-----------------------------------------------------------------------------
(* The downloader: download_chain (chain.rs) *)

(* The server answers the stream with the block that its best chain has at *)
(* the next height when it is asked for it.                                *)
Streamed(b) ==
  /\ dpc = "stream" /\ dnext <= dend
  /\ b \in Anc[tip] /\ Height[b] = dnext

LinkedWithinChunk(b) == cbs.blocks = << >> \/ Parent[b] = dprev
LinkedToStoreOnly(b) == cbs.blocks # << >> \/ dprev = NoHash \/ Parent[b] = dprev
Linked(b) == dprev = NoHash \/ Parent[b] = dprev

DownloaderEnds(r) ==
  /\ dpc' = "done" /\ dres' = r
  /\ cbs' = EmptyBatch /\ outbox' = EmptyBatch

TakeBlock ==
  /\ ~cancel
  /\ \E b \in Block :
       /\ Streamed(b)
       /\ Linked(b)
       /\ dprev' = b
       /\ IF Len(cbs.outs) + Len(Outs[b]) > MaxOutputs
            THEN /\ dpc' = "send" /\ outbox' = cbs
                 /\ cbs' = Push(EmptyBatch, b)
            ELSE /\ cbs' = Push(cbs, b)
                 /\ UNCHANGED <<dpc, outbox>>
  /\ dnext' = dnext + 1
  /\ UNCHANGED <<tip, dbVars, callVars, dend, dres, chan, prVars>>

DetectReorg ==
  /\ ~cancel
  /\ \E b \in Block : Streamed(b) /\ ~Linked(b)
  /\ DownloaderEnds("reorg")
  /\ UNCHANGED <<tip, dbVars, callVars, dnext, dend, dprev, chan, prVars>>

(* The stream has ended, or a block has come after SYNC_CANCELED was set. *)
StreamEnd ==
  /\ dpc = "stream"
  /\ dnext > dend \/ (cancel /\ \E b \in Block : Streamed(b))
  /\ dpc' = "last" /\ outbox' = cbs /\ cbs' = EmptyBatch
  /\ UNCHANGED <<tip, dbVars, callVars, dnext, dend, dprev, dres, chan, prVars>>

(* The server's chain has become too short for the range, ... *)
StreamShort ==
  /\ dpc = "stream" /\ dnext <= dend
  /\ Height[tip] < dnext
  /\ DownloaderEnds("err")
  /\ UNCHANGED <<tip, dbVars, callVars, dnext, dend, dprev, chan, prVars>>

(* ... or the connection is lost. *)
StreamError ==
  /\ dpc = "stream" /\ dnext <= dend
  /\ Fault("network")
  /\ DownloaderEnds("err")
  /\ UNCHANGED <<tip, dbVars, pass, result, cancel, dnext, dend, dprev, chan, prVars>>

ReceiverDropped == ppc = "done"

(* blocks_tx.send(..).await: waits for the slot of the channel. *)
SlotUnbounded == TRUE
Slot == chan = << >>

Send ==
  /\ dpc = "send" /\ ~ReceiverDropped
  /\ Slot
  /\ chan' = Append(chan, outbox)
  /\ dpc' = "stream" /\ outbox' = EmptyBatch
  /\ UNCHANGED <<tip, dbVars, callVars, dnext, dend, dprev, cbs, dres, prVars>>

(* ... .unwrap(): the processor has ended, and its receiver with it. *)
SendPanic ==
  /\ dpc = "send" /\ ReceiverDropped
  /\ DownloaderEnds("panic")
  /\ UNCHANGED <<tip, dbVars, callVars, dnext, dend, dprev, chan, prVars>>

(* The last chunk: here the result of send is ignored. *)
SendLast ==
  /\ dpc = "last"
  /\ \/ ReceiverDropped /\ UNCHANGED chan
     \/ ~ReceiverDropped /\ Slot /\ chan' = Append(chan, outbox)
  /\ DownloaderEnds("ok")
  /\ UNCHANGED <<tip, dbVars, callVars, dnext, dend, dprev, prVars>>

-----------------------------------------------------------------------------
(* The processor: the second task of sync_async (scan.rs) *)

ProcessorEnds(r) ==
  /\ ppc' = "done" /\ pres' = r
  /\ nfs' = EmptyTable /\ batch' = EmptyBatch
  /\ tree' = << >> /\ bwits' = EmptyTable /\ scan' = EmptyScan

OpenDb ==
  /\ ppc = "open"
  /\ ppc' = "recv"
  /\ nfs' = Nullifiers
  /\ UNCHANGED <<tip, dbVars, callVars, dlVars, chan, batch, tree, bwits, scan, pres>>

(* An empty chunk is skipped. *)
Recv ==
  /\ ppc = "recv" /\ chan # << >>
  /\ chan' = Tail(chan)
  /\ IF Head(chan).blocks = << >>
       THEN UNCHANGED <<ppc, batch>>
       ELSE ppc' = "load" /\ batch' = Head(chan)
  /\ UNCHANGED <<tip, dbVars, callVars, dlVars, nfs, tree, bwits, scan, pres>>

(* recv returns None: the sender is dropped and the channel is empty. *)
SenderDroppedOnSuccess == dpc = "done" /\ dres = "ok"
SenderDropped == dpc = "done"

RecvClosed ==
  /\ ppc = "recv" /\ chan = << >> /\ SenderDropped
  /\ ppc' = "finish"
  /\ UNCHANGED <<tip, dbVars, callVars, dlVars, chan, nfs, batch, tree, bwits, scan, pres>>

(* DbAdapter::get_tree: the witnesses of the unspent notes at SyncedHeight *)
StoredWitnesses ==
  [n \in {m \in Unspent(notes) : blocks # EmptyTable /\ <<m, SyncedHeight>> \in DOMAIN wits} |->
     wits[<<n, SyncedHeight>>]]

(* get_tree, then begin_transaction. *)
LoadTree ==
  /\ ppc = "load"
  /\ ppc' = "scan"
  /\ tree' = SyncedTree
  /\ bwits' = StoredWitnesses
  /\ scan' = [EmptyScan EXCEPT !.pos = Len(SyncedTree), !.notes = notes, !.txs = txs]
  /\ UNCHANGED <<tip, dbVars, callVars, dlVars, chan, nfs, batch, pres>>

(* The scan goes through the items of each block of the batch in order:    *)
(* its spends (against nfs), its outputs (those we can decrypt), and its   *)
(* spends again (to debit the transactions that spend our notes).          *)
Scanning(b) == ppc = "scan" /\ scan.blk <= Len(batch.blocks) /\ b = batch.blocks[scan.blk]
NSpends(b) == Len(Spends[b])
NOuts(b) == Len(Outs[b])

ScanSpend ==
  /\ \E b \in Block :
       /\ Scanning(b) /\ scan.cur \in 1..NSpends(b)
       /\ LET nf == Spends[b][scan.cur].nf IN
          IF nf \in DOMAIN nfs
            THEN /\ scan' = [scan EXCEPT !.cur = @ + 1, !.mine = @ \cup {nf},
                       !.notes = [n \in DOMAIN @ |->
                          IF n = nfs[nf] THEN [@[n] EXCEPT !.spent = Height[b]] ELSE @[n]]]
                 /\ nfs' = Restrict(nfs, DOMAIN nfs \ {nf})
            ELSE scan' = [scan EXCEPT !.cur = @ + 1] /\ UNCHANGED nfs
  /\ UNCHANGED <<tip, dbVars, callVars, dlVars, chan, ppc, batch, tree, bwits, pres>>

(* DbAdapter::store_transaction: insert the row unless its unique key is   *)
(* taken; then look a row up by account and txid.  The lookup has no ORDER *)
(* BY: with several rows, which one it returns is left open.               *)
TxKey(b, t, a) == <<Height[b], Index[b][t], a>>
StoreTransaction(b, t, a) == Insert(scan.txs, TxKey(b, t, a), [txid |-> t, value |-> 0])
TxRows(table, t, a) == {k \in DOMAIN table : k[3] = a /\ table[k].txid = t}

(* DbAdapter::store_received_note: both (tx, output_index) and nf are      *)
(* unique; the lookup that follows is by (tx, output_index).               *)
NoteTaken(id, nf) ==
  id \in DOMAIN scan.notes \/ \E n \in DOMAIN scan.notes : scan.notes[n].nf = nf
NoteFound(id, nf) == NoteTaken(id, nf) => id \in DOMAIN scan.notes

NewNfInBlock(b) ==
  LET i == scan.cur - NSpends(b) IN <<Outs[b][i], i - 1>>
NewNf(b) ==
  LET i == scan.cur - NSpends(b) IN <<Outs[b][i], scan.pos + i - 1>>
AtOutput(b) ==
  /\ Scanning(b) /\ scan.cur - NSpends(b) \in 1..NOuts(b)
Mine(o) == Owner[o] \in Account

LearnNothing(nf, id) == nfs
Learn(nf, id) == Put(nfs, nf, id)

ScanNote ==
  /\ \E b \in Block :
       /\ AtOutput(b) /\ Mine(NewNf(b)[1])
       /\ LET nf == NewNf(b)
              o == nf[1]
              table == StoreTransaction(b, TxOf[o], Owner[o])
          IN \E row \in TxRows(table, TxOf[o], Owner[o]) :
               LET id == <<row, o>> IN
               /\ NoteFound(id, nf)
               /\ scan' = [scan EXCEPT !.cur = @ + 1, !.found = TRUE,
                     !.notes = Insert(@, id, [nf |-> nf, height |-> Height[b], spent |-> Null]),
                     !.txs = [table EXCEPT ![row].value = @ + Value[o]],
                     !.new = Put(@, id, nf[2])]
               /\ nfs' = Learn(nf, id)
  /\ UNCHANGED <<tip, dbVars, callVars, dlVars, chan, ppc, batch, tree, bwits, pres>>

SkipOutput ==
  /\ \E b \in Block : AtOutput(b) /\ ~Mine(NewNf(b)[1])
  /\ scan' = [scan EXCEPT !.cur = @ + 1]
  /\ UNCHANGED <<tip, dbVars, callVars, dlVars, chan, ppc, nfs, batch, tree, bwits, pres>>

AtDebit(b) ==
  Scanning(b) /\ scan.cur - NSpends(b) - NOuts(b) \in 1..NSpends(b)
Debit(b) == Spends[b][scan.cur - NSpends(b) - NOuts(b)]

(* DbAdapter::get_received_note_value looks the note up by its nullifier. *)
DebitNotes(nf) == {n \in DOMAIN scan.notes : scan.notes[n].nf = nf}

SpentHereFromCache(nf) == nf \in DOMAIN nfs
SpentHere(nf) == nf \in scan.mine

ScanDebit ==
  /\ \E b \in Block :
       /\ AtDebit(b) /\ SpentHere(Debit(b).nf)
       /\ \E n \in DebitNotes(Debit(b).nf) :
            LET table == StoreTransaction(b, Debit(b).tx, AccountOf(n)) IN
            \E row \in TxRows(table, Debit(b).tx, AccountOf(n)) :
              scan' = [scan EXCEPT !.cur = @ + 1, !.found = TRUE,
                         !.txs = [table EXCEPT ![row].value = @ - Value[OutOf(n)]]]
  /\ UNCHANGED <<tip, dbVars, callVars, dlVars, chan, ppc, nfs, batch, tree, bwits, pres>>

SkipSpend ==
  /\ \E b \in Block : AtDebit(b) /\ ~SpentHere(Debit(b).nf)
  /\ scan' = [scan EXCEPT !.cur = @ + 1]
  /\ UNCHANGED <<tip, dbVars, callVars, dlVars, chan, ppc, nfs, batch, tree, bwits, pres>>

(* A lookup after an insert that did nothing finds no row: query_row       *)
(* fails, the transaction is rolled back and the task returns the error.   *)
NoRowForOutput(b) ==
  LET nf == NewNf(b)
      o == nf[1]
      rows == TxRows(StoreTransaction(b, TxOf[o], Owner[o]), TxOf[o], Owner[o])
  IN Mine(o) /\ (rows = {} \/ \E row \in rows : ~NoteFound(<<row, o>>, nf))
NoRowForSpend(b) ==
  LET s == Debit(b) IN
  /\ SpentHere(s.nf)
  /\ \/ DebitNotes(s.nf) = {}
     \/ \E n \in DebitNotes(s.nf) :
          TxRows(StoreTransaction(b, s.tx, AccountOf(n)), s.tx, AccountOf(n)) = {}

ScanFail ==
  /\ \E b \in Block :
       \/ AtOutput(b) /\ NoRowForOutput(b)
       \/ AtDebit(b) /\ NoRowForSpend(b)
  /\ ProcessorEnds("err")
  /\ UNCHANGED <<tip, dbVars, callVars, dlVars, chan>>

EndBlock ==
  /\ \E b \in Block :
       /\ Scanning(b) /\ scan.cur > 2 * NSpends(b) + NOuts(b)
       /\ scan' = [scan EXCEPT !.blk = @ + 1, !.cur = 1, !.mine = {}, !.pos = @ + NOuts(b)]
  /\ UNCHANGED <<tip, dbVars, callVars, dlVars, chan, ppc, nfs, batch, tree, bwits, pres>>

Commit ==
  /\ ppc = "scan" /\ scan.blk > Len(batch.blocks)
  /\ notes' = scan.notes /\ txs' = scan.txs
  /\ ppc' = IF GetTx /\ scan.found THEN "details" ELSE "store"
  /\ UNCHANGED <<tip, blocks, wits, callVars, dlVars, chan, nfs, batch, tree, bwits, scan, pres>>

(* retrieve_tx_info: connecting again fails, or the call does (unwrap). *)
DetailsOk ==
  /\ ppc = "details"
  /\ ppc' = "store"
  /\ UNCHANGED <<tip, dbVars, callVars, dlVars, chan, nfs, batch, tree, bwits, scan, pres>>

DetailsFail ==
  /\ ppc = "details"
  /\ Fault("details")
  /\ \E r \in {"err", "panic"} : ProcessorEnds(r)
  /\ UNCHANGED <<tip, dbVars, pass, result, cancel, dlVars, chan>>

(* BlockProcessor: every witness, the new ones too, is carried to the end  *)
(* of the batch.  add_nodes is not called for a batch without outputs,     *)
(* which has no new witnesses either.                                      *)
NewTree == tree \o batch.outs

NewWitnessesOnlyAdvancedByOwnBatch ==
  InsertAll(bwits, [n \in DOMAIN scan.new |-> [pos |-> scan.new[n], leaves |-> NewTree]])
NewWitnessesOfOldNotes ==
  [n \in DOMAIN bwits |-> [bwits[n] EXCEPT !.leaves = @ \o batch.outs]]
NewWitnesses ==
  InsertAll([n \in DOMAIN bwits |-> [bwits[n] EXCEPT !.leaves = @ \o batch.outs]],
            [n \in DOMAIN scan.new |-> [pos |-> scan.new[n], leaves |-> NewTree]])

(* The second transaction of the batch: store_witnesses and store_block. *)
Store ==
  LET b == LastOf(batch)
      h == Height[b]
      rows == [k \in {<<n, h>> : n \in DOMAIN NewWitnesses} |-> NewWitnesses[k[1]]]
  IN
  /\ ppc = "store"
  /\ wits' = InsertAll(wits, rows)
  /\ blocks' = Insert(blocks, h, [hash |-> b, tree |-> NewTree])
  /\ ppc' = "recv" /\ batch' = EmptyBatch
  /\ tree' = << >> /\ bwits' = EmptyTable /\ scan' = EmptyScan
  /\ UNCHANGED <<tip, notes, txs, callVars, dlVars, chan, nfs, pres>>

(* DbAdapter::purge_old_witnesses(end_height - 100) *)
OldCheckpointsFromEnd == {k[2] : k \in DOMAIN wits}
OldCheckpoints == {h \in {k[2] : k \in DOMAIN wits} : h <= dend - PurgeDepth}

Finish ==
  /\ ppc = "finish"
  /\ IF OldCheckpoints = {}
       THEN UNCHANGED <<wits, blocks>>
       ELSE /\ wits' = Restrict(wits, {k \in DOMAIN wits : k[2] >= Max(OldCheckpoints)})
            /\ blocks' = Restrict(blocks, {h \in DOMAIN blocks : h >= Max(OldCheckpoints)})
  /\ ProcessorEnds("ok")
  /\ UNCHANGED <<tip, notes, txs, callVars, dlVars, chan>>

-----------------------------------------------------------------------------
Server == MineBlock \/ Reorg

Call ==
  \/ WarpStart \/ BeginPass \/ ConnectFail \/ Join \/ JoinPanic \/ Crash \/ CancelWarp

Downloader ==
  \/ TakeBlock \/ DetectReorg \/ StreamEnd \/ StreamShort \/ StreamError
  \/ Send \/ SendPanic \/ SendLast

Processor ==
  \/ OpenDb \/ Recv \/ RecvClosed \/ LoadTree
  \/ ScanSpend \/ ScanNote \/ SkipOutput \/ ScanDebit \/ SkipSpend \/ ScanFail
  \/ EndBlock \/ Commit \/ DetailsOk \/ DetailsFail \/ Store \/ Finish

Next == Server \/ Call \/ Downloader \/ Processor

Spec == Init /\ [][Next]_vars

(* The tokio runtime polls every task that can make progress, and the call *)
(* itself; nothing obliges the application to sync, or a fault to happen.  *)
Fairness ==
  /\ WF_vars(BeginPass) /\ WF_vars(Join \/ JoinPanic)
  /\ WF_vars(Downloader) /\ WF_vars(Processor)

FairSpec == Spec /\ Fairness

-----------------------------------------------------------------------------
(* Properties.  The block the wallet has synced to, and what the chain of  *)
(* a block says the wallet should hold.                                    *)

Synced == IF blocks = EmptyTable THEN Genesis ELSE SyncedHash

(* The notes on the chain of b: <<out, position>> and the block they are in. *)
ChainNotes(b) ==
  UNION {{[nf |-> <<o, Position(o, b)>>, in |-> a] : o \in Received(a)} : a \in Anc[b]}
SpentAt(nf, b) == {Height[a] : a \in {c \in Anc[b] : \E s \in SpendsIn(c) : s.nf = nf}}

(* The rows at or below the synced height. Rows above it belong to a batch *)
(* whose second transaction has not been committed.                        *)
SyncedNotes == {n \in DOMAIN notes : notes[n].height <= SyncedHeight}
SpentBySync(n) == notes[n].spent # Null /\ notes[n].spent \in 1..SyncedHeight

(* All variables hold values of their types. *)
DbTypes ==
  /\ IsTable(blocks, Nat, BlockRow)
  /\ IsTable(notes, NoteId, NoteRow)
  /\ IsTable(txs, TxId, TxRow)
  /\ IsTable(wits, NoteId \X Nat, Witness)
CallTypes ==
  /\ pass \in 0..2
  /\ result \in {"none", "ok", "reorg", "err", "panic", "crash"}
  /\ cancel \in BOOLEAN
  /\ faults \in 0..MaxFaults
DlTypes ==
  /\ dpc \in {"none", "stream", "send", "last", "done"}
  /\ dnext \in Nat
  /\ dend \in Nat
  /\ dprev \in Block \cup {NoHash}
  /\ cbs \in Batch /\ outbox \in Batch
  /\ dres \in {"none", "ok", "reorg", "err", "panic"}
ChanTypes == chan \in Seq(Batch) /\ Len(chan) <= 1
PrTypes ==
  /\ ppc \in {"none", "open", "recv", "load", "scan", "details", "store", "finish", "done"}
  /\ IsTable(nfs, Nf, NoteId)
  /\ batch \in Batch
  /\ tree \in Seq(Out)
  /\ IsTable(bwits, NoteId, Witness)
  /\ pres \in {"none", "ok", "err", "panic"}
ScanTypes ==
  /\ scan = [blk |-> scan.blk, cur |-> scan.cur, pos |-> scan.pos, mine |-> scan.mine,
             found |-> scan.found, new |-> scan.new, notes |-> scan.notes, txs |-> scan.txs]
  /\ scan.blk \in Nat /\ scan.cur \in Nat /\ scan.pos \in Nat
  /\ scan.mine \subseteq Nf /\ scan.found \in BOOLEAN
  /\ IsTable(scan.new, NoteId, Nat)
  /\ IsTable(scan.notes, NoteId, NoteRow)
  /\ IsTable(scan.txs, TxId, TxRow)
TypeOK ==
  /\ tip \in Block
  /\ DbTypes /\ CallTypes /\ DlTypes /\ ChanTypes /\ PrTypes /\ ScanTypes

(* Every block row is a checkpoint of one real chain: its tree is the      *)
(* commitment tree of its hash, at the height of that hash, and the older  *)
(* rows are ancestors of the newer ones.  Sync resumes from these rows.    *)
CheckpointsExact ==
  \A h \in DOMAIN blocks :
    /\ Height[blocks[h].hash] = h
    /\ blocks[h].tree = Leaves[blocks[h].hash]
    /\ \A g \in DOMAIN blocks : g <= h => blocks[g].hash \in Anc[blocks[h].hash]

(* While the processor runs, the chunks in flight (its batch, the channel, *)
(* the chunk waiting for the channel, the chunk being filled) continue the *)
(* chain from the synced block without gap or overlap, in this order, and  *)
(* the downloader, unless it has failed, asks for the block after the last *)
(* of them.                                                                *)
EndOf(c, b) == IF c.blocks = << >> THEN b ELSE LastOf(c)
Follows(c, b) ==
  /\ \A i \in 1..Len(c.blocks) :
       /\ Parent[c.blocks[i]] = IF i = 1 THEN b ELSE c.blocks[i - 1]
       /\ c.blocks[i] # Genesis /\ c.blocks[i] \in Anc[EndOf(c, b)]
  /\ b \in Anc[EndOf(c, b)]
  /\ c.blocks # << >> => Height[EndOf(c, b)] > Height[b]
  /\ Leaves[EndOf(c, b)] = Leaves[b] \o c.outs
Queued == IF chan = << >> THEN EmptyBatch ELSE Head(chan)
BatchEnd == EndOf(batch, Synced)
QueuedEnd == EndOf(Queued, BatchEnd)
OutboxEnd == EndOf(outbox, QueuedEnd)
ChunkEnd == EndOf(cbs, OutboxEnd)
PipelineLinked ==
  ppc \notin {"none", "finish", "done"} =>
    /\ Follows(batch, Synced) /\ Follows(Queued, BatchEnd)
    /\ Follows(outbox, QueuedEnd) /\ Follows(cbs, OutboxEnd)
    /\ dpc \in {"stream", "send", "last"} \/ dres = "ok" =>
         /\ dnext = Height[ChunkEnd] + 1
         /\ dprev = ChunkEnd \/ (dprev = NoHash /\ ChunkEnd = Genesis)
    /\ ppc \in {"scan", "details", "store"} => tree = Leaves[Synced]

(* The wallet holds exactly the notes of the chain it has synced, each     *)
(* with the nullifier of its real position and the row of its transaction, *)
(* and marks as spent exactly those that the chain spends, at that height. *)
NotesExact ==
  /\ {[nf |-> notes[n].nf, in |-> notes[n].height] : n \in SyncedNotes}
       = {[nf |-> c.nf, in |-> Height[c.in]] : c \in ChainNotes(Synced)}
  /\ \A n \in SyncedNotes :
       /\ OutOf(n) = notes[n].nf[1] /\ AccountOf(n) = Owner[OutOf(n)]
       /\ n[1] \in DOMAIN txs /\ txs[n[1]].txid = TxOf[OutOf(n)]
       /\ IF SpentBySync(n)
            THEN notes[n].spent \in SpentAt(notes[n].nf, Synced)
            ELSE SpentAt(notes[n].nf, Synced) = {}

(* Every unspent note of the synced chain has a witness at the checkpoint  *)
(* sync resumes from, for its real position and for the whole tree: the    *)
(* note can be spent, and the next batch can carry its witness on.  (A     *)
(* note that an interrupted batch has marked spent is not unspent.)        *)
WitnessesExact ==
  \A n \in SyncedNotes \cap Unspent(notes) :
    /\ <<n, SyncedHeight>> \in DOMAIN wits
    /\ wits[<<n, SyncedHeight>>] =
         [pos |-> Position(OutOf(n), Synced), leaves |-> Leaves[Synced]]

(* All witnesses of one height have the same root, the one of the block at *)
(* that height: the notes of one payment are spent against one anchor.     *)
AnchorsAgree ==
  \A k \in DOMAIN wits : k[2] \in DOMAIN blocks /\ wits[k].leaves = blocks[k[2]].tree

(* The value of a transaction of an account is what it receives less what  *)
(* it spends of the account's notes.                                       *)
TxNet(t, a, b) ==
  MapThenSumSet(LAMBDA c : Value[c.nf[1]],
    {c \in ChainNotes(b) : TxOf[c.nf[1]] = t /\ Owner[c.nf[1]] = a})
  - MapThenSumSet(LAMBDA c : Value[c.nf[1]],
    {c \in ChainNotes(b) : Owner[c.nf[1]] = a
       /\ \E d \in Anc[b] : [tx |-> t, nf |-> c.nf] \in SpendsIn(d)})

ValuesExact ==
  \A k \in DOMAIN txs : k[1] <= SyncedHeight =>
    txs[k].value = TxNet(txs[k].txid, k[3], Synced)

(* Between batches, the nullifiers the processor looks for are those of    *)
(* all unspent notes in the database, although it read them only once.     *)
NullifiersFresh ==
  ppc = "recv" => nfs = Nullifiers

(* One step never takes the wallet from a chain to another one that does   *)
(* not extend it: the blocks of a fork are never laid over a stale tree.   *)
NeverCrossFork == [][(Synced \in Anc[Synced'])]_vars

(* A call that was not cancelled and returns Ok has stored every block it  *)
(* downloaded, up to the height it set out to reach.                       *)
WarpReturns == pass # 0 /\ pass' = 0
OkMeansSynced ==
  [][WarpReturns /\ result' = "ok" /\ ~cancel =>
       /\ SyncedHeight >= dend'
       /\ dprev # NoHash => Synced = dprev]_vars

(* Purging removes no witness a payment would use with an anchor at or     *)
(* above the purge height, and leaves a checkpoint to resume from.         *)
WitnessesAt(anchor) ==
  LET hs == {k[2] : k \in {w \in DOMAIN wits : w[2] <= anchor}}
  IN {k \in DOMAIN wits : hs # {} /\ k[2] = Max(hs)}
PurgeKeepsAnchors ==
  [][ppc = "finish" =>
       /\ \A anchor \in {h \in {Height[b] : b \in Block} : h >= dend - PurgeDepth} :
            WitnessesAt(anchor) = WitnessesAt(anchor)'
       /\ SyncedHeight' = SyncedHeight]_vars

(* A call ends, whatever the server does and wherever a task fails.        *)
WarpTerminates == pass # 0 ~> pass = 0

(* Warp sync gives the results of the normal sync, which applies the       *)
(* blocks in chain order.                                                  *)
Normal == INSTANCE NormalSync WITH
  at <- Synced,
  received <- {notes[n].nf : n \in SyncedNotes},
  spent <- {notes[n].nf : n \in {m \in SyncedNotes : SpentBySync(m)}}
NormalSync == Normal!Spec
=============================================================================
