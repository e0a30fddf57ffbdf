---------------------------- MODULE WalletRewind ----------------------------
(***************************************************************************)
(* rewind_to_height and skip_to_last_height (api/sync.rs) between the      *)
(* syncs of WarpSync.  Both end with fetch_and_store_tree_state, which     *)
(* makes two requests, one for the block and one for the tree, and stores  *)
(* the block row that the next sync starts from.  The block of that row is *)
(* not scanned again: its notes and its spends are missing afterwards.     *)
(***************************************************************************)
EXTENDS WarpSync

VARIABLES
  rpc,      \* "idle", "block" or "tree": the request under way
  rheight,  \* height
  rblock,   \* the answer to get_block
  scanned,  \* history: the blocks whose rows the database has
  laid,     \* history: the heights of the block rows laid without witnesses
  past,     \* history: the last call went back to a completely scanned block
  mixed     \* history: a block row was laid over rows that are not its own, or
            \* a batch was written below the rows of later blocks

rpcVars == <<rpc, rheight, rblock>>
history == <<scanned, laid, past, mixed>>
rvars == <<vars, rpcVars, history>>

(* The blocks of B are on one chain below height h. *)
OneChain(B, h) ==
  \A a, b \in B : \A x \in Anc[a], y \in Anc[b] :
    Height[x] = Height[y] /\ Height[x] < h => x = y

(* The heights above the activation height that a rewind or a skip has     *)
(* left out.                                                               *)
Gaps == ((Height[Genesis] + 1)..SyncedHeight) \ {Height[b] : b \in scanned}

RInit ==
  /\ Init
  /\ rpc = "idle" /\ rheight = 0 /\ rblock = Genesis
  /\ scanned = {} /\ laid = {} /\ past = FALSE /\ mixed = FALSE

-----------------------------------------------------------------------------
(* DbAdapter::trim_to_height, one database transaction *)

RowsBelow(table, h) == Restrict(table, {k \in DOMAIN table : table[k].height < h})
UnspendNothing(table, h) == table
Unspend(table, h) ==
  [n \in DOMAIN table |->
     IF table[n].spent # Null /\ table[n].spent >= h
       THEN [table[n] EXCEPT !.spent = Null] ELSE table[n]]

TrimToHeight(h) ==
  /\ blocks' = Restrict(blocks, {g \in DOMAIN blocks : g < h})
  /\ wits' = Restrict(wits, {k \in DOMAIN wits : k[2] < h})
  /\ notes' = Unspend(RowsBelow(notes, h), h)
  /\ txs' = Restrict(txs, {k \in DOMAIN txs : k[1] < h})

(* The block at a height of the best chain; none above its tip. *)
BlockAt(h) == {b \in Anc[tip] : Height[b] = h}

(* MaxFaults bounds the failures, those of a rewind above the tip too.     *)
(* Where two chains have left rows below h, a row of one may have kept one *)
(* of the other out, and the rows of neither are what is left after it.    *)
Rewind(h) ==
  /\ pass = 0 /\ rpc = "idle"
  /\ BlockAt(h) # {} \/ faults < MaxFaults
  /\ TrimToHeight(h)
  /\ rpc' = "block" /\ rheight' = h
  /\ scanned' = IF OneChain(scanned, h) THEN {b \in scanned : Height[b] < h} ELSE scanned
  /\ laid' = {g \in laid : g <= SyncedHeight'}
  /\ past' = (h <= SyncedHeight /\ Gaps = {})
  /\ UNCHANGED <<tip, callVars, dlVars, chan, prVars, rblock, mixed>>

Skip ==
  /\ pass = 0 /\ rpc = "idle"
  /\ rpc' = "block" /\ rheight' = Height[tip]
  /\ past' = FALSE
  /\ UNCHANGED <<vars, rblock, scanned, laid, mixed>>

FetchBlock ==
  /\ rpc = "block"
  /\ rblock' \in BlockAt(rheight)
  /\ rpc' = "tree"
  /\ UNCHANGED <<vars, rheight, history>>

(* The tree state after the block *)
TreeStateBefore(b) == Leaves[Parent[b]]
TreeState(b) == Leaves[b]

StoreTreeState ==
  /\ rpc = "tree"
  /\ \E b \in BlockAt(rheight) :
       /\ blocks' = Insert(blocks, rheight, [hash |-> rblock, tree |-> TreeState(b)])
       /\ mixed' = (mixed \/ b # rblock \/ ~(scanned \cup {Synced} \subseteq Anc[b]))
  /\ laid' = IF rheight \in DOMAIN blocks THEN laid ELSE laid \cup {rheight}
  /\ rpc' = "idle"
  /\ UNCHANGED <<tip, notes, txs, wits, callVars, dlVars, chan, prVars,
                 rheight, rblock, scanned, past>>

(* A request fails, the chain is shorter, or the process dies. *)
RequestFails ==
  /\ rpc # "idle"
  /\ \E kind \in {"network", "crash"} : Fault(kind)
  /\ rpc' = "idle"
  /\ UNCHANGED <<tip, dbVars, pass, result, cancel, dlVars, chan, prVars,
                 rheight, rblock, history>>

-----------------------------------------------------------------------------
(* The steps of the sync with the history they make.  Commit writes the    *)
(* rows of the batch, perhaps below those of later blocks, which are not   *)
(* scanned for the spends of its notes again; Store writes its block row,  *)
(* under which the rows of a failed rewind or of an interrupted batch may  *)
(* be.                                                                     *)

BatchBlocks == {batch.blocks[i] : i \in 1..Len(batch.blocks)}
Scanned ==
  LET written == ppc = "scan" /\ ppc' \in {"details", "store"}
      stored == ppc = "store" /\ ppc' = "recv"
      others == scanned \ BatchBlocks
  IN
  /\ scanned' = IF written THEN scanned \cup BatchBlocks ELSE scanned
  /\ mixed' = \/ mixed
              \/ written /\ \E b \in others, c \in BatchBlocks \ scanned : c \in Anc[b]
              \/ stored /\ \E b \in others : Height[b] > SyncedHeight
  /\ UNCHANGED <<laid, past>>

Sync == (rpc = "idle" /\ Call) \/ Downloader \/ Processor

RNext ==
  \/ Server /\ UNCHANGED <<rpcVars, history>>
  \/ Sync /\ Scanned /\ UNCHANGED rpcVars
  \/ \E b \in Block : Rewind(Height[b])
  \/ Skip \/ FetchBlock \/ StoreTreeState \/ RequestFails

RSpec == RInit /\ [][RNext]_rvars

-----------------------------------------------------------------------------
(* Properties *)

(* A rewind to the fork or below it recovers from a reorganization, and    *)
(* from an interrupted batch.  Whatever sequence of syncs, rewinds and     *)
(* skips led here, failed ones too, as long as no block row was laid over  *)
(* rows it does not belong to, and no batch was written below the rows of  *)
(* later blocks: the checkpoints are exact, and the wallet holds only      *)
(* notes of the synced chain, and every note and every spend of it but     *)
(* those of the heights that a rewind or a skip has left out.              *)
NotesExactOutsideGaps ==
  LET held == {[nf |-> notes[n].nf, in |-> notes[n].height] : n \in SyncedNotes}
      onChain == {[nf |-> c.nf, in |-> Height[c.in]] : c \in ChainNotes(Synced)}
  IN
  /\ held \subseteq onChain
  /\ {c \in onChain : c.in \notin Gaps} \subseteq held
  /\ \A n \in SyncedNotes :
       IF SpentBySync(n)
         THEN notes[n].spent \in SpentAt(notes[n].nf, Synced)
         ELSE SpentAt(notes[n].nf, Synced) \subseteq Gaps
RewindRecovers == ~mixed => CheckpointsExact /\ NotesExactOutsideGaps

(* Under the same condition a note received above the last height that was *)
(* left out, or whose block row was laid without witnesses, has its        *)
(* witness, and can be spent.                                              *)
WitnessesAfterGaps ==
  \A n \in SyncedNotes \cap Unspent(notes) :
    (~mixed /\ \A g \in Gaps \cup laid : notes[n].height > g) =>
      /\ <<n, SyncedHeight>> \in DOMAIN wits
      /\ wits[<<n, SyncedHeight>>] =
           [pos |-> Position(OutOf(n), Synced), leaves |-> Leaves[Synced]]

(* DbAdapter::get_balance *)
Balance(a) ==
  MapThenSumSet(LAMBDA n : Value[OutOf(n)], {n \in Unspent(notes) : AccountOf(n) = a})
ChainBalance(a, b) ==
  MapThenSumSet(LAMBDA c : Value[c.nf[1]],
    {c \in ChainNotes(b) : Owner[c.nf[1]] = a /\ SpentAt(c.nf, b) = {}})

(* After a rewind of a completely scanned wallet to a height it has synced *)
(* the balance is the balance at that block, as test-scripts/test.js says. *)
BalanceAfterRewind ==
  [][rpc = "tree" /\ blocks' # blocks /\ past =>
       \A a \in Account : Balance(a)' = ChainBalance(a, rblock)]_rvars

(* After such a rewind and a sync to the tip the unspent notes have their  *)
(* witnesses: test-scripts/test.js syncs "to compute note witnesses".      *)
WitnessesAfterSync ==
  pass = 0 /\ rpc = "idle" /\ result = "ok" /\ past /\ Synced = tip
      /\ SyncedHeight > rheight =>
    \A n \in Unspent(notes) : <<n, SyncedHeight>> \in DOMAIN wits
=============================================================================
