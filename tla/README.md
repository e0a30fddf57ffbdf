# Formal models of zcash-sync

zcash-sync is the synchronization engine of a light wallet for Zcash and Ycash:
it downloads compact blocks from a lightwalletd server, finds the notes of its
accounts by trial decryption, maintains the Merkle witnesses that are needed to
spend them, keeps everything in a SQLite database, and builds payments.  This
directory holds TLA+ specifications of its core, the TLC configurations that
check them on small instances, and proofs, checked by TLAPS, that hold for every
instance.  All definitions are translated from the Rust source under `src/src`
(file names below are relative to it); `PROJECT.json` gives the lines each
definition stands for.

Contents: 1 the system, 2 the modules, 3 what is modelled and how, 4 the runs,
5 the bounds, 6 fairness, 7 the proofs, 8 what the code does not do as its
documents say, 9 what is not modelled, 10 the plan.

## 1. The system

### Parts, state and operations

| part | state | operations |
|---|---|---|
| synchronization (`api/sync.rs`, `scan.rs`, `chain.rs`) | two tasks, a channel of one batch, the map of unspent nullifiers, the flag `SYNC_CANCELED` | `coin_sync`, `sync_async`, `download_chain`, `DecryptNode` |
| database (`db.rs`, `db/migration.rs`) | `blocks`, `transactions`, `received_notes`, `sapling_witnesses`; also accounts, taddrs, contacts, messages, shares, prices | one method for each statement or transaction |
| tree builder (`builder.rs`, `commitment.rs`, `hash.rs`) | the commitment tree and the witnesses, while a batch is merged into them | `BlockProcessor::add_nodes`, `finalize` |
| rewind and skip (`api/sync.rs`) | - | `rewind_to_height`, `skip_to_last_height` |
| payments (`api/payment.rs`, `pay.rs`) | a call in progress | select notes, sign, broadcast, mark |
| transaction details (`transaction.rs`, `contact.rs`) | requests in flight, a blocking channel, a writer task | `retrieve_tx_info` |
| memory pool (`mempool.rs`, `api/mempool.rs`) | transactions seen, nullifiers of the account, unconfirmed balance | `scan`, `clear`, `update` |
| configuration (`coinconfig.rs`) | active coin, active account, height, server | `set_active`, `set_active_account`, `get_active` |
| accounts, keys (`api/account.rs`, `key*.rs`, `zip32.rs`, `ua.rs`, `taddr.rs`) | accounts, taddrs, diversifiers | create, sub-accounts, delete, back up, restore |
| contacts, messages (`api/contact.rs`, `api/message.rs`) | contacts with a dirty flag, messages with a read flag | edit, commit in a transaction, read back by sync |
| schema (`db/migration.rs`, `coinconfig.rs`) | the version, tables and indexes of the two database files | `init_db`, `reset_db`, `init_coin` |
| fountain codes (`fountain.rs`) | one shared decoder | `split_data`, `merge_data` |
| prices (`prices.rs`, `api/historical_prices.rs`) | one quote for each day and currency | `sync_historical_prices` |
| block by date (`chain.rs`) | - | `get_block_by_time` |
| front ends (`api/dart_ffi.rs`, `nodejs.rs`, `main/`) | `SYNC_LOCK`, runtimes | C interface, RPC server, command lines |
| hardware ledger (`ledger/`) | the plan of the caller, the state of the device | `build_tx_ledger` |

### Interactions

- lightwalletd is the only other machine.  Its best chain grows and is
  reorganized at any time, between any two requests and during a stream.
- The downloader task and the processor task of a pass share the channel, and
  are joined with `try_join!`, which sees their errors only when both have ended
  but a panic at once.
- The processor ends each batch with two database transactions; between them it
  calls `retrieve_tx_info`, which starts a writer task with a connection to the
  database of its own.
- Payments, rewinds, skips and the memory pool use the same database as a sync,
  through other connections, and only `warp` takes `SYNC_LOCK`.
- The database outlives the process, which can be killed at any point.

### What is hard, and what should be true

| part | hard because | correct if |
|---|---|---|
| synchronization | reorganizations during a stream; two tasks that fail in any order; a batch that is written in two transactions; nullifiers updated by hand | the wallet holds exactly the notes, spends and witnesses of the chain it has synced; it never lays a fork over a stale tree; it returns; it agrees with a sync block by block |
| tree builder | batches cut anywhere; parity of every layer; witnesses that grow across calls | same tree and witnesses as appending leaves one at a time; no assertion fails; the loop ends |
| rewind and skip | two requests, a trim committed before them, gaps | after a rewind to the fork or below it the wallet is exact again |
| payments | notes read while sync writes; marks written while sync runs | inputs share one exact anchor; paid notes are not offered again; sync finds the spends of marked notes |
| transaction details | blocking calls in an asynchronous runtime; answers out of order | every answer is stored, contacts in chain order; the call returns |
| memory pool, configuration, session | copies of the configuration used after requests; three locks taken in different orders | the balance is that of one account; no caller waits for ever |
| contacts | edits while a commit is in flight; commits that are never mined or never read | what the wallet calls clean is on the chain |
| accounts | each statement is committed on its own, ids are given out again, a sync holds old keys | every row belongs to the account that has its id now; a backup comes back whole |
| schema | migrations and resets cut short between two statements | a file of the current version is complete |
| plans and signatures | the account may change between parsing, planning and signing, or the plan be signed elsewhere | every recipient is paid its amount; only the owner signs |
| hardware ledger | a second description of the transaction, cut into chunks, with counts of one byte | what is signed is what was shown |
| fountain codes | drops in any order, repeated, of several payloads in turn | payloads never mix |
| prices | one day too many fails the insert of all | every reply can be stored |
| block by date | a binary search in unsigned arithmetic that stops early | at most one search width from the date |

`PROJECT.json` lists each hazard with its line, and the property that covers it
or the reason why none does.

## 2. The modules

    Ledger                      the chain and its forks, as the server shows them
      NormalSync                abstract: apply the blocks in chain order
      WarpSync                  the sync pipeline and the database
        WarpSyncProofs          proofs: types, checkpoints, chunks, anchors, forks, results, purge
          WarpSyncNotes         proofs: notes, witnesses, nullifiers, the refinement
            WarpSyncValues      proofs: the values of the transactions
        WalletRewind            composes WarpSync with rewinds and skips
          WalletRewindProofs    proofs: what a rewind recovers
        Payment                 composes WarpSync with concurrent payments
          PaymentProofs         proofs: marks survive a sync, offers are exact
    CommitmentTree              tree, witnesses and their closed form
      TreeBuilder               the layer-by-layer merge of batches
    TxDetails                   the requests, the channel and the writer
    Mempool                     the memory pool, the active account, the sync session
    Accounts                    accounts and their rows, statement by statement
    Contacts                    the address book and its backup on the chain
    Schema                      migrations and resets of both databases
    TxPlan                      a plan from the recipients to the signature
    HardwareSigner              a transaction shown and signed by a device
    Fountain                    the shared decoder of QR drops
    Prices                      daily quotes
    BlockSearch                 the block of a date
    Sums                        proofs: what the sums over sets and sequences compute
      ServiceProofs             proofs: contacts, memory pool, plans, search, schema,
                                prices, accounts
    DeviceProofs                proofs: transaction details, hardware signer, fountain codes

`MCWarpSync`, `MCWalletRewind`, `MCPayment`, `MCTreeBuilder` and `MCTxDetails`
give the constants their values.  `MCServices` does so for the last nine, which
have no state in common: a variable `scene` chooses one of them in the first
state, and the others rest.  `WarpSync` represents a tree and a witness by
the leaves they stand for; `TreeBuilder` is what justifies that.  `WarpSync`
has one step for the transaction details that succeeds, fails or panics;
`TxDetails` is that step in detail.  `WarpSync` is shown to implement
`NormalSync` by a refinement mapping (`Normal`).

## 3. What is modelled, and how

### Ledger and NormalSync

A block is its parent, its height, the outputs in tree order and the nullifiers
its transactions reveal.  A nullifier is the pair of a note and its position in
the tree, since the real one depends on both: on a fork the same note has
another nullifier.  `Owner` is the result of trial decryption.  `NormalSync` is
the promise: at every moment the wallet is at some block, with the notes and the
spends of that block's chain, and it moves along the chain only.

### WarpSync

| code | model |
|---|---|
| `warp`, `coin_sync` | `WarpStart`, `pass` (1: with the anchor offset, 2: to the tip), `Return` |
| head and tail of `sync_async` | `BeginPass`, `ConnectFail`, `Join`, `JoinPanic` |
| `download_chain` | `TakeBlock`, `DetectReorg`, `StreamEnd`, `StreamShort`, `StreamError`, `Send`, `SendPanic`, `SendLast` |
| the processor task | `OpenDb`, `Recv`, `RecvClosed`, `LoadTree`, the scan of each block (`ScanSpend`, `ScanNote`, `SkipOutput`, `ScanDebit`, `SkipSpend`, `EndBlock`, `ScanFail`), `Commit`, `DetailsOk`, `DetailsFail`, `Store`, `Finish` |
| the server, the application, the machine | `MineBlock`, `Reorg`, `CancelWarp`, `Crash` |

Conventions:
- Tables are functions from the UNIQUE key of the table, not from the row number:
  two rows cannot share it, and the code never shows the number to a user.  A
  lookup by other columns without ORDER BY returns any matching row.
- `INSERT ... ON CONFLICT DO NOTHING` is `Insert`, a `HashMap::insert` is `Put`.
- The scan of a batch works on the copy in `scan` and becomes visible with
  `Commit`; SQLite allows one writer at a time.
- A panic in a task is returned as a `JoinError`; `warp` resumes it through an
  `extern "C"` function, which aborts the process (`JoinPanic`).
- The block stream answers each block with the best chain of the moment; since
  the server may be reorganized at any step this includes any prefetching.
- The two deletions of a purge are one action: nothing reads between them.

### CommitmentTree and TreeBuilder

One action is one layer of the loop of `advance_tree`.  The hash is an
uninterpreted constant; the instance names the root of a complete subtree by
depth and index and keeps any other combination distinct, so two hashes are
equal only if they hash the same nodes at the same depth.  The closed form of a
tree and of a witness (`TreeOf`, `WitnessOf`) is the result of appending the
leaves one at a time with librustzcash.  The cursor of a witness is computed in
the code by reversing 32 bits and shifting; the model takes the highest bit that
differs, which is what this computes.

### WalletRewind

`Rewind` trims the tables in one transaction, `Skip` does not; both then make the
requests for the block (`FetchBlock`) and for the tree (`StoreTreeState`), which
may answer from two different chains.  A request may fail (`RequestFails`), after
the trim has been committed.  Four history variables record what the database
cannot show: the blocks whose rows it has (`scanned`), the heights whose block row a
rewind or a skip has laid, without witnesses (`laid`), whether the last call went
back to a completely scanned block (`past`), and whether rows have come together that
are not of one chain (`mixed`): a block row laid over rows that are not its own, or a
batch written below the rows of later blocks.  A rewind to a height above a fork that
the rows already have leaves rows of both branches: where one has kept a row of the
other out, trimming does not bring it back, and `scanned` keeps both (`OneChain`).
Rewinds and skips happen between syncs.

### Payment

A payment reads the spendable notes (`Prepare`, any random selection that meets
the amount), signs, is accepted or not by the network (`Broadcast`,
`BroadcastFail`), and then marks its notes (`MarkSpent`) or does not
(`LoseReply`: lost reply, crash, or database locked for longer than SQLite's busy
timeout).  Every step interleaves with every step of a sync.  `MarkSpent` waits
while the processor scans, as it holds the write lock of the database.  The spends
of the ledger stand for the payments once mined; a payment whose notes no block
spends is one that expires.  `raced` records the notes whose mark has replaced
the height of a spend that sync had already found.

### TxDetails

The requests of `for_each_concurrent` are polled by one task (`Send`,
`SkipFailed`, `Yield`, `Resume`); the writer is a second task.  `send` and
`recv` are blocking calls of the standard library: a task blocked in one of them
keeps its worker thread, and the connection needs a worker to deliver an answer.
tokio puts a spawned task into the slot of the worker that spawned it, from where
no other worker takes it, so the writer starts when that task first yields.  When the
channel is closed, the writer sorts what it has received (`SortContacts`) and stores the
contacts one transaction after the other (`StoreContacts`); a row that fails ends it, and
those before it stay (`StoreContactsFail`).

### Mempool

Each caller is a thread of the application in `mempool_sync`, `mempool_reset`,
`set_active_account` or `warp`; an action is what it does between two points where
another thread can get in.

| code | model |
|---|---|
| `mempool::scan`: copy of the configuration, height, lock, update | `Snapshot`, `GetLatestHeight` or `ScanFails`, `LockPool`, `Update` |
| `MemPool::clear`, called with the pool locked | `Cleared` in `LockPool`, `ClearPool` |
| `set_active_account`, `mempool_reset` | `SetActiveAccount`, `MempoolReset`, each followed by `ClearPool` |
| `warp`: permit, sync, scan, end of the async block, flag | `Acquire`, `Sync`, the scan, `Finish`, `ClearCanceled`; `CancelWarp` |
| lightwalletd | `SubmitTx`, `EvictTx`, `MineTxs`, `Reply` with its exclusion filter |

`Sync` is the whole of `coin_sync` (`WarpSync` in detail): the database then knows
the mined transactions, or still does not.  A reply may be any part of what the
server should send, since the stream may break.

### Accounts

A call lays out its SQL statements in `job`, and each `Exec...` action runs one,
because the code opens no transaction around them.  `StatementFails` and `Crash`
drop what is left.  The database lock is held from the first statement of a call
to the last, but a sync has a connection of its own: `LoadKeys`, `Receive` and
`SyncEnds` are what it does to these tables.  Keys are derived by an injective
function; a viewing key is its phrase and its index.  SQLite gives a new row the
largest id plus one, so that the id of a deleted last account is used again
(`NewId`).  Rows of other tables are `<<table, id, key that received it>>`.

### Contacts

A commit takes the dirty contacts and changes nothing in the database
(`CommitUnsavedContacts`); the network mines it or lets it expire; sync reads mined
commits in chain order (`ReadBack`), or fails to (`ReadFails`), and a rewind or
another device makes it read them again.  Chunk numbers wrap at `ChunkIndexes`, the
256 values of a byte in the code; a decoder that lacks a chunk returns nothing.

### Schema

`todo` holds the statements left of the running call.  `init_wallet` and `reset_app`
lay out one step for each coin; the statements of a coin take its place when its turn
comes (`BeginInit`, which reads the version then, and `BeginReset`).  `StatementError`
ends the opening of one coin, or the whole reset; a reset of a coin that is not open
ends the process.  The files start as any released
version has left them.

### TxPlan and HardwareSigner

`TxPlan` follows a plan through `parse_recipients`, `prepare_multi_payment` and
`sign`, with `SwitchAccount` between any two of them, and through a file that is
signed later (`SignOnly`).  Broadcast and marks are in `Payment`.  A note or utxo is
its name, and several recipients of a request may have one address; that a utxo pays to the transparent key and that the change is not
negative is refused by the builder of the library, and is part of `Signable`.

`HardwareSigner` has an action for each exchange of `build_tx_ledger` with the
device: `SendChunk`, `AskSpend`, `AskOutput`, `SendHashData`, `AskSignature`, and
`Assemble` or `BindingFails` at the end.  The device is external: it keeps
the order of the commands and the counts of the description, and the user refuses
or approves the last chunk.  A proof is the value it shows, a hash the sequence it
covers.

### Fountain, Prices, BlockSearch

`PutDrop` is one call of `merge_data`: the decoder of the library gives back a
payload from enough different drops of it, and anything from a mixture.
`SyncHistoricalPrices` is one call, as it holds the database lock throughout; the
service answers with any prices in the window, oldest first.  `BlockSearch` has one
action for each request of `get_block_by_time`, against a chain that does not
change while the search runs.

## 4. The runs

| run | module | what it shows | distinct states |
|---|---|---|---|
| `WarpReorg` | MCWarpSync | reorganizations, lost connections and cancellations at every point: notes, witnesses and values are exact, the nullifier map stays fresh, Ok means synced, the refinement of `NormalSync`, every sync returns | 87k |
| `WarpCrash` | MCWarpSync | crashes, failures between the two transactions of a batch, and retries on one chain: types, notes and witnesses are exact, the purge keeps the anchors, every sync returns | 109k |
| `WarpTorn` | MCWarpSync | the same combined with reorganizations: checkpoints, chunks in flight and anchors are exact, no fork is crossed | 742k |
| `WarpReplay` | MCWarpSync | violation of `ValuesExact`, see section 8 | - |
| `WarpTornReorg` | MCWarpSync | violation of `NotesExact`, see section 8 | - |
| `TreeBatches` | MCTreeBuilder | every way to cut up to 36 leaves into batches, a note at each leaf: layers, tree and witnesses are exact, no assertion or index fails, the loop ends | 48k |
| `Rewind` | MCWalletRewind | any sequence of syncs, rewinds and skips with reorganizations and failures: notes and checkpoints are exact outside the gaps | 567k |
| `RewindBalance` | MCWalletRewind | violation of `BalanceAfterRewind`, see section 8 | - |
| `RewindWitnesses` | MCWalletRewind | violation of `WitnessesAfterSync`, see section 8 | - |
| `Payments` | MCPayment | two payments beside a sync that may crash: offers are exact, paid notes are not offered again, and their spends are found | 260k |
| `Details` | MCTxDetails | answers in any order, failures of requests and of the writer: every answer is stored, contacts in chain order, the call returns | 11k |
| `Services` | MCServices | nine scenes, one for each of the last modules of section 2: see the properties below | 425k |

The properties, in words:
- `NotesExact`: at the synced height the notes are those of the chain, with the
  nullifier of their real position, spent exactly where the chain spends them.
- `WitnessesExact`: each unspent note has a witness at the resume point, for its
  position and the whole tree.  `AnchorsAgree`: the witnesses of one height have
  one root.  `ValuesExact`: a transaction's value is received less spent.
- `CheckpointsExact`: each block row has the tree of its own block and the older
  rows are its ancestors.  `PipelineLinked`: batch, channel and chunks continue
  it without gap or overlap.  `NeverCrossFork`: no step goes to another fork.
- `NullifiersFresh`: between batches the map in memory is the one of the database.
- `OkMeansSynced`: a sync that returns Ok, not cancelled, has stored what it
  downloaded.  `WarpTerminates`: it returns.  `PurgeKeepsAnchors`: a purge removes
  no witness that a payment anchored at its height or above would use.
- `RowExact`, `TreeExact`, `NoteWitnessesExact`, `AssertionsHold`,
  `AdvanceReturns`: every layer, the tree and the witnesses are what appending the
  leaves one at a time gives; the asserts, indices and subtractions of
  `builder.rs` are safe; the loop ends.
- `RewindRecovers`, `WitnessesAfterGaps`: after a rewind to the fork or below it,
  and whatever else, the wallet holds only notes of its chain, and all of them but
  those at the heights a rewind or a skip has left out.
- `SpendableExact`: what a payment can choose from is all the account can spend
  against one block of the synced chain not above the anchor.  `PaidNotOffered`,
  `PaidNotesSettle`: marks are kept, and sync follows the marked notes.
- `DetailsStored`, `ContactsLatest`, `DetailsReturn`: see the table.
- `PoolExact`: when no change of account is half done, the unconfirmed balance is
  that of the active account for the transactions the pool knows, but for the two
  races of section 8 (`fresh`).  `CallsReturn`: every scan, reset, change of account
  and sync comes back, in every order of the permit, the pool and the configuration.
- `RowsAreOwned`: a row with an account id belongs to the account that has the id
  now, except where a delete was cut short or ran beside a sync (`torn`).
  `BackupRestored`: a restore that nothing cuts short leaves every account of the
  backup in the wallet, and those it has inserted with their transparent address.
- `CleanMeansOnChain`: a contact that is not dirty has a commit on the chain, the
  last one when all have been read.
- `VersionMeansComplete`: a file of the current version has all tables and indexes.
- `PlanExact`: a plan pays each address the whole amount of its recipients, each
  recipient at least one output, and nobody else; no output is above the maximum of
  its recipient; the inputs cover it all, and the last of them was needed.
  `SignedByOwner`: what is signed spends only what the signer owns and returns the
  change to it, whatever account was active when it was planned.
- `SignedIsShown`: spends, outputs and counts of a signed transaction are those the
  user has approved on the device.
- `MergeReturnsPayload`: a payload comes out as soon as enough different drops of
  it have come in a row, and nothing else ever does, for ids that are not 0 and not
  shared.
- `QuotesStored`: no reply of the price service fails to be inserted.

Each property of a passing run is also run against a mutant of a definition (a
dropped guard, a missing carry, a swapped order) that breaks it.

## 5. The bounds

- The ledger of `MCWarpSync` has a chain of four blocks above the activation
  block and a fork of two, with six outputs of two accounts and strangers: a
  note received and spent in the same batch and in different ones, a note with
  another position on the fork, two notes spent by one transaction, a block
  without outputs, several transactions in a block.  Heights and reorganizations
  are bounded by this ledger.
- `MaxOutputs` is 2 or 3 (200000 in the code): batches of one block and of several,
  some of them full.  `PurgeDepth` is 1 or 2 (100 in the
  code) so that a purge removes something; `AnchorOffset` 1 so that the first
  pass ends below the tip.
- `MaxFaults` is 1 or 2 failures: one to tear a batch, one more while it is
  repaired.  Reorganizations and cancellations are not counted.
- `WarpReorg` leaves crashes out and `WarpCrash` reorganizations, because both
  together break `NotesExact` (section 8); `WarpTorn` combines them for the
  properties that survive it.
- `TreeBatches` has trees of depth 6 and up to 36 leaves: the tree grows through
  five powers of two, by batches of every size, odd and even at every layer.
  `TreeOf` and `WitnessOf` have no such bound.
- `Rewind` cuts off the states after `mixed`: it never becomes false again, and
  the invariants say nothing there.
- `Payments` has two payments of one account with two amounts (one note is
  enough, or two are needed), and one crash.
- `Details` has four requests, a channel of two (4 in the code) so that it fills,
  and two workers; the code's runtimes have one worker for each core.

- `Services`: two callers, two accounts and two transactions of the memory pool, the
  second spending the change of the first, with hashes that share their first byte
  so that the filter must grow; three calls, so that a change of account can come
  between the halves of a scan; one block mined in between.  Accounts: one phrase with two
  indices, two rows, four calls, enough to delete a row, give its id out again and take a
  backup of what is left, or to restore one over the same wallet or on a new device;
  longer rows of calls (creation, torn delete, creation, backup, restore) are in the
  proofs.  Contacts: three, of two versions, with four edits, two
  commits and two chunk numbers, so that a commit can overflow them.  Schema: both
  coins from each released version and three calls.  Plans: requests of none, one
  and two recipients, two of one address, an amount of 0, maxima that divide the amount and do not.
  Device: chunks of two items, counts modulo 4, plans at and past both; three calls, so
  that one follows a failure.  Drops: four payloads, one with the id 0 and
  two that share an id, four puts.  Prices: four days of two ticks.  The search: a
  chain of ten blocks with gaps and equal dates; here the run only executes it, the
  proofs hold for every chain.

## 6. Fairness

`FairSpec` of `WarpSync` has weak fairness of the downloader, of the processor,
of `BeginPass` and of the join: the tokio runtime polls every task that can run.
Nothing obliges the application to start a sync, the server to grow, or a fault
to happen.  That a stream ends or fails is part of the downloader: lightwalletd
answers or the connection breaks; the client sets no timeout of its own.
`TxDetails` has weak fairness of both tasks and of each request, for the same
reasons.  `MempoolFairness` is weak fairness of the next step of each caller: the
threads of the application go on, a mutex or a permit that is free is given to
somebody who waits for it, and a request is answered or fails.  Calls are bounded,
so no caller can be passed over for ever.  The other modules check safety only,
`AdvanceReturns` by a bound on the number of layers.

## 7. The proofs

Every theorem holds for every value of the constants that satisfies the assumptions
of its module, for any number of steps, and with every kind of fault that the
specification has, unless the theorem has a hypothesis.

### Assumptions

- `LedgerTypes`, `LedgerTree` (a block appends its outputs to its parent's tree) and
  `LedgerAncestry` (parents form a tree graded by height, the ancestors of a block
  are in a line) say what a block chain is.  `LedgerLeaves`: an ancestor's tree is
  a prefix of a descendant's, and an output is created once on a chain.
  `LedgerSpends` are the consensus rules: a spend proves its note against the tree
  of an earlier block, and a chain reveals a nullifier once.  A spend may be of a
  dummy, whose nullifier is that of no note.  `LedgerTransactions`: a block reveals a
  nullifier once, and a transaction is in one block of a chain.  The line of ancestors
  and the prefix of the leaves are consequences of `LedgerTree`, assumed here and not
  derived.  TLC evaluates all of these on the ledger of every run.
- `WarpSyncConstants`: bounds and depths are natural numbers.
- `PlanAssumption`: the fee is positive (so that even the empty request of
  `shield_taddr` selects something), amounts, maxima and values are natural numbers,
  a request is a sequence, an account has finitely many notes and utxos, and no utxo
  belongs to two accounts.
- `PoolNotes`: a transaction spends and creates finitely many notes, of amounts that
  are not negative.
- `SearchAssumption`: the dates of the chain are ordered, and the search stops below
  a distance of at least two.
- `AccountsAssumption`: `MaxAccountId` is a natural number.  `SchemaAssumption`: there
  is a natural number of coins.  `PricesAssumption`: a day has a length, and a caller
  asks for a natural number of days.  `FountainAssumption`: the number of drops that a
  payload needs is natural.  `HwAssumption`: chunks are not empty, a count is taken
  modulo a positive number, and a plan has a sequence of amounts to spend and one of
  outputs.  `Contacts` has no assumption; those of `TxDetails` (`TxDetailsConstants`)
  and `Payment` (`PaymentConstants`) are the types of their constants.

Two hypotheses say which faults may come together.  `Untorn`: no batch is torn
(neither the end of the process nor an error of the details comes between the two
transactions of a batch).  `Mendable`: `Untorn`, or no reorganization.  They are not
there for convenience: `WarpTornReorg` violates `NotesExact` as soon as both kinds of
fault come together, so that the theorem and the violation share the border.
`NullifiersFresh` needs `Untorn`, because the scan that repeats a torn batch learns
again a nullifier that the torn one had already seen spent; so does `ValuesExact`,
because it adds the same amounts again (`WarpReplay`).

### Checkpoints and chunks

| theorem | module | statement |
|---|---|---|
| `TypeCorrect` | WarpSyncProofs | `Spec => []TypeOK` |
| `CheckpointsAreExact` | WarpSyncProofs | `Spec => []CheckpointsExact` |
| `ChunksAreLinked` | WarpSyncProofs | `Spec => []PipelineLinked` |
| `WitnessesShareAnchors` | WarpSyncProofs | `Spec => []AnchorsAgree` |
| `ForksAreNeverCrossed` | WarpSyncProofs | `Spec => NeverCrossFork` |
| `OkIsSynced` | WarpSyncProofs | `Spec => OkMeansSynced` |
| `PurgeIsSafe` | WarpSyncProofs | `Spec => PurgeKeepsAnchors` |

Type correctness already needs an invariant, `TInv`.  What a lookup returns has
its type only if the lookup finds something: the resume point is a MAX over the
blocks table, so the table must have one (`HasLast`); the block row of a batch is
that of its last block, so a batch must not be empty (`BatchShape`, the reason
for the `continue` on an empty chunk); the purge takes the MAX of the witness
heights below a bound (`Bounded`).

The next four theorems share the invariant `IInv`.  `CheckpointsExact` is not
inductive: a row is made of the batch and of the tree that the processor has
loaded.  So `PipelineLinked` says that the batch continues the last checkpoint
and that the tree is the checkpoint's; the batch comes from the channel and this
from the downloader, so it says the same of the chunks on their way, and that
the block the downloader compares the next one with (`prev_hash`) is the last of
them.  `Flight` says what is on its way at each point of the downloader, and
`LoadedTogether` that the witnesses of a batch were loaded with its tree, which
is what `AnchorsAgree` needs.  The argument is: a streamed block enters a chunk
only if it links to the end of the pipeline (`TakeBlock`, the comparison in
`download_chain`); each hand-over keeps the concatenation; `Store` moves the
checkpoint to the end of the batch; a crash, a panic or an error only drops what
is in flight.  Reorganizations change `tip` alone, which the invariant does not
mention: that is why the link check is enough.  `NeverCrossFork` follows, since
the only steps that change the synced block are `Store`, which extends it, and
the purge, which keeps it.

`OkMeansSynced` is about one step, the return, but what it needs is spread over three
parties, and `RInv` puts it together: the downloader ends well only past the end of
the range or cancelled (`Reached`); its cursor, which `PipelineLinked` keeps until it
has failed, is the end of what is in flight; and when the channel is closed and empty
nothing is, so that the cursor is the synced block (`Settled`), which the purge does
not change.  `PurgeIsSafe` follows from `IInv`: the purge bound is itself a height with
witnesses, so that the highest one up to an anchor above it is kept.

### Notes, witnesses and the refinement

| theorem | module | statement |
|---|---|---|
| `NotesInvariance` | WarpSyncNotes | `Mendable => (Spec => []NInv({}))` |
| `NotesAreExact` | WarpSyncNotes | `Mendable => (Spec => []NotesExact)` |
| `WitnessesAreExact` | WarpSyncNotes | `Mendable => (Spec => []WitnessesExact)` |
| `NullifiersAreFresh` | WarpSyncNotes | `Untorn => (Spec => []NullifiersFresh)` |
| `WarpImplementsNormalSync` | WarpSyncNotes | `Mendable => (Spec => NormalSync)` |

The three properties are about a wallet between two batches; a batch writes tables one
output and one spend at a time.  The invariant `NInv(R)` says at each point of it what
has been written.  `R` are notes whose spend is not known by height; it is empty here,
and the theorems on payments use it.

- `DbNotes`: each row of the notes says of its note what the chain up to the last
  write does with it, and every note of the synced chain has its row (`Sound`,
  `CompleteTo`).  When the rows of a batch are committed and its block row is not,
  the rows reach further than the checkpoint (`Written`).
- `Watching`: the nullifiers of the processor contain those of all unspent notes, and
  each belongs to its note (`Watches`).  Without torn batches they are no more than
  that (`Live`), which is `NullifiersFresh`.
- `Scan`: inside a batch, the copy of the tables holds the leaves passed so far
  (`Passed`), the spends read so far (`Seen`), and a witness for each unspent note
  among them.
- `DbWitnesses`: each checkpoint has a witness for each note that its chain has not
  spent, for the position that the nullifier was computed from.
- `OnTip`: without reorganizations everything is on the server's chain, which is why a
  torn batch is then repaired: the batch that is read again is on the chain of
  the one that was torn.

A spend is marked only if its nullifier is watched when the scan reads it.  Its note is
older, by `LedgerSpends`, so that it was learned before: in an earlier batch, and
`Watches` has it, or earlier in this one, and `ScanNote` has added it.

For the refinement, each step of the pipeline is mapped on its own: `Store` applies the
path from the old checkpoint to the new one, and by `NInv` before and after it the rows
of that path are what `NormalSync` would have added; the purge in `Finish` keeps the
checkpoint that counts; every other step leaves the rows of the synced chain as they
are, although it may write rows beyond them.

### Values

| theorem | module | statement |
|---|---|---|
| `ValuesInvariance` | WarpSyncValues | `Untorn => (Spec => []VInv)` |
| `ValuesAreExact` | WarpSyncValues | `Untorn => (Spec => []ValuesExact)` |

The value of a transaction is a column that the scan adds to, output by output and spend
by spend, and that nothing ever computes again.  `VInv` says what it has added so far:
`Net(b, t, a, f, D)` is the sum of the leaves of account `a` that transaction `t` has
created, among the first `f` of the chain of `b`, less that of its leaves that `t`
reveals in the spends `D`.  In a wallet between two batches `f` and `D` are those of the
whole chain (`DbValues`); during a batch, of its own copy of the table, `f` is `Passed`,
and `D` is `Debited`, the spends that the second pass over a block has come past
(`ScanValues`).  A transaction without a row has neither received nor spent anything.

A batch reads the spends of a block twice, and debits them in the second pass, when the
outputs are in.  So the invariant also says that the first pass has set aside all spends
of our own notes (`MineHere`), and that a mark on a note of the copy is of a spend that
the first pass has read (`MarksSeen`).  The rest is the work of `NInv`: the spend is of a
row that exists and is genuine, so that the amount it debits is that of the leaf.  A step
adds one leaf or one spend to a sum (`SumAdd` and `SumRemove` in `Sums`); that it is a
new one is `LedgerLeaves` and `LedgerTransactions`.  Rows are keyed by height and number
in the block, so a transaction of an account has one row only because its chain has the
transaction in one block (`Keyed`).

A purge touches no value, and a checkpoint no later transaction, so `ValuesExact`, which
speaks of the synced chain and of the notes in the table, follows from the sums over
the leaves by the bijection between them (`NotesSum`).

### Payments

| theorem | module | statement |
|---|---|---|
| `PaidNotesAreNotOffered` | PaymentProofs | `PSpec => []PaidNotOffered` |
| `PaymentsKeepCheckpoints` | PaymentProofs | `PSpec => [](CheckpointsExact /\ AnchorsAgree)` |
| `OfferInvariance` | PaymentProofs | `Mendable => (PSpec => []OfferInv)` |
| `SpendableIsExact` | PaymentProofs | `Mendable => (PSpec => []SpendableExact)` |
| `PaidNotesDoSettle` | PaymentProofs | `Mendable => (PSpec => []PaidNotesSettle)` |

`PaidNotOffered` needs to know what a commit of the scan does to a mark set before
it.  The scan works on a copy of the notes and its commit replaces the table, so
`ScanKeeps` says that the copy has all notes and all marks of the table: no mark can
be set between the copy and the commit, because the transaction of the scan holds the
write lock, and a spend that the scan finds replaces a mark by a height.  `NotesHeld`
says the rest: the notes of a payment stay in the table from its selection on.

`OfferInv` is `NInv(raced)`: a mark that has overwritten a height takes its note
into `raced`, and all others keep what a sync alone would give them, whatever the order
of marks and spends.  What is offered joins rows and witnesses that are written by two
transactions, so `Inside` adds that every stored witness, those of a torn batch
included, is of a leaf of the tree it stands for.  Both properties then follow for
every amount, anchor and number of payments.

### Rewinds

| theorem | module | statement |
|---|---|---|
| `RewindInvariance` | WalletRewindProofs | `RSpec => []GInv` |
| `RewindDoesRecover` | WalletRewindProofs | `RSpec => []RewindRecovers` |
| `WitnessesComeBack` | WalletRewindProofs | `RSpec => []WitnessesAfterGaps` |

These hold without `Mendable`: torn batches, reorganizations, rewinds and skips may come in
any order, until rows of two chains are laid over each other for good (`mixed`).
`NInv` is of no use here, as it says of all rows that they belong to one chain.  After a
torn batch and a reorganization they do not, and it is the rewind that makes
this true again, so the invariant has to say what will be left after a trim at any
height.  `Good` therefore says its parts of the rows below a height `h`, for each `h` below
which all scanned blocks are on one chain: they know no spend that no scanned block makes
(`SpentInside`), all notes of the scanned blocks are among them, and the spends that
scanned blocks make of each other's notes are recorded (`Holds`).  A trim at `h` cuts
off the rest.  If the scanned blocks divide below `h`, the two branches may have kept each
other's rows out; the history then keeps both, and the statement is about the heights
below the fork only.  During a batch the same is said of the part that the scan has passed
(`NotesSoFar`, `SpendsSoFar`).  `Comparable` (each scanned block is above or below the
checkpoint on one chain) follows from `mixed` being FALSE, and gives `RewindRecovers`:
then every height up to the checkpoint is one of those.

For the witnesses, a checkpoint has one for each note above the heights that have been left
out or laid (`Witnessed`), because a batch loads the witnesses of exactly the last
checkpoint and carries on those it has found (`Carried`); a height without them
breaks the chain for the older notes.

Two conditions of the history come from the proof: that a batch written below the rows of
later blocks, which a failed rewind can leave behind, makes the rows `mixed`, and that
`scanned` keeps the blocks of both branches when they divide below a rewind.  In either
case the wallet can miss a note or a spend, so the property has to leave it out.

### Transaction details

| theorem | module | statement |
|---|---|---|
| `DetailsAreStored` | DeviceProofs | `Spec => []DetailsStored` |
| `ContactsAreLatest` | DeviceProofs | `Spec => []ContactsLatest` |

`Delivered` says that an answer that has been sent is in the channel or has been
received, and that what has been received is stored, until the writer fails.
`Over` says that the caller joins the writer only when every request is over, that the
writer ends only after that and on an empty channel, and that the call returns Ok only
when the writer has ended; so nothing is left on the way.

`ContactsLatest` needs the order too.  `InOrder` follows the writer through its second
half: what is still to store is ascending and of later transactions than all that is
stored (`Stored`), and each row comes from the last of those that name its contact, so
that the next one may replace it.  With `Delivered`, all have been stored in the end.

### Accounts

| theorem | module | statement |
|---|---|---|
| `RowsOwned` | ServiceProofs | `AccountsSpec => []RowsAreOwned` |
| `BackupIsRestored` | ServiceProofs | `AccountsSpec => []BackupRestored` |

Both are about ids that SQLite gives out again, and calls that run one statement at a
time, with a crash, an error or a sync between any two.  `AInv` has, besides
`RowsAreOwned` itself: the transparent address that is about to be inserted follows
the insert of its account and belongs to it (`PendingFits`); no key is twice in the
table (`KeysFit`); a backup has each key once, with an address of its own account
unless its id was torn (`BackupFits`); what a delete has passed is empty, unless a
sync runs beside it (`DeleteFits`), so that no row is left when the id is given out
again.  `Restoring` follows a restore by position: what is ahead in `job` is
the rest of the backup, each entry behind has its account in the table, and the one
just inserted may still lack its address (`Halfway`).

### Contacts, memory pool, plans, search, schema and prices

| theorem | module | statement |
|---|---|---|
| `CleanIsOnChain` | ServiceProofs | `ContactsSpec => []CleanMeansOnChain` |
| `PoolInvariance` | ServiceProofs | `MempoolSpec => []PoolInv` |
| `PoolIsExact` | ServiceProofs | `MempoolSpec => []PoolExact` |
| `PlansAreExact` | ServiceProofs | `PlanSpec => []PlanExact` |
| `OnlyOwnersSign` | ServiceProofs | `PlanSpec => []SignedByOwner` |
| `SearchIsNear` | ServiceProofs | `SearchSpec => []SearchNear` |
| `SearchNeverUnderflows` | ServiceProofs | `SearchSpec => []BoundsInOrder` |
| `VersionIsPromise` | ServiceProofs | `SchemaSpec => []VersionMeansComplete` |
| `QuotesAreStored` | ServiceProofs | `PricesSpec => []QuotesStored` |

`CleanMeansOnChain` is not inductive: it speaks of the last commit only at the moments
at which sync has read everything.  `Recoverable` speaks of every moment: the version of a clean contact is
that of a commit of it, and every later commit of it that sync has read past is one
whose request has failed.  A rewind moves the mark of sync back and keeps the rows,
so that the commit may be one that is still to be read again; the commit that is last
at the end is then the one of `Recoverable`.

The balance of the memory pool is changed by addition only, transaction by transaction,
and taken back to 0 by a clear.  `PoolFilled` says that it is the sum for what is known,
computed with the nullifiers that the pool holds; these are of the account that was
active when it was last cleared.  So the invariant says three more things, one for
each way they could be of another account: a pool that has never been locked is empty
and its balance 0 (a scan cannot fill it before the first height has made it clear); once
it has been, its nullifiers are those of the active account and of the database as it is,
unless a change of account has its clear still ahead, or `fresh` is FALSE; and a caller
inside the pool (`Positions`) is the one that holds it.  `Update` then adds the
transactions of a reply that are new, a disjoint part of the sum (`NetsAdd`).

A plan is followed one recipient at a time, in the order of `select_outputs`
(`OutputsForAll`).  `Split` gives an amount in parts that are not above the maximum and
add up to it (`SplitSum`, by the number of parts), and what the outputs of the first
recipients pay to any set of addresses is what these recipients ask for it
(`OutputsFor`, `OneMore`).  For one address, this is what it is paid; for all of them, the
total.  It had to be said of addresses, because the recipients of a request may share one,
and the outputs do not say which of them they are for.

The sums are those of the community modules, `MapThenSumSet` and `FoldSeq`, which
choose the order of the elements.  `Sums` proves that they can be taken apart at any
element (`SumSplit` and what follows from it).  The induction theorems have an operator
for a parameter, and so cannot be used; each induction is instead an argument by the
least counterexample, a set or a number that the well-foundedness of the natural numbers
gives (`LeastSet`, `LeastNumber`).

`Tx::sign` compares viewing keys only for the notes of a plan; for one with
transparent inputs alone, the transparent key has to fit.  `Funded` says that a plan
has inputs of one kind at least, all of the account that it was prepared for, and
`Compared` what the signature has checked of them.

The search follows from `Bracketed`: at every request all blocks below `start` are
older than the date and all blocks above `end` younger.
The early answers make it true at the first step of the loop (`Date[start] < time`
and `time < Date[end]`), the order of the dates keeps it, and a distance of `Near`
or more puts the middle strictly between the bounds, so that they move past it
without crossing.  The answer of `Stop` is `start`, from which `end` is less than
`Near` away.

A file of the current version is complete, for any number of coins, calls, errors and
ends of the process, because the number is written last.  `VersionIsLast` says this of
the statements that are left at each moment: before the one that writes the version,
there is one for each table and index that the file still lacks.  What it lacks is
known from the older version that the call has found, so those have a meaning too
(`HasTables`).  A reset takes both away, tables first: from its first drop to its last
statement the file is in `cutReset`.  `TodoFits` keeps the coins apart: a call
is a reset or an opening, and an error in one coin drops only statements of that coin.

A quote fails its insert if its day is already there, or twice in the reply.  The
request begins after the greatest day stored, and the days of a reply are ascending,
so that the first prices of its days are of different days (`DaysDiffer`).  The
clock may go back and windows may change: nothing in the proof needs more than
that stored days are bounded, so that there is a greatest one (`GreatestOf`).

### Other devices

| theorem | module | statement |
|---|---|---|
| `SignedWasShown` | DeviceProofs | `HwSpec => []SignedIsShown` |
| `MergeReturnsIt` | DeviceProofs | `FountainSpec => []MergeReturnsPayload` |

For the signer, the host and the device share nothing but the commands between them,
and `HwInv` puts their states side by side.  While the description is sent, the device
has what the chunks so far join to (`Describing`, `ChunksJoin`: the division into
chunks loses and repeats nothing, whatever their size).  From then on the host goes
through its plan in order, and the device takes part only if the description it has
approved is that of this plan and its counts, taken modulo one byte, are the real ones
(`Asking`, `Fits`).  The hash covers the data of the host, again chunk by chunk, and
each signature is over that hash and of its own number (`Signing`).

For the fountain codes, `DecoderHasRow` says that while the last drop has returned
nothing, the decoder has its id and exactly the drops of its row (`Begins`: since the
last payload or change of id).  `FromRow` says of each drop ever put what it has
returned, by its row; the row of a drop is determined by what came before it
(`RowKept`), so that later drops do not change it.

### What is only model-checked

- Liveness, which needs fairness and ENABLED: `WarpTerminates`, `DetailsReturn` and
  `CallsReturn`.
- The tree builder (`RowExact`, `TreeExact`, `NoteWitnessesExact`, `AssertionsHold`,
  `AdvanceReturns`): its closed forms are powers of two and sums over layers, and the
  provers have no arithmetic of `^`.

No module with a theorem uses a RECURSIVE operator.

## 8. Where the code and its documents differ

- `WarpReplay`: the rows of a batch are committed (`scan.rs:225`) before the
  details are fetched and before the block row is stored.  A failure in between
  makes the next sync scan the batch again; the inserts do nothing, but
  `add_value` adds the received amounts to the transaction again.
  `docs/index.md:26` says that warp sync gives the outputs of a normal sync "byte
  for byte".
- `WarpTornReorg`: after such a failure, a reorganization above the last block
  row is not noticed (`chain.rs:128` compares with that row), and the notes and
  spends of the abandoned blocks stay.
- `RewindBalance`: a rewind to a height deletes the rows of that height and then
  stores its block as synced, so that its notes and spends are never scanned.
  `test-scripts/test.js:63` takes the result for "the balance at this block".
- `RewindWitnesses`: the row stored by a rewind has no witnesses, and the next
  sync loads those of exactly that height: notes from before the rewind cannot be
  spent.  `test-scripts/test.js:88` syncs "to compute note witnesses".

The passing runs say how far these reach: notes and witnesses survive a torn
batch without a reorganization (`WarpCrash`), checkpoints and anchors survive
both (`WarpTorn`, and the proofs), and a rewind to the fork repairs the rest
(`Rewind`).

Other weaknesses have no document to contradict.  They are in the models, named
by a history variable or a condition of a property, or they were met while
reading the code:

- Payments and details: a mark of a payment can replace the height of a spend that
  sync has found (`raced`); `retrieve_tx_info` hangs with one worker thread, or when
  its channel fills before its first yield (`BlockedBeforeWriter`).
- Memory pool: a scan that has read its key before a change of account adds the
  incoming value of the old account to the balance of the new one, and a sync that
  changes the notes under a filled pool leaves the balance as it was; both last
  until the next block or change (`fresh`).  A filter prefix of an evicted
  transaction also hides a new one that shares it.  A cancellation while no sync
  runs cancels the next one; one that comes between the release of the permit and
  the clearing of the flag is lost.  An error of the scan hides the result of the
  sync (`dart_ffi.rs:224`).
- Accounts: rows left behind by a delete that was cut short, or written by a sync
  that had loaded the key, go to the next account of that id (`torn`).  The table
  `secret_shares` is never created, so that a delete always reports an error after
  it has done its work.  A backup taken of such a wallet joins the new account with the transparent
  address of the old one, and a restore carries the pair to another device; so
  `torn` follows the entry through the backup (`TornAfterRestore`).
  A crash between an account and its transparent address is
  never repaired, since the import of a key only updates a row.
  `import_transparent_key` takes the phrase of the active account, whatever account
  it is given.  A phrase typed for an account that is only viewed leaves it so.
- Contacts: an edit made between a commit and its reading back is overwritten and
  marked clean.  A commit of more chunks than a byte can number can not be read
  back.  A commit of nothing is sent all the same.
- Schema: a reset keeps the accounts and contacts with their indexes and writes
  version 0, so that the next opening fails at `CREATE INDEX i_account`, which lacks
  IF NOT EXISTS; so does one after a crash between an index and the version.  The
  error is dropped (`init_wallet`), the coin stays closed, and the next call panics.
  A reset cut short leaves the current version with tables missing (`cutReset`).
- Plans: the reply address is that of the account active when the recipients were
  parsed, even if another one pays.  A plan that is signed and broadcast in separate
  calls never marks its notes.  `shield_taddr` without utxos pays its fee from the
  notes.  The sum of the amounts is not checked for overflow.
- Hardware: the answers' codes are ignored, memos are dropped, and a failed call
  leaves its change in the plan of the caller, so that a retry adds another.
- Fountain codes: the id 0 is taken for no decoder, and never decodes unless another
  id came before; two payloads of one id mix; drops seen after the last needed one
  start a new decoder.
- Prices: a window wider than the first one never fills the days before it.
- Block by date: real chains have blocks a little older than their parents, and
  the search then finds the place only as well as the order allows.

## 9. What is not modelled

Cryptography and encodings (derivation of keys, addresses, the text of memos, the
Pedersen hash, trial decryption, proofs), payment URIs, printing and the generated
gRPC code have no state or concurrency of the wallet; the legacy `wallet.rs` is not
compiled.  The front ends forward calls.  Messages are single statements on one
table.  In the modelled parts:

- two syncs at once (the RPC server takes no lock) and a rewind beside a running
  sync: nothing in the code keeps the tables together then, so that no property but
  the types would hold;
- the change of the active coin in the middle of a call: the accounts of one coin
  are enough for the same races;
- the scan for transparent addresses (`taddr.rs`), a loop of requests without state;
- `sweep_ledger` (`ledger/transparent.rs`), unfinished and called by nobody;
- the tables of messages, contacts and prices beside a sync, except where section 3
  names them.

## 10. The plan

Done: the chain, the pipeline, its runs; the tree builder; rewinds; payments;
transaction details; the nine services and their run; the proofs of section 7: types,
checkpoints, notes, witnesses, nullifiers, values, the refinement of `NormalSync`,
what rewinds recover, what payments are offered and how they settle, plans, transaction
details, the memory pool, accounts, contacts, signatures, the search, schema, prices, the
hardware signer and fountain codes.

Left, the most useful first:
1. The tree builder: its closed forms with powers of two as a recursive function in place
   of `^`, and the lemmas about them that the proofs of `RowExact` and `TreeExact` need.
2. Two instances of the pipeline on one database, to state what survives.
