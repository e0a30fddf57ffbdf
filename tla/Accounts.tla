------------------------------ MODULE Accounts ------------------------------
(***************************************************************************)
(* The accounts of a wallet, and the rows of other tables that carry an    *)
(* account id.  Every call below holds the database lock and executes its  *)
(* SQL statements one by one, each committed on its own: job is what is    *)
(* left of the call, and a statement that fails or a crash drops it.       *)
(* SQLite gives the id of a deleted last account to the next one, so a     *)
(* row left behind is a row of somebody else.                              *)
(*                                                                         *)
(* A sync runs on a connection of its own, with the keys it has loaded.    *)
(***************************************************************************)
EXTENDS Integers, FiniteSets, FiniteSetsExt, Sequences, SequencesExt

CONSTANTS
    Phrase,             \* seed phrases
    MaxAccountIndex,    \* bound: account indices of a phrase
    MaxAccountId,       \* bound: rows of accounts
    MaxAccountCalls     \* bound: calls made, syncs included

ASSUME AccountsAssumption == MaxAccountId \in Nat

VARIABLES
    accounts,   \* id -> [seed, index, sk, ivk]
    taddrs,     \* id -> [of, key]: the account the row was made for, and its key
    owned,      \* <<table, id, ivk>>: a row of that id, with the key that received it
    job,        \* statements left of the running call
    request,    \* the last call: its name, whether a statement failed, the ids it
                \* inserted, whether no sync was running beside it
    subs,       \* new_sub_account between two of its accounts
    syncKeys,   \* keys loaded by a running sync
    backup,     \* the last full backup
    accountCalls,
    torn        \* history: ids with rows of an earlier account, see RowsAreOwned

accountVars == <<accounts, taddrs, owned, job, request, subs, syncKeys, backup, accountCalls, torn>>

NoSeed == "none"
Imported == "imported"
NoIndex == -1
AccountIndex == 0 .. MaxAccountIndex
NoSubs == [left |-> 0]
NoRequest == [op |-> "none", failed |-> FALSE, inserted |-> {}, alone |-> TRUE]

\* Keys as the user types them; derivation is injective, so a viewing key is
\* its phrase and its index.
TypedKey == [kind : {"phrase"}, seed : Phrase]
            \cup [kind : {"sk", "fvk"}, ivk : Phrase \X AccountIndex]

\* derive_secret_key, derive_viewing_key, derive_address: a child of the seed.
Derived(seed, i) == <<seed, i>>

\* derive_tkeys and derive_taddr: a transparent key, and its address with it.
TransparentKey(seed, i) == <<seed, i>>

DecodeKey(key, i) ==
    IF key.kind = "phrase"
    THEN [seed |-> key.seed, index |-> i, sk |-> TRUE, ivk |-> Derived(key.seed, i)]
    ELSE [seed |-> NoSeed, index |-> i, sk |-> key.kind = "sk", ivk |-> key.ivk]

IdsOf(ivk) == {id \in DOMAIN accounts : accounts[id].ivk = ivk}
NewId == Max({0} \cup DOMAIN accounts) + 1
NextIndex(seed) ==
    Max({-1} \cup {accounts[id].index : id \in {a \in DOMAIN accounts : accounts[a].seed = seed}}) + 1
With(f, x, y) == [z \in DOMAIN f \cup {x} |-> IF z = x THEN y ELSE f[z]]
Without(f, x) == [z \in DOMAIN f \ {x} |-> f[z]]

AccountsInit ==
    /\ accounts = <<>> /\ taddrs = <<>> /\ owned = {}
    /\ job = <<>> /\ request = NoRequest
    /\ subs = NoSubs /\ syncKeys = <<>> /\ backup = <<>> /\ accountCalls = 0 /\ torn = {}

----------------------------------------------------------------------------
(* Calls: each takes the lock and lays out its statements.                 *)

Locked(op, statements) ==
    /\ job = <<>> /\ job' = statements
    /\ request' = [op |-> op, failed |-> FALSE, inserted |-> {}, alone |-> syncKeys = <<>>]

Open(op, statements) ==
    /\ Locked(op, statements)
    /\ accountCalls < MaxAccountCalls /\ accountCalls' = accountCalls + 1

StoreAccount(row, taddr) == <<[do |-> "store_account", row |-> row, taddr |-> taddr]>>

NewAccount(key, i) ==
    /\ Open("new_account", StoreAccount(DecodeKey(key, i), TRUE))
    /\ UNCHANGED <<accounts, taddrs, owned, subs, syncKeys, backup, torn>>

\* The index is the caller's, or chosen under the lock; it is used after the
\* lock has been released.
NewSubAccount(active, index, count) ==
    /\ Open("new_sub_account", <<>>) /\ subs = NoSubs
    /\ accounts[active].seed # NoSeed
    /\ subs' = [left |-> count, seed |-> accounts[active].seed, index |-> index]
    /\ UNCHANGED <<accounts, taddrs, owned, syncKeys, backup, torn>>

NextSubAccount ==
    /\ subs.left > 0 /\ subs.index \in AccountIndex
    /\ Locked("new_sub_account",
              StoreAccount(DecodeKey([kind |-> "phrase", seed |-> subs.seed], subs.index), TRUE))
    /\ subs' = IF subs.left = 1 THEN NoSubs
               ELSE [subs EXCEPT !.left = @ - 1, !.index = @ + 1]
    /\ UNCHANGED <<accounts, taddrs, owned, syncKeys, backup, accountCalls, torn>>

ImportFromZwl(keys) ==
    /\ Open("import_from_zwl", [n \in DOMAIN keys |->
            StoreAccount(DecodeKey([kind |-> "sk", ivk |-> keys[n]], 0), FALSE)[1]])
    /\ UNCHANGED <<accounts, taddrs, owned, subs, syncKeys, backup, torn>>

\* The phrase is that of the active account, whatever the account of the row.
ImportTransparentKey(active, id) ==
    /\ accounts[active].seed # NoSeed
    /\ Open("import_transparent_key",
            <<[do |-> "update_taddr", id |-> id, key |-> TransparentKey(accounts[active].seed, NoIndex)]>>)
    /\ UNCHANGED <<accounts, taddrs, owned, subs, syncKeys, backup, torn>>

ImportTransparentSecretKey(id) ==
    /\ Open("import_transparent_secret_key",
            <<[do |-> "update_taddr", id |-> id, key |-> TransparentKey(Imported, NoIndex)]>>)
    /\ UNCHANGED <<accounts, taddrs, owned, subs, syncKeys, backup, torn>>

\* store_diversifier: the next index for which the key has an address.
DiversifierRow(id) == <<"diversifiers", id, accounts[id].ivk>>

NewDiversifiedAddress(active) ==
    /\ Open("new_diversified_address", <<>>)
    /\ owned' = owned \cup {DiversifierRow(active)}
    /\ UNCHANGED <<accounts, taddrs, subs, syncKeys, backup, torn>>

DeleteAccount(id) ==
    /\ Open("delete_account", [n \in 1 .. 7 |->
            [do |-> "delete", id |-> id,
             table |-> <<"received_notes", "transactions", "diversifiers", "accounts",
                         "taddrs", "messages", "secret_shares">>[n]]])
    /\ UNCHANGED <<accounts, taddrs, owned, subs, syncKeys, backup, torn>>

TruncateData ==
    /\ Open("truncate_data", [n \in 1 .. 4 |->
            [do |-> "truncate",
             table |-> <<"diversifiers", "received_notes", "transactions", "messages">>[n]]])
    /\ UNCHANGED <<accounts, taddrs, owned, subs, syncKeys, backup, torn>>

NoTaddr == [of |-> <<NoSeed, NoIndex>>, key |-> <<NoSeed, NoIndex>>]
TaddrOf(id) == IF id \in DOMAIN taddrs THEN taddrs[id] ELSE NoTaddr

\* One SELECT, in the order of the rows.
GetFullBackup ==
    /\ Open("get_full_backup", <<>>)
    /\ \E ids \in [1 .. Cardinality(DOMAIN accounts) -> DOMAIN accounts] :
          /\ \A n \in DOMAIN ids : \A m \in 1 .. n - 1 : ids[m] < ids[n]
          /\ backup' = [n \in DOMAIN ids |->
                [row |-> accounts[ids[n]], taddr |-> TaddrOf(ids[n]), torn |-> ids[n] \in torn]]
    /\ UNCHANGED <<accounts, taddrs, owned, subs, syncKeys, torn>>

RestoreFullBackup ==
    /\ Open("restore_full_backup", [n \in DOMAIN backup |->
            [do |-> "restore", row |-> backup[n].row, taddr |-> backup[n].taddr,
             torn |-> backup[n].torn]])
    /\ UNCHANGED <<accounts, taddrs, owned, subs, syncKeys, backup, torn>>

----------------------------------------------------------------------------
(* Statements.                                                             *)

Doing(what) == job # <<>> /\ Head(job).do = what
InsertTaddr(id, of, key) == <<[do |-> "insert_taddr", id |-> id, taddr |-> [of |-> of, key |-> key]]>>
Inserting(row) ==
    /\ NewId <= MaxAccountId
    /\ accounts' = With(accounts, NewId, row)
    /\ request' = [request EXCEPT !.inserted = @ \cup {NewId}]

\* INSERT ... ON CONFLICT DO NOTHING; create_taddr follows for a new account.
ExecStoreAccount ==
    LET row == Head(job).row IN
    /\ Doing("store_account")
    /\ IF IdsOf(row.ivk) # {}
       THEN UNCHANGED <<accounts, request>> /\ job' = Tail(job)
       ELSE /\ Inserting(row)
            /\ job' = (IF Head(job).taddr /\ row.seed # NoSeed
                       THEN InsertTaddr(NewId, row.ivk, TransparentKey(row.seed, row.index)) ELSE <<>>)
                      \o Tail(job)
    /\ UNCHANGED <<taddrs, owned, subs, syncKeys, backup, accountCalls, torn>>

\* The address in a backup of a torn id may be that of an earlier account.
TornAfterRestore(e) == IF e.torn THEN torn \cup {NewId} ELSE torn

\* A mutant: the first account that is already there ends the restore.
ExecRestoreOrStop ==
    LET e == Head(job) IN
    /\ Doing("restore")
    /\ IF IdsOf(e.row.ivk) # {}
       THEN UNCHANGED <<accounts, request, torn>> /\ job' = <<>>
       ELSE /\ Inserting(e.row) /\ torn' = TornAfterRestore(e)
            /\ job' = (IF e.taddr # NoTaddr THEN InsertTaddr(NewId, e.taddr.of, e.taddr.key)
                       ELSE <<>>) \o Tail(job)
    /\ UNCHANGED <<taddrs, owned, subs, syncKeys, backup, accountCalls>>

\* An account that is already there fails its INSERT: logged, and the next.
ExecRestore ==
    LET e == Head(job) IN
    /\ Doing("restore")
    /\ IF IdsOf(e.row.ivk) # {}
       THEN UNCHANGED <<accounts, request, torn>> /\ job' = Tail(job)
       ELSE /\ Inserting(e.row) /\ torn' = TornAfterRestore(e)
            /\ job' = (IF e.taddr # NoTaddr THEN InsertTaddr(NewId, e.taddr.of, e.taddr.key)
                       ELSE <<>>) \o Tail(job)
    /\ UNCHANGED <<taddrs, owned, subs, syncKeys, backup, accountCalls>>

\* A row that is already there stays, by ON CONFLICT or by the logged error.
ExecInsertTaddr ==
    LET s == Head(job) IN
    /\ Doing("insert_taddr")
    /\ taddrs' = IF s.id \in DOMAIN taddrs THEN taddrs ELSE With(taddrs, s.id, s.taddr)
    /\ job' = Tail(job)
    /\ UNCHANGED <<accounts, owned, request, subs, syncKeys, backup, accountCalls, torn>>

\* An UPDATE: it does nothing, and succeeds, when the account has no row.
ExecUpdateTaddr ==
    LET s == Head(job) IN
    /\ Doing("update_taddr")
    /\ taddrs' = IF s.id \in DOMAIN taddrs THEN [taddrs EXCEPT ![s.id].key = s.key] ELSE taddrs
    /\ job' = Tail(job)
    /\ UNCHANGED <<accounts, owned, request, subs, syncKeys, backup, accountCalls, torn>>

\* A mutant: the transparent address of the account is forgotten.
ExecDeleteButTaddr ==
    LET s == Head(job) IN
    /\ Doing("delete")
    /\ accounts' = IF s.table = "accounts" THEN Without(accounts, s.id) ELSE accounts
    /\ taddrs' = taddrs
    /\ owned' = {r \in owned : ~(r[1] = s.table /\ r[2] = s.id)}
    /\ torn' = IF s.table = "secret_shares" /\ request.alone
               THEN torn \ {s.id} ELSE torn \cup {s.id}
    /\ job' = Tail(job)
    /\ UNCHANGED <<request, subs, syncKeys, backup, accountCalls>>

\* No migration creates secret_shares: the last statement fails, and the call
\* reports an error after all others have been done.
ExecDelete ==
    LET s == Head(job) IN
    /\ Doing("delete")
    /\ accounts' = IF s.table = "accounts" THEN Without(accounts, s.id) ELSE accounts
    /\ taddrs' = IF s.table = "taddrs" THEN Without(taddrs, s.id) ELSE taddrs
    /\ owned' = {r \in owned : ~(r[1] = s.table /\ r[2] = s.id)}
    /\ torn' = IF s.table = "secret_shares" /\ request.alone
               THEN torn \ {s.id} ELSE torn \cup {s.id}
    /\ job' = Tail(job)
    /\ UNCHANGED <<request, subs, syncKeys, backup, accountCalls>>

ExecTruncate ==
    /\ Doing("truncate")
    /\ owned' = {r \in owned : r[1] # Head(job).table}
    /\ job' = Tail(job)
    /\ UNCHANGED <<accounts, taddrs, request, subs, syncKeys, backup, accountCalls, torn>>

\* The error ends the call; only a restore goes on with its next account.
StatementFails ==
    /\ job # <<>>
    /\ job' = IF request.op = "restore_full_backup" THEN Tail(job) ELSE <<>>
    /\ request' = [request EXCEPT !.failed = TRUE]
    /\ subs' = IF request.op = "new_sub_account" THEN NoSubs ELSE subs
    /\ UNCHANGED <<accounts, taddrs, owned, syncKeys, backup, accountCalls, torn>>

Crash ==
    /\ job # <<>> \/ syncKeys # <<>>
    /\ job' = <<>> /\ request' = [request EXCEPT !.failed = TRUE]
    /\ subs' = NoSubs /\ syncKeys' = <<>>
    /\ UNCHANGED <<accounts, taddrs, owned, backup, accountCalls, torn>>

\* Another device: an empty database, and the backup that was written down.
NewDevice ==
    /\ job = <<>> /\ subs = NoSubs /\ backup # <<>>
    /\ accounts' = <<>> /\ taddrs' = <<>> /\ owned' = {} /\ syncKeys' = <<>> /\ torn' = {}
    /\ request' = NoRequest
    /\ UNCHANGED <<job, subs, backup, accountCalls>>

----------------------------------------------------------------------------
(* The sync, as far as it concerns accounts.                               *)

LoadKeys ==
    /\ syncKeys = <<>> /\ accounts # <<>>
    /\ accountCalls < MaxAccountCalls /\ accountCalls' = accountCalls + 1
    /\ syncKeys' = [id \in DOMAIN accounts |-> accounts[id].ivk]
    /\ request' = [request EXCEPT !.alone = FALSE]
    /\ UNCHANGED <<accounts, taddrs, owned, job, subs, backup, torn>>

Receive(id) ==
    /\ owned' = owned \cup {<<t, id, syncKeys[id]>> : t \in {"received_notes", "transactions", "messages"}}
    /\ torn' = IF id \in DOMAIN accounts /\ accounts[id].ivk = syncKeys[id]
               THEN torn ELSE torn \cup {id}
    /\ UNCHANGED <<accounts, taddrs, job, request, subs, syncKeys, backup, accountCalls>>

SyncEnds ==
    /\ syncKeys # <<>> /\ syncKeys' = <<>>
    /\ UNCHANGED <<accounts, taddrs, owned, job, request, subs, backup, accountCalls, torn>>

AccountsNext ==
    \/ \E key \in TypedKey, i \in AccountIndex :
         (key.kind # "phrase" => i = 0) /\ NewAccount(key, i)
    \/ \E active \in DOMAIN accounts :
         \/ \E i \in {0, NextIndex(accounts[active].seed)} : NewSubAccount(active, i, 2)
         \/ NewDiversifiedAddress(active)
         \/ \E id \in DOMAIN accounts : ImportTransparentKey(active, id)
    \/ NextSubAccount
    \/ \E k, l \in Phrase \X AccountIndex : k # l /\ ImportFromZwl(<<k, l>>)
    \/ \E id \in DOMAIN accounts : ImportTransparentSecretKey(id)
    \/ \E id \in 1 .. MaxAccountId : DeleteAccount(id)
    \/ TruncateData \/ GetFullBackup \/ RestoreFullBackup \/ NewDevice
    \/ ExecStoreAccount \/ ExecRestore \/ ExecInsertTaddr \/ ExecUpdateTaddr
    \/ ExecDelete \/ ExecTruncate \/ StatementFails \/ Crash
    \/ LoadKeys \/ (\E id \in DOMAIN syncKeys : Receive(id)) \/ SyncEnds

AccountsSpec == AccountsInit /\ [][AccountsNext]_accountVars

----------------------------------------------------------------------------
(* Properties.                                                             *)

\* Ids are reused, so every row must belong to the account that has its id now
\* (db.rs:823-849).  torn are the ids whose last delete was cut short, or ran
\* beside a sync that had loaded the key, and those restored from a backup of
\* such an id: a delete that runs to its last statement repairs them, unless a
\* sync runs beside it.
RowsAreOwned ==
    /\ \A r \in owned : r[2] \notin torn =>
          r[2] \in DOMAIN accounts /\ accounts[r[2]].ivk = r[3]
    /\ \A id \in DOMAIN taddrs \ torn :
          id \in DOMAIN accounts /\ accounts[id].ivk = taddrs[id].of

\* A restore that no failure has cut short leaves every account of the backup
\* in the wallet, whatever was there before, and those it has inserted with
\* their transparent address (db.rs:888-912).
BackupRestored ==
    (request.op = "restore_full_backup" /\ job = <<>> /\ ~request.failed) =>
        \A n \in DOMAIN backup : \E id \in IdsOf(backup[n].row.ivk) :
            id \in request.inserted \ torn => TaddrOf(id) = backup[n].taddr
=============================================================================
