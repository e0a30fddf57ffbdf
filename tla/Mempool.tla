------------------------------ MODULE Mempool ------------------------------
(***************************************************************************)
(* The unconfirmed balance of the active account, and the calls that race  *)
(* for it: the memory pool scan, the change of account, the reset, and     *)
(* warp, which synchronizes under a lock of its own and then scans.        *)
(*                                                                         *)
(* A scan copies the configuration, asks the server twice, and only then   *)
(* locks the pool: account, key, height, nullifiers and database are read  *)
(* at five different moments.  Calls run on threads of their own; each     *)
(* action is what one of them does between two points where another can    *)
(* get in.  Nothing disturbs the pool between the lock and the return, so  *)
(* a reply is taken in one step, cut short where the stream fails.         *)
(***************************************************************************)
EXTENDS Integers, FiniteSets, FiniteSetsExt, Sequences, SequencesExt

CONSTANTS
    Account, Caller,
    PoolNote,           \* notes of the wallet
    PoolTx,             \* transactions that reach the server's memory pool
    OwnerOf, ValueOf,   \* account and amount of a note
    SpendsOf, CreatesOf,\* the notes a transaction spends and creates
    HashOf,             \* its hash, a sequence of bytes
    MaxBlocks,          \* bound: blocks mined
    MaxCalls            \* bound: calls started

ASSUME PoolNotes ==
    /\ OwnerOf \in [PoolNote -> Account] /\ ValueOf \in [PoolNote -> Nat]
    /\ SpendsOf \in [PoolTx -> SUBSET PoolNote]
    /\ CreatesOf \in [PoolTx -> SUBSET PoolNote]
    /\ \A t \in PoolTx : IsFiniteSet(SpendsOf[t]) /\ IsFiniteSet(CreatesOf[t])

VARIABLES
    serverTxs, mined, tip,              \* the server: pool, mined transactions, height
    stored,                             \* the mined transactions the database knows
    idAccount, height,                  \* the active configuration
    poolHolder, known, nfs, balance,    \* the pool and its lock
    permit, canceled,                   \* SYNC_LOCK and SYNC_CANCELED
    call, calls,                        \* what each caller is doing; calls made so far
    fresh                               \* history: see PoolExact

network == <<serverTxs, mined, tip>>
config  == <<idAccount, height>>
pool    == <<poolHolder, known, nfs, balance>>
session == <<permit, canceled>>
poolVars == <<network, stored, config, pool, session, call, calls, fresh>>

Nobody == "nobody"
NotCalling == [op |-> "none", pc |-> "idle"]

Credit(a, t) == MapThenSumSet(LAMBDA n : ValueOf[n], {n \in CreatesOf[t] : OwnerOf[n] = a})
Debit(notes, t) == MapThenSumSet(LAMBDA n : ValueOf[n], SpendsOf[t] \cap notes)

\* get_nullifier_amounts: a note that a payment has only marked counts as unspent.
NullifierAmounts(a, db) ==
    {n \in PoolNote : /\ OwnerOf[n] = a
                      /\ \A t \in PoolTx : n \in CreatesOf[t] => t \in db
                      /\ \A t \in db : n \notin SpendsOf[t]}

MempoolInit ==
    /\ serverTxs = {} /\ mined = {} /\ tip = 1
    /\ stored = {}
    /\ idAccount \in Account /\ height = 0
    /\ poolHolder = Nobody /\ known = <<>> /\ nfs = {} /\ balance = 0
    /\ permit = Nobody /\ canceled = FALSE
    /\ call = [c \in Caller |-> NotCalling] /\ calls = 0
    /\ fresh = TRUE

----------------------------------------------------------------------------
(* The network.                                                            *)

SubmitTx(t) ==
    /\ t \notin mined \cup serverTxs
    /\ \A u \in PoolTx : SpendsOf[t] \cap CreatesOf[u] # {} => u \in mined
    /\ \A u \in (mined \cup serverTxs) : SpendsOf[t] \cap SpendsOf[u] = {}
    /\ serverTxs' = serverTxs \cup {t}
    /\ UNCHANGED <<mined, tip, stored, config, pool, session, call, calls, fresh>>

MineTxs(T) ==
    /\ tip <= MaxBlocks
    /\ serverTxs' = serverTxs \ T /\ mined' = mined \cup T /\ tip' = tip + 1
    /\ UNCHANGED <<stored, config, pool, session, call, calls, fresh>>

EvictTx(t) ==
    /\ t \in serverTxs
    /\ serverTxs' = serverTxs \ {t}
    /\ UNCHANGED <<mined, tip, stored, config, pool, session, call, calls, fresh>>

\* The reply leaves out a transaction that a prefix of the filter matches,
\* unless the prefix matches another one as well.
Reply(filter) ==
    LET Matched(p) == {t \in serverTxs : IsPrefix(p, HashOf[t])}
    IN  {t \in serverTxs : \A p \in filter : Matched(p) # {t}}

----------------------------------------------------------------------------
(* Calls.                                                                  *)

Goto(c, rec) == call' = [call EXCEPT ![c] = rec]
At(c, pc) == call[c].pc = pc
Begin(c, rec) ==
    /\ At(c, "idle") /\ calls < MaxCalls
    /\ calls' = calls + 1
    /\ Goto(c, rec)

\* A mutant: the permit is not given back.
FinishKeepingPermit(c) ==
    /\ permit' = permit
    /\ Goto(c, IF call[c].op = "warp" THEN [op |-> "warp", pc |-> "clear_flag"] ELSE NotCalling)

\* The guard of a warp ends with its async block; the flag is cleared after it.
Finish(c) ==
    IF call[c].op = "warp"
    THEN permit' = Nobody /\ Goto(c, [op |-> "warp", pc |-> "clear_flag"])
    ELSE permit' = permit /\ Goto(c, NotCalling)

\* A mutant: the balance survives the transactions it was made of.
ClearedButBalance ==
    /\ nfs' = NullifierAmounts(idAccount, stored) /\ known' = <<>> /\ balance' = balance
    /\ fresh' = TRUE

\* MemPool::clear, with the account that is active when it runs.
Cleared ==
    /\ nfs' = NullifierAmounts(idAccount, stored) /\ known' = <<>> /\ balance' = 0
    /\ fresh' = TRUE

StartScan(c) ==
    /\ Begin(c, [op |-> "mempool_sync", pc |-> "snapshot"])
    /\ UNCHANGED <<network, stored, config, pool, session, fresh>>

Snapshot(c) ==
    /\ At(c, "snapshot")
    /\ Goto(c, [op |-> call[c].op, pc |-> "connect", account |-> idAccount, height |-> height])
    /\ UNCHANGED <<network, stored, config, pool, session, calls, fresh>>

GetLatestHeight(c) ==
    /\ At(c, "connect")
    /\ Goto(c, [op |-> call[c].op, pc |-> "lock", account |-> call[c].account,
                height |-> call[c].height, latest |-> tip])
    /\ UNCHANGED <<network, stored, config, pool, session, calls, fresh>>

ScanFails(c) ==
    /\ At(c, "connect")
    /\ Finish(c)
    /\ UNCHANGED <<network, stored, config, pool, canceled, calls, fresh>>

LockPool(c) ==
    /\ At(c, "lock") /\ poolHolder = Nobody
    /\ poolHolder' = c
    /\ IF call[c].latest # call[c].height
       THEN height' = call[c].latest /\ Cleared
       ELSE UNCHANGED <<height, nfs, known, balance, fresh>>
    /\ Goto(c, [op |-> call[c].op, pc |-> "update", account |-> call[c].account])
    /\ UNCHANGED <<network, stored, idAccount, session, calls>>

Filter == {SubSeq(HashOf[t], 1, known[t].excludeLen) : t \in DOMAIN known}

\* scan_transaction: spends by the nullifiers of the pool, outputs by the key
\* that the call has brought.
TxBalance(a, t) == Credit(a, t) - Debit(nfs, t)

\* MemPool::update; the stream ends with what it has sent, or fails before.
Update(c, got) ==
    LET new == got \ DOMAIN known IN
    /\ At(c, "update")
    /\ got \subseteq Reply(Filter)
    /\ known' = [t \in DOMAIN known \cup new |->
                    IF t \in new
                    THEN [balance |-> TxBalance(call[c].account, t), excludeLen |-> 1]
                    ELSE [known[t] EXCEPT !.excludeLen = IF t \in got THEN @ + 1 ELSE @]]
    /\ balance' = balance + MapThenSumSet(LAMBDA t : TxBalance(call[c].account, t), new)
    /\ fresh' = (fresh /\ (call[c].account = idAccount \/ new = {}))
    /\ poolHolder' = Nobody
    /\ Finish(c)
    /\ UNCHANGED <<network, stored, config, nfs, canceled, calls>>

\* set_active_account: the account first, then the pool.
SetActiveAccount(c, a) ==
    /\ Begin(c, [op |-> "set_active_account", pc |-> "clear"])
    /\ idAccount' = a
    /\ UNCHANGED <<network, stored, height, pool, session, fresh>>

ClearPool(c) ==
    /\ At(c, "clear") /\ poolHolder = Nobody
    /\ Cleared
    /\ Goto(c, NotCalling)
    /\ UNCHANGED <<network, stored, config, poolHolder, session, calls>>

MempoolReset(c) ==
    /\ Begin(c, [op |-> "mempool_reset", pc |-> "clear"])
    /\ UNCHANGED <<network, stored, config, pool, session, fresh>>

----------------------------------------------------------------------------
(* The session of warp.                                                    *)

StartWarp(c) ==
    /\ Begin(c, [op |-> "warp", pc |-> "acquire"])
    /\ UNCHANGED <<network, stored, config, pool, session, fresh>>

Acquire(c) ==
    /\ At(c, "acquire") /\ permit = Nobody
    /\ permit' = c
    /\ Goto(c, [op |-> "warp", pc |-> "sync"])
    /\ UNCHANGED <<network, stored, config, pool, canceled, calls, fresh>>

\* coin_sync: it may bring the database up to date, or fail, or be cancelled.
\* Whatever it returns, the scan follows.
Sync(c) ==
    /\ At(c, "sync")
    /\ stored' \in IF canceled THEN {stored} ELSE {stored, mined}
    /\ fresh' = 
        (fresh /\ NullifierAmounts(idAccount, stored') = NullifierAmounts(idAccount, stored))
    /\ Goto(c, [op |-> "warp", pc |-> "snapshot"])
    /\ UNCHANGED <<network, config, pool, session, calls>>

ClearCanceled(c) ==
    /\ At(c, "clear_flag")
    /\ canceled' = FALSE
    /\ Goto(c, NotCalling)
    /\ UNCHANGED <<network, stored, config, pool, permit, calls, fresh>>

CancelWarp ==
    /\ canceled' = TRUE
    /\ UNCHANGED <<network, stored, config, pool, permit, call, calls, fresh>>

MempoolStep(c) ==
    \/ Snapshot(c) \/ GetLatestHeight(c) \/ ScanFails(c) \/ LockPool(c)
    \/ \E got \in SUBSET serverTxs : Update(c, got)
    \/ ClearPool(c) \/ Acquire(c) \/ Sync(c) \/ ClearCanceled(c)

MempoolNext ==
    \/ \E t \in PoolTx : SubmitTx(t) \/ EvictTx(t)
    \/ \E T \in SUBSET serverTxs : MineTxs(T)
    \/ \E c \in Caller :
         \/ StartScan(c) \/ MempoolReset(c) \/ StartWarp(c)
         \/ \E a \in Account : SetActiveAccount(c, a)
         \/ MempoolStep(c)
    \/ CancelWarp

\* Every thread goes on, and the server answers or the connection breaks.
MempoolFairness == \A c \in Caller : WF_poolVars(MempoolStep(c))

MempoolSpec == MempoolInit /\ [][MempoolNext]_poolVars /\ MempoolFairness

----------------------------------------------------------------------------
(* Properties.                                                             *)

\* While nobody is in the pool and no change of account is between its two
\* halves (coinconfig.rs:30-37), the balance is that of the active account for
\* the transactions the pool knows.  Two races of the code escape it, and stay
\* until the next block or the next change of account: a scan that brings the
\* key of the account before the change, and a sync that changes the notes
\* under a filled pool.  fresh is FALSE from such a race to the next clear.
PoolExact ==
    (fresh /\ poolHolder = Nobody /\ \A c \in Caller : ~At(c, "clear")) =>
        balance = MapThenSumSet(
            LAMBDA t : Credit(idAccount, t) - Debit(NullifierAmounts(idAccount, stored), t),
            DOMAIN known)

\* No order of the three locks (permit, pool, configuration) leaves a caller
\* waiting for ever (dart_ffi.rs:203-240, mempool.rs:12-28, coinconfig.rs:30).
CallsReturn == \A c \in Caller : call[c].op # "none" ~> call[c].op = "none"
=============================================================================
