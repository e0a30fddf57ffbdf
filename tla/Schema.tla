------------------------------- MODULE Schema -------------------------------
(***************************************************************************)
(* The schema of the two databases (one per coin), its migrations, and the *)
(* reset.  Every statement is committed on its own: job is what is left of *)
(* the running call, and the process may end between any two of them.      *)
(***************************************************************************)
EXTENDS Integers, Sequences, SequencesExt

CONSTANTS
    CoinCount,      \* 2 in the code
    MaxSchemaCalls  \* bound: calls made

ASSUME SchemaAssumption == CoinCount \in Nat

Coin == 0 .. CoinCount - 1  \* init and reset take them in this order

VARIABLES
    file,           \* coin -> the database: version, tables, indexes
    opened,         \* coins whose db is Some in the configuration
    todo,           \* statements left of the running call
    schemaCalls,
    cutReset        \* history: files a reset has begun to drop and never renumbered

schemaVars == <<file, opened, todo, schemaCalls, cutReset>>

BaseTables == <<"accounts", "blocks", "transactions", "received_notes", "sapling_witnesses",
                "diversifiers", "taddrs", "historical_prices", "contacts">>
ResetTables == <<"blocks", "transactions", "received_notes", "sapling_witnesses",
                 "diversifiers", "historical_prices">>
Indexes == <<"i_received_notes", "i_account", "i_contact", "i_transaction", "i_witness">>
TableOf == [i_received_notes |-> "received_notes", i_account |-> "accounts",
            i_contact |-> "contacts", i_transaction |-> "transactions",
            i_witness |-> "sapling_witnesses"]

CurrentVersion == 3
AllTables == ToSet(BaseTables) \cup {"messages"}

\* A file of this version, made by the release that had it.
Released(v) ==
    [version |-> v,
     tables  |-> IF v >= 1 THEN ToSet(BaseTables) ELSE {},
     indexes |-> IF v >= 2 THEN ToSet(Indexes) ELSE {}]

SchemaInit ==
    /\ file \in [Coin -> {Released(v) : v \in 0 .. 2}]
    /\ opened = {} /\ todo = <<>> /\ schemaCalls = 0 /\ cutReset = {}

----------------------------------------------------------------------------
(* Calls: what they lay out.  A statement names its coin.                  *)

Do(what, c, names) == [n \in DOMAIN names |-> [do |-> what, coin |-> c, name |-> names[n]]]
SetVersion(c, v) == <<[do |-> "set_version", coin |-> c, version |-> v]>>
If(cond, statements) == IF cond THEN statements ELSE <<>>

\* A mutant: the version is written before the work it stands for.
InitDbRenumberedFirst(c) ==
    LET v == file[c].version IN
    If(v # CurrentVersion, SetVersion(c, CurrentVersion))
    \o If(v < 1, Do("create_table", c, BaseTables))
    \o If(v < 2, Do("create_index", c, Indexes))
    \o If(v < 3, Do("create_table", c, <<"messages">>))
    \o <<[do |-> "open", coin |-> c]>>

\* init_db; set_db_path keeps the connection when it has succeeded.
InitDb(c) ==
    LET v == file[c].version IN
    If(v < 1, Do("create_table", c, BaseTables))
    \o If(v < 2, Do("create_index", c, Indexes))
    \o If(v < 3, Do("create_table", c, <<"messages">>))
    \o If(v # CurrentVersion, SetVersion(c, CurrentVersion))
    \o <<[do |-> "open", coin |-> c]>>

ResetDb(c) == Do("drop_table", c, ResetTables) \o SetVersion(c, 0)

Call(statements) ==
    /\ todo = <<>> /\ todo' = statements
    /\ schemaCalls < MaxSchemaCalls /\ schemaCalls' = schemaCalls + 1

ForEachCoin(what) == [n \in 1 .. CoinCount |-> [do |-> what, coin |-> n - 1]]

InitWallet == Call(ForEachCoin("init")) /\ UNCHANGED <<file, opened, cutReset>>
ResetApp == Call(ForEachCoin("reset")) /\ UNCHANGED <<file, opened, cutReset>>

----------------------------------------------------------------------------
(* Statements.                                                             *)

Now(what) == todo # <<>> /\ Head(todo).do = what

\* get_schema_version is read when the turn of the coin comes.
BeginInit ==
    /\ Now("init")
    /\ todo' = InitDb(Head(todo).coin) \o Tail(todo)
    /\ UNCHANGED <<file, opened, schemaCalls, cutReset>>

\* A coin that has not been opened is an unwrap of None: see EndOfProcess.
BeginReset ==
    /\ Now("reset") /\ Head(todo).coin \in opened
    /\ todo' = ResetDb(Head(todo).coin) \o Tail(todo)
    /\ UNCHANGED <<file, opened, schemaCalls, cutReset>>

CreateTable ==
    /\ Now("create_table")
    /\ file' = [file EXCEPT ![Head(todo).coin].tables = @ \cup {Head(todo).name}]
    /\ todo' = Tail(todo)
    /\ UNCHANGED <<opened, schemaCalls, cutReset>>

\* Without IF NOT EXISTS.
CreateIndex ==
    /\ Now("create_index")
    /\ Head(todo).name \notin file[Head(todo).coin].indexes
    /\ TableOf[Head(todo).name] \in file[Head(todo).coin].tables
    /\ file' = [file EXCEPT ![Head(todo).coin].indexes = @ \cup {Head(todo).name}]
    /\ todo' = Tail(todo)
    /\ UNCHANGED <<opened, schemaCalls, cutReset>>

\* SQLite drops the indexes of a table with it.
DropTable ==
    LET c == Head(todo).coin IN
    /\ Now("drop_table")
    /\ Head(todo).name \in file[c].tables
    /\ file' = [file EXCEPT ![c].tables = @ \ {Head(todo).name},
                            ![c].indexes = {i \in @ : TableOf[i] # Head(todo).name}]
    /\ cutReset' = cutReset \cup {c}
    /\ todo' = Tail(todo)
    /\ UNCHANGED <<opened, schemaCalls>>

UpdateSchemaVersion ==
    /\ Now("set_version")
    /\ file' = [file EXCEPT ![Head(todo).coin].version = Head(todo).version]
    /\ cutReset' = IF Head(todo).version = 0 THEN cutReset \ {Head(todo).coin} ELSE cutReset
    /\ todo' = Tail(todo)
    /\ UNCHANGED <<opened, schemaCalls>>

OpenCoin ==
    /\ Now("open")
    /\ opened' = opened \cup {Head(todo).coin}
    /\ todo' = Tail(todo)
    /\ UNCHANGED <<file, schemaCalls, cutReset>>

\* An index that is already there, a table that is not, or any error of SQLite.
\* It ends the reset, or the opening of its coin: that error is dropped, and
\* the next coin is still opened.
StatementError ==
    /\ todo # <<>> /\ Head(todo).do \notin {"init", "reset", "open"}
    /\ \/ \E n \in DOMAIN todo : todo[n].do = "open" /\ todo' = SubSeq(todo, n + 1, Len(todo))
       \/ (\A n \in DOMAIN todo : todo[n].do # "open") /\ todo' = <<>>
    /\ UNCHANGED <<file, opened, schemaCalls, cutReset>>

\* The end of the process: a kill between two statements, or the panic of a
\* call on a coin that has not been opened.
EndOfProcess ==
    /\ todo # <<>> \/ opened # {}
    /\ todo' = <<>> /\ opened' = {}
    /\ UNCHANGED <<file, schemaCalls, cutReset>>

SchemaNext ==
    \/ InitWallet \/ ResetApp
    \/ BeginInit \/ BeginReset \/ CreateTable \/ CreateIndex \/ DropTable \/ UpdateSchemaVersion \/ OpenCoin
    \/ StatementError \/ EndOfProcess

SchemaSpec == SchemaInit /\ [][SchemaNext]_schemaVars

----------------------------------------------------------------------------
(* Properties.                                                             *)

\* A file that carries the current version is not looked at again when it is
\* opened (migration.rs:43-178), so it must be complete, whatever errors and
\* crashes there have been.  Only a reset that was cut short escapes: it drops
\* the tables first and writes the version last (migration.rs:23-33).
VersionMeansComplete ==
    \A c \in Coin \ cutReset :
        file[c].version = CurrentVersion =>
            file[c].tables = AllTables /\ file[c].indexes = ToSet(Indexes)
=============================================================================
