SPECIFICATION ServicesSpec
CHECK_DEADLOCK FALSE
CONSTANTS
    Account = {"a", "b"}
    Caller = {"c1", "c2"}
    PoolNote = {"n1", "n2", "n3"}
    PoolTx = {"t1", "t2"}
    OwnerOf <- MCOwnerOf
    ValueOf <- MCValueOf
    SpendsOf <- MCSpendsOf
    CreatesOf <- MCCreatesOf
    HashOf <- MCHashOf
    MaxBlocks = 1
    MaxCalls = 3
    Phrase = {"s"}
    MaxAccountIndex = 1
    MaxAccountId = 2
    MaxAccountCalls = 4
    Version = {"u", "v"}
    ChunkIndexes = 2
    MaxContacts = 3
    MaxEdits = 4
    MaxCommits = 2
    CoinCount = 2
    MaxSchemaCalls = 3
    PlanAccount = {"a", "b"}
    Spendable <- MCSpendable
    Utxos <- MCUtxos
    Zats <- MCZats
    WithKey = {"a", "b"}
    WithTKey = {"a"}
    TAddress = {"t"}
    Requests <- MCRequests
    DefaultFee = 1
    MaxMoney = 20
    MaxPlanCalls = 2
    HwPlans <- MCHwPlans
    HwFee = 1
    PerChunk = 2
    CountModulus = 4
    MaxHwCalls = 3
    DropPayload = {"p", "z", "r", "s"}
    IdOf <- MCIdOf
    DropNumbers = {1, 2}
    Needed = 2
    MaxPuts = 4
    DaySec = 2
    MaxDay = 4
    Windows = {1, 3}
    MaxReply = 3
    Activation = 3
    MaxHeight = 12
    Date <- MCDate
    SearchTimes = {0, 1, 2, 4, 7, 9, 10, 16, 99}
    Near = 2
INVARIANTS
    PoolExact
    RowsAreOwned
    BackupRestored
    
    VersionMeansComplete
    PlanExact
    SignedByOwner
    SignedIsShown
    MergeReturnsPayload
    QuotesStored
PROPERTIES
    CallsReturn
