SPECIFICATION FairSpec
CONSTANTS
  Block <- MCBlock
  Genesis = "g"
  Parent <- MCParent
  Height <- MCHeight
  Out <- MCOut
  Tx <- MCTx
  Outs <- MCOuts
  Spends <- MCSpends
  Index <- MCIndex
  TxOf <- MCTxOf
  Value <- MCValue
  Account <- MCAccount
  Owner <- MCOwner
  Nobody = "nobody"
  Anc <- MCAnc
  Leaves <- MCLeaves
  NoHash = NoHash
  Null = Null
  MaxOutputs = 3
  AnchorOffset = 1
  PurgeDepth = 1
  GetTx = FALSE
  Faults = {"reorg", "cancel", "network"}
  MaxFaults = 1
INVARIANTS
  NotesExact
  WitnessesExact
  ValuesExact
  NullifiersFresh
PROPERTIES
  OkMeansSynced
  NormalSync
  WarpTerminates
