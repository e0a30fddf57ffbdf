SPECIFICATION FairSpec
CONSTANTS
  Block <- MCBlock
  Genesis = "g"
  Parent <- MCParent
  Height <- MCHeight
  Out <- MCOut
  Tx <- MCTx
  Outs <- MCOuts
  Spends <- MCSpends
  Index <- MCIndex
  TxOf <- MCTxOf
  Value <- MCValue
  Account <- MCAccount
  Owner <- MCOwner
  Nobody = "nobody"
  Anc <- MCAnc
  Leaves <- MCLeaves
  NoHash = NoHash
  Null = Null
  MaxOutputs = 2
  AnchorOffset = 1
  PurgeDepth = 1
  GetTx = TRUE
  Faults = {"network", "details", "crash", "cancel"}
  MaxFaults = 2
INVARIANTS
  TypeOK
  NotesExact
  WitnessesExact
PROPERTIES
  PurgeKeepsAnchors
  WarpTerminates
