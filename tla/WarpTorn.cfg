SPECIFICATION Spec
CONSTANTS
  Block <- MCBlock
  Genesis = "g"
  Parent <- MCParent
  Height <- MCHeight
  Out <- MCOut
  Tx <- MCTx
  Outs <- MCOuts
  Spends <- MCSpends
  Index <- MCIndex
  TxOf <- MCTxOf
  Value <- MCValue
  Account <- MCAccount
  Owner <- MCOwner
  Nobody = "nobody"
  Anc <- MCAnc
  Leaves <- MCLeaves
  NoHash = NoHash
  Null = Null
  MaxOutputs = 3
  AnchorOffset = 1
  PurgeDepth = 2
  GetTx = TRUE
  Faults = {"reorg", "details", "crash"}
  MaxFaults = 2
INVARIANTS
  CheckpointsExact
  PipelineLinked
  AnchorsAgree
PROPERTIES
  NeverCrossFork
