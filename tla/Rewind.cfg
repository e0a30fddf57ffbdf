SPECIFICATION RSpec
CONSTANTS
  Block <- MCBlock
  Genesis = "g"
  Parent <- MCParent
  Height <- MCHeight
  Out <- MCOut
  Tx <- MCTx
  Outs <- MCOuts
  Spends <- MCSpends
  Index <- MCIndex
  TxOf <- MCTxOf
  Value <- MCValue
  Account <- MCAccount
  Owner <- MCOwner
  Nobody = "nobody"
  Anc <- MCAnc
  Leaves <- MCLeaves
  NoHash = NoHash
  Null = Null
  MaxOutputs = 3
  AnchorOffset = 0
  PurgeDepth = 1
  GetTx = FALSE
  Faults = {"reorg", "crash"}
  MaxFaults = 1
INVARIANTS
  RewindRecovers
  WitnessesAfterGaps
CONSTRAINT
  Unmixed
