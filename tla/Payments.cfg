SPECIFICATION PSpec
CONSTANTS
  Block <- MCBlock
  Genesis = "g"
  Parent <- MCParent
  Height <- MCHeight
  Out <- MCOut
  Tx <- MCTx
  Outs <- MCOuts
  Spends <- MCSpends
  Index <- MCIndex
  TxOf <- MCTxOf
  Value <- MCValue
  Account = {"alice"}
  Owner <- MCOwner
  Nobody = "nobody"
  Anc <- MCAnc
  Leaves <- MCLeaves
  NoHash = NoHash
  Null = Null
  MaxOutputs = 2
  AnchorOffset = 1
  PurgeDepth = 1
  GetTx = TRUE
  Faults = {"crash"}
  MaxFaults = 1
  Payments = {"p", "q"}
  Needs = {2, 4}
  Confirmations = 1
INVARIANTS
  SpendableExact
  PaidNotOffered
  PaidNotesSettle
