SPECIFICATION Spec
CONSTANTS
  MaxId = 7
  MaxPrefix = 4
  MaxDelta = 2
  MaxDrops = {0, 1, 4}
  Servers <- MCServers
  Inputs <- MCInputs
  IsText <- ValidUtf8
  Tokenized <- MCTokenized
  Detokenized <- MCDetokenized
  FaithfulServers <- MCFaithfulServers
  Piece <- MCPiece
INVARIANTS
  TypeOK
  SelectsFirstExactDrop
  WindowIsProperText
  ReceiptAccountsForDrops
PROPERTIES
  Refines
  Terminates
