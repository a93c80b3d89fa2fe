SPECIFICATION Spec
CONSTANTS
  MaxId = 7
  MaxPrefix = 4
  MaxDelta = 1
  MaxDrops = {0, 1, 4}
  FixedDrops = {0, 1, 4}
  Servers <- MCServers
  Inputs <- MCInputs
  Options <- MCOptions
  IsText <- ValidUtf8
  Tokenized <- MCTokenized
  Detokenized <- MCDetokenized
  FaithfulServers <- MCFaithfulServers
  Piece <- MCPiece
INVARIANTS
  ChoosesFirstExactDrop
  WindowCompletesKeptTokens
  ValidatedOnce
PROPERTIES
  FixedDropIgnoresOracle
  Refines
  Terminates
