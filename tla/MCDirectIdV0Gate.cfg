SPECIFICATION FixtureSpec
CONSTANTS
  MaxId = 7
  MaxLen = 3
  Servers <- MCServers
  Wide <- MCWide
  Fixtures <- MCFixtures
  IsText <- ValidUtf8
  Tokenized <- MCTokenized
  Detokenized <- MCDetokenized
  FaithfulServers <- MCFaithfulServers
  Piece <- MCPiece
INVARIANTS
  PassRequiresDecoding
