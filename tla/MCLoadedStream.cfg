SPECIFICATION LoadSpec
CONSTANTS
  MaxBytes = {0, 1, 2, 3, 9}
  MaxOffset = 5
  MaxUnits = 2
  MaxCount = 9
  LoadedRuns <- MCRuns
  Presented <- MCPresented
  Vocabs <- MCVocabs
INVARIANTS
  VocabAsWritten
  LoadsShortestPrefix
  RangeExact
  BridgesUnlessEmpty
