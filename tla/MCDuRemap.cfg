SPECIFICATION Spec
CONSTANTS
  ReadSizes = {2, 4}
  Cases <- MCCases
INVARIANTS
  HashesKeepPace
  PassMeansRaw
  OutputIsPrefix
PROPERTIES
  Terminates
