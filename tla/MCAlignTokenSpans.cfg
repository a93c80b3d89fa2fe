SPECIFICATION SweepSpec
CONSTANTS
  MaxLen = 5
  Hashes = {h1, h2}
  Streams <- MCStreams
INVARIANTS
  TypeOK
  RecordsExact
  RecordsMeet
PROPERTIES
  Refines
  Terminates
