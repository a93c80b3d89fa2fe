SPECIFICATION ProjectionSpec
CONSTANTS
  Cases <- MCCases
  Jobs <- MCJobs
INVARIANTS
  MapIsGreedy
  ReceiptNamesIds
