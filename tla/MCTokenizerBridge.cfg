SPECIFICATION BenchSpec
CONSTANTS
  MaxLen = 5
  Calls <- MCCalls
  Jobs <- MCJobs
INVARIANTS
  ReportsOnlyExact
  TablesBalance
  ThroughDu
