SPECIFICATION CommandSpec
CONSTANTS
  MaxBytes = {0, 3, 9}
  SampleCap = 1
  Cases <- MCCases
  Busy <- MCBusy
  Me = "me"
  Runs <- MCRuns
  Command <- MCCommand
  Blocks <- MCBlocks
  MaxSecond = 1
INVARIANTS
  CutOffUnseen
  SamplesAreFirstCuts
  ExactMeansSame
  ReportsSurvive
