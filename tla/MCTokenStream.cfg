SPECIFICATION Spec
CONSTANTS
  Imports <- MCImports
  Presented <- MCPresented
INVARIANTS
  TypeOK
  AcceptsOnlyWellFormed
  VerdictIsOfTheFile
  DiagnosisNamesFirstFault
