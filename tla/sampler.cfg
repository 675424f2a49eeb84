SPECIFICATION FairSpec
CONSTANTS
  Container <- MCContainer
  None = None
  MaxUse <- MCMaxUse
  MaxStops = 2
  MaxLines = 1
INVARIANTS
  TypeOK
  TotalsBounded
  RatesAgree
  SamplesStill
  StreamReaped
PROPERTIES
  StopReturns
  Resumes
CHECK_DEADLOCK FALSE
