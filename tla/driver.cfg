SPECIFICATION FairSpec
CONSTANTS
  Workers = {w1, w2}
  WorkloadMax = 2
  SizeofId = 1
  MaxReports = 2
INVARIANTS
  DriverTypeOK
  SamplesAccounted
  ClosedAfterUse
PROPERTIES
  MainReturns
CHECK_DEADLOCK FALSE
