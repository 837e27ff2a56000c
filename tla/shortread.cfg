SPECIFICATION Spec
CONSTANTS
  Workers = {w1}
  WorkloadMax = 2
  SizeofId = 4
  MaxReports = 0
INVARIANTS
  WorkloadLoaded
CHECK_DEADLOCK FALSE
