SPECIFICATION GatewaySpec
CONSTANTS
  t1 = t1
  t2 = t2
  r1 = r1
  host = host
  Subjects <- MCSubjects
  ToolCalls <- MCToolCalls
  Reads <- MCReads
  MaxCalls = 2
  Ttls = {}
  MaxSequence = 2
  MaxTime = 1
SYMMETRY MCSymmetry
INVARIANTS OnlyAllowedCallsRun RefusalNamesItsSession CollectedIsTheSink
PROPERTY SessionsEndOnce
CHECK_DEADLOCK FALSE
