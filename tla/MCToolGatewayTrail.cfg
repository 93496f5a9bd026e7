SPECIFICATION GatewaySpec
CONSTANTS
  Subjects = {t1, t2, r1}
  ToolCalls = {t1, t2}
  Reads = {r1}
  MaxCalls = 3
  Ttls = {}
  MaxSequence = 3
  MaxTime = 0
INVARIANT OneOutcomeAudited
CHECK_DEADLOCK FALSE
