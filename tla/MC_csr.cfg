CONSTANTS
  g1 = g1
  m1 = m1
  Manager = {g1}
  Machine = {m1}
  Subject = m1
  MaxFaults = 2
  MaxDropped = 2
SPECIFICATION FairSpec
INVARIANTS ApprovedHasMachine NeverPutAside
PROPERTIES OneDecision NotForgotten
CHECK_DEADLOCK FALSE
