CONSTANTS
  m1 = m1  m2 = m2  m3 = m3
  i1 = i1  i2 = i2
  Machine = {m1, m2, m3}
  Infra = {i1, i2}
  None = None
  InfraRef <- OwnInfraRef
  GivenID <- NoGivenID
  ControlPlane = {m1}
  MaxConcurrent = 2
  Established = {m1, m2}
  Unclaimed = {}
  Deletable = {m1, m2}
  WatchMayFail = TRUE
  Resyncs = FALSE
  MaxFaults = 1
  MaxDisruptions = 0
SPECIFICATION Spec
CHECK_DEADLOCK FALSE
INVARIANTS TypeOK
PROPERTIES SoleControlPlaneKept DrainedBeforeTeardown
