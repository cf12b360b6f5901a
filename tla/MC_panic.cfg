CONSTANTS
  m1 = m1  m2 = m2  m3 = m3
  i1 = i1  i2 = i2
  Machine = {m1}
  Infra = {i1}
  None = None
  InfraRef <- OwnInfraRef
  GivenID <- NoGivenID
  ControlPlane = {}
  MaxConcurrent = 1
  Established = {m1}
  Unclaimed = {}
  Deletable = {m1}
  WatchMayFail = FALSE
  Resyncs = FALSE
  MaxFaults = 0
  MaxDisruptions = 0
SPECIFICATION Spec
CHECK_DEADLOCK FALSE
INVARIANT DeletionToleratesMissing
