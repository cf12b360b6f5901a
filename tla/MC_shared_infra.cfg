CONSTANTS
  m1 = m1  m2 = m2  m3 = m3
  i1 = i1  i2 = i2
  Machine = {m1, m2}
  Infra = {i1}
  None = None
  InfraRef <- SharedInfraRef
  GivenID <- NoGivenID
  ControlPlane = {}
  MaxConcurrent = 2
  Established = {}
  Unclaimed = {i1}
  Deletable = {}
  WatchMayFail = FALSE
  Resyncs = FALSE
  MaxFaults = 0
  MaxDisruptions = 1
SYMMETRY Alike
SPECIFICATION Spec
CHECK_DEADLOCK FALSE
INVARIANTS ControllerInv NoWakeUpLost
PROPERTIES OwnerStands
