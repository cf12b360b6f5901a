CONSTANTS
  m1 = m1  m2 = m2  m3 = m3
  i1 = i1  i2 = i2
  Machine = {m1}
  Infra = {i1}
  None = None
  InfraRef <- OwnInfraRef
  GivenID <- NoGivenID
  ControlPlane = {}
  MaxConcurrent = 1
  Established = {}
  Unclaimed = {}
  Deletable = {m1}
  WatchMayFail = FALSE
  Resyncs = TRUE
  MaxFaults = 1
  MaxDisruptions = 1
SPECIFICATION FairSpec
CHECK_DEADLOCK FALSE
INVARIANTS ControllerInv NoWakeUpLost
PROPERTIES NodeRefStable ReleaseAfterTeardown InfraBeforeNode LivesOneLife
PROPERTIES StatusSettles FailureShown LostInfraReported DeletionCompletes
