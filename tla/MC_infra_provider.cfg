CONSTANTS
  p1 = p1  p2 = p2
  o1 = o1
  Provider = {p1, p2}
  Object = {o1}
  None = None
  Ref <- SharedRef
  WatchMayFail = TRUE
  MaxFaults = 2
  MaxChanges = 5
SPECIFICATION FairSpec
INVARIANTS ProviderInv NoEventMissed
PROPERTIES OwnerNeverStolen ReadyByOwnObject ReadySettles AdoptedInTheEnd
CHECK_DEADLOCK FALSE
