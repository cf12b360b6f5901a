CONSTANTS
  k1 = k1  k2 = k2
  Value <- SomeValues
  Specs <- SomeSpecs
  Sources <- SomeSources
  None = None
  CritFile <- TheCritFile
SPECIFICATION Spec
INVARIANTS ReadsBack DiskAsRequested
CHECK_DEADLOCK FALSE
