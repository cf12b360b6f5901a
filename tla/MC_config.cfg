CONSTANTS
  plain = plain  files = files  broken = broken
  s1 = s1
  Manager = {g1, g2}
  Content <- ThreeContents
  Valid <- TwoValid
  Source = {s1}
  Uses <- FilesUseSource
  Name = {n1, n2}
  None = None
  MaxEdits = 1
  MaxFaults = 1
SPECIFICATION FairSpec
CHECK_DEADLOCK FALSE
INVARIANTS TypeOK BootstrapInv NeverGivenUp
PROPERTIES RenderedFromCurrentSpec PublishedOnce BecomesReady SecretsGoWithConfig
