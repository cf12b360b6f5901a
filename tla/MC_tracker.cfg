CONSTANTS
  Worker = {w1, w2, w3}
  Kind = {k1, k2, k3}
  NoKind = NoKind
SPECIFICATION Spec
INVARIANT TrackerInv
PROPERTIES WatchesOnce
