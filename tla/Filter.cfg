\* Frames of a scene with two TimeRangeFilter, one below the other, in any
\* order of the times.
SPECIFICATION Spec

CONSTANTS
  n1 = n1  n2 = n2  n3 = n3  n4 = n4  n5 = n5  c1 = c1  c2 = c2
  Ctx = {c1}
  NoCtx = NoCtx
  Node = {n1, n2, n3, n4, n5}
  NoNode = NoNode
  Kind <- FilteredKinds
  InitChildren <- Filtered
  MaxChildren = 0
  MaxRefs = 5
  Ranges <- AllModes
  PrefetchTime = 1
  MaxIdleTime = 2
  Time = {0, 1, 2, 3, 4, 5, 6, 7, 8, 9}
  Prefetching = {n3, n4}
  InitMayFail = {}
  PrefetchMayFail = {}
  UpdateMayFail = {}
  ConfigureMayFail = {}
  Roots = {n1, n2}
  Dropped = {}
  LiveNodes = {}
  MayReconfigure = FALSE
  Playback = "seek"

INVARIANTS
  TypeOK
  DrawnAsUpdated
  InactiveReleased
