\* Frames of a scene with two UserSwitch that the client toggles, above a
\* node they share; a prefetch, two updates and the backend may fail.
SPECIFICATION Spec

CONSTANTS
  n1 = n1  n2 = n2  n3 = n3  n4 = n4  n5 = n5  c1 = c1  c2 = c2
  Ctx = {c1}
  NoCtx = NoCtx
  Node = {n1, n2, n3, n4, n5}
  NoNode = NoNode
  Kind <- TwoSwitches
  InitChildren <- Crossed
  MaxChildren = 0
  MaxRefs = 5
  Ranges <- NoRanges
  PrefetchTime = 1
  MaxIdleTime = 3
  Time = {0, 1, 2}
  Prefetching = {n3, n4}
  InitMayFail = {}
  PrefetchMayFail = {n4}
  UpdateMayFail = {n2, n4}
  ConfigureMayFail = {c1}
  Roots = {n1, n2}
  Dropped = {}
  LiveNodes = {n2, n5}
  MayReconfigure = TRUE
  Playback = "forward"

INVARIANTS
  DrawnAsUpdated
  ActivityFollowsParents

PROPERTIES
  CommandReturns
  Lifecycle
