\* A TimeRangeFilter below a "once" range of another one.
SPECIFICATION Spec

CONSTANTS
  n1 = n1  n2 = n2  n3 = n3  n4 = n4  n5 = n5  c1 = c1  c2 = c2
  Ctx = {c1}
  NoCtx = NoCtx
  Node = {n1, n2, n3, n4}
  NoNode = NoNode
  Kind <- TwoFilters
  InitChildren <- Nested
  MaxChildren = 0
  MaxRefs = 5
  Ranges <- NestedRanges
  PrefetchTime = 1
  MaxIdleTime = 3
  Time = {0, 1, 2, 4}
  Prefetching = {n3, n4}
  InitMayFail = {}
  PrefetchMayFail = {}
  UpdateMayFail = {}
  ConfigureMayFail = {}
  Roots = {n1}
  Dropped = {}
  LiveNodes = {}
  MayReconfigure = FALSE
  Playback = "forward"

INVARIANTS
  AssertsHold
