\* A UserSwitch is changed between frames that come back to a time.
SPECIFICATION Spec

CONSTANTS
  n1 = n1  n2 = n2  n3 = n3  n4 = n4  n5 = n5  c1 = c1  c2 = c2
  Ctx = {c1}
  NoCtx = NoCtx
  Node = {n1, n2, n3, n4, n5}
  NoNode = NoNode
  Kind <- OneSwitch
  InitChildren <- Switched
  MaxChildren = 0
  MaxRefs = 5
  Ranges <- NoRanges
  PrefetchTime = 1
  MaxIdleTime = 3
  Time = {0, 1}
  Prefetching = {n3, n4}
  InitMayFail = {}
  PrefetchMayFail = {}
  UpdateMayFail = {}
  ConfigureMayFail = {}
  Roots = {n2}
  Dropped = {}
  LiveNodes = {n2}
  MayReconfigure = FALSE
  Playback = "seek"

INVARIANTS
  AssertsHold
