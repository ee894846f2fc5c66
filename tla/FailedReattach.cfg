\* The scene of a context that is configured again may fail to attach.
SPECIFICATION Spec

CONSTANTS
  n1 = n1  n2 = n2  n3 = n3  n4 = n4  n5 = n5  c1 = c1  c2 = c2
  Ctx = {c1}
  NoCtx = NoCtx
  Node = {n1, n2, n3}
  NoNode = NoNode
  Kind <- AllPlain
  InitChildren <- Shared
  MaxChildren = 0
  MaxRefs = 5
  Ranges <- NoRanges
  PrefetchTime = 1
  MaxIdleTime = 3
  Time = {}
  Prefetching = {n3}
  InitMayFail = {n1}
  PrefetchMayFail = {}
  UpdateMayFail = {}
  ConfigureMayFail = {}
  Roots = {n1}
  Dropped = {n1, n2, n3}
  LiveNodes = {}
  MayReconfigure = TRUE
  Playback = "seek"

INVARIANTS
  AssertsHold
