\* Two contexts and two scenes that share a node; some inits fail, a backend
\* may refuse its configuration, the client extends its graph and gives its
\* references up.
SPECIFICATION Spec

CONSTANTS
  n1 = n1  n2 = n2  n3 = n3  n4 = n4  n5 = n5  c1 = c1  c2 = c2
  Ctx = {c1, c2}
  NoCtx = NoCtx
  Node = {n1, n2, n3, n4}
  NoNode = NoNode
  Kind <- AllPlain
  InitChildren <- TwoScenes
  MaxChildren = 3
  MaxRefs = 5
  Ranges <- NoRanges
  PrefetchTime = 1
  MaxIdleTime = 3
  Time = {}
  Prefetching = {n3}
  InitMayFail = {n2, n4}
  PrefetchMayFail = {}
  UpdateMayFail = {}
  ConfigureMayFail = {c1}
  Roots = {n1, n4}
  Dropped = {n1, n3}
  LiveNodes = {}
  MayReconfigure = FALSE
  Playback = "seek"

INVARIANTS
  OwnerCounted
  CountsAreExact
  ChildrenOutliveParents

PROPERTIES
  SingleOwner
