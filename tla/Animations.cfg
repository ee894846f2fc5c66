\* Every order of draws and evaluations at the times around the key frames,
\* of two animations with key frames in common, one of which is extended.
SPECIFICATION AnimationSpec

CONSTANTS
  m1 = m1  m2 = m2  k1 = k1  k2 = k2  k3 = k3  k4 = k4
  Anim = {m1, m2}
  NoAnim = NoAnim
  KeyFrame = {k1, k2, k3, k4}
  TimeOf <- Times
  InitAnimkf <- Included
  Time = {0, 1, 2, 3, 4, 5, 6}
  Evaluable = {m1}
  Extensible = {m2}
  MaxKeyFrames = 5
  NoFrame = NoFrame

INVARIANTS
  RatioDefined

PROPERTIES
  DrawExact
  EvaluateExact
