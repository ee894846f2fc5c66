\* A key frame is reset with another animation that was detached.
SPECIFICATION AnimationSpec

CONSTANTS
  m1 = m1  m2 = m2  k1 = k1  k2 = k2  k3 = k3  k4 = k4
  Anim = {m1, m2}
  NoAnim = NoAnim
  KeyFrame = {k1, k2, k3, k4}
  TimeOf <- Times
  InitAnimkf <- Overlapping
  Time = {0, 1, 2, 3, 4, 5, 6}
  Evaluable = {m1, m2}
  Extensible = {}
  MaxKeyFrames = 0
  NoFrame = NoFrame

INVARIANTS
  FunctionsAreSet
