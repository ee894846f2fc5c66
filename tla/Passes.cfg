\* Three passes that share nodes; frames in any order of the times, failing
\* inits and updates, live changes, changes of scene and of context.
SPECIFICATION Spec

CONSTANTS
  c = c  p1 = p1  p2 = p2  u = u  a = a  ab = ab  s = s  v = v  w = w
  b1 = b1  b2 = b2  wb = wb  x = x  k = k  g = g
  Uniform = {u}
  Animated = {a, ab}
  Streamed = {s}
  Static = {v, w}
  Block = {b1, b2}
  Fields <- BlockFields
  Buffer = {ab, v, w}
  BlockOf <- BufferBlock
  Timestamps <- Stamps
  Time = {0, 1, 2}
  Pass = {c, p1, p2}
  Compute = {c}
  Order <- PassOrder
  Scenes = {{}, {c, p1, p2}, {p1, p2}, {c, p2}}
  Actives = {{c, p1, p2}, {c, p1}, {c, p2}, {p2}}
  Param <- Params
  Shader <- Shaders
  Writes <- ComputeWrites
  Texture = {x}
  NativeLayout <- Native
  Direct = {x}
  Program = {k, g}
  Default = Default
  InitMayFail = {"program", "attributes", "textures", "pipeline"}
  UpdateMayFail = {s}
  MaxLive = 1

INVARIANTS
  BuffersCounted
  ReadsAreCurrent
  StoresKept
  ProgramIsInUse
