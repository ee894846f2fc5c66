\* A media texture is released and prefetched again, and its pass drawn before
\* the media has a frame, or its frames change from one class to another.
SPECIFICATION Spec

CONSTANTS
  p1 = p1  p2 = p2  p3 = p3  p4 = p4  c = c  g = g  h = h  k = k  u = u  v = v  x = x  y = y  z = z  w = w
  b1 = b1  b2 = b2  b3 = b3
  Pipe = {p1, p2, p3, p4, c}
  Compute = {c}
  Scenes = {{p1, p2}, {p2, p3}, {p4}, {c}}
  Prog = {g, h, k}
  ProgramOf <- Programs
  Declares <- Declarations
  Given <- Parameters
  UniformNode = {u, v}
  TypeOf <- Types
  Buffer = {b1, b2, b3}
  Oversized = {}
  Tex = {x, y, z, w}
  Source <- Sources
  TexParams <- Sizes
  DataCount <- Counts
  Frames <- OneFrameOfEach
  MayLackFrame = {x}
  Features <- SomeFeatures
  MaxTextures = 4
  Unit = {0, 1, 2}

INVARIANT
  NoFreedTexture
