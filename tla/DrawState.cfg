\* Scenes of configs, rtts, transforms, a camera and huds, with failures of
\* the rendertargets, resizes and changes of scene and of context.
SPECIFICATION Spec

CONSTANTS
  r = r  r1 = r1  r2 = r2  r3 = r3  g1 = g1  g2 = g2  c1 = c1  c2 = c2  c3 = c3
  f1 = f1  f2 = f2  m1 = m1  m2 = m2  k1 = k1  h1 = h1  h2 = h2  tex = tex
  Node = {r, r1, r2, r3, g1, g2, c1, c2, c3, f1, f2, m1, m2, k1, h1, h2}
  Kind <- KindOf
  Kids <- KidsOf
  Scenes = {r1, r2, r3}
  Sets <- SetBy
  Multisampled = {f2}
  OwnClear = {f1}
  EyeChain <- Chain
  Animated = {m1}
  Media = {tex}
  Size = {2, 3}
  Time = {0, 1}
  Gles = TRUE
  Context = Context
  None = None

INVARIANTS
  StateFollowsPath
  ContextKnowsGL

PROPERTIES
  DrawnAsAsked
  FrameIsWhole
