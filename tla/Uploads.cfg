\* Two textures of one media or of one each, on four platforms; the init, the
\* map and the conversion may fail where the frame is not lost with them.
SPECIFICATION Spec

CONSTANTS
  x1 = x1  x2 = x2  m1 = m1  m2 = m2
  Tex = {x1, x2}
  Media = {m1, m2}
  NoTex = NoTex
  Frame <- AllFrames
  NoFrame = NoFrame
  KindOf <- FrameKinds
  DataSrcs <- Sources
  Streams <- Platforms
  InitMayFail = {"common", "vaapi", "vt_ios"}
  HalfInitMayFail = {}
  MapMayFail = {"vaapi", "vt_ios"}
  ConvMayFail = {"vaapi"}

INVARIANTS
  FrameConserved
  TextureConserved
  ImageBacked
  ImageIsLatest
