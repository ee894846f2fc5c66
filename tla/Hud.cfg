\* Two huds, one below the other, over frames whose switches and costs vary,
\* frames drawn again, updates and exports that fail.
SPECIFICATION Spec

CONSTANTS
  root = root  g1 = g1  s1 = s1  h1 = h1  h2 = h2  c1 = c1  f1 = f1
  r1 = r1  r2 = r2  k1 = k1  tex = tex  med = med  buf = buf  vtx = vtx  blk = blk
  Node = {root, g1, s1, h1, h2, c1, f1, r1, r2, k1, tex, med, buf, vtx, blk}
  Kind <- KindOf
  Kids <- KidsOf
  Root = root
  DataSize <- SizeOf
  InBlock = {vtx}
  InPass = {buf, blk}
  Window <- WindowOf
  Interval <- IntervalOf
  Aspects <- Ratios
  Exported = {h1, h2}
  UpdateMayFail = {k1}
  TextCols <- Cols
  TextRows <- Rows
  GraphW <- Width
  GraphH <- Height
  FontW = 1
  FontH = 1
  Time = {0, 1, 2}
  Cost = {1, 3}
  MaxAgain = 1
  None = None

INVARIANTS
  LatenciesAddUp
  GraphsStayInside
  LinesAreOfTheFrame
