SPECIFICATION Spec
CONSTANTS
  p1 = p1
  p2 = p2
  p3 = p3
  a = a
  b = b
  c = c
  d = d
  t1 = t1
  t2 = t2
  t3 = t3
  h1 = h1
  h2 = h2
  Torn = torn
  Missing = missing
  NoIno = noino
  Text = {t1, t2}
  LeadText = {t2}
  Heading = {h1, h2}
  Proc = {p1, p2}
  Path = {a, b}
  Ino = {1, 2, 3, 4, 5, 6}
  Home <- HomeInode
  Fresh <- Lowest
  Ops <- EveryOp
  Scope <- WholeScope
  InitContents <- AnyInit
  Faults = {"io", "crash"}
  Tearing = {a, b}
VIEW Live
INVARIANTS
  LockedContentStable
  TempsPrivate
PROPERTIES
  LitterOnlyByCrash
  CurrentRewriteIsAtomic
  LinesLostOnlyByRequest
