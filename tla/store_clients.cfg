SPECIFICATION Spec
CONSTANTS
  p1 = p1
  p2 = p2
  p3 = p3
  a = a
  b = b
  c = c
  d = d
  t1 = t1
  t2 = t2
  t3 = t3
  h1 = h1
  h2 = h2
  Torn = torn
  Missing = missing
  NoIno = noino
  Text = {t1, t2, t3}
  LeadText = {}
  Heading = {h1}
  Proc = {p1, p2, p3}
  Path = {a, b, c, d}
  Ino = {1, 2, 3, 4, 5, 6, 7, 8, 9, 10}
  Home <- HomeInode
  Fresh <- Lowest
  Ops <- MixedOps
  Scope <- MixedScope
  InitContents <- MixedInit
  Faults = {"io", "crash"}
  Tearing = {a, b}
VIEW Live
SYMMETRY Interchangeable
PROPERTIES
  ImplementsAtomicStore
  AppendsOnlyGrow
