SPECIFICATION Spec
CONSTANTS
  Servers = {s1, s2}
  Redacting = {s1}
  Configuring = {s1, s2}
  Exporting = {s1, s2}
  Tracks = {t1, t2}
  Closers = {c1, c2}
  Events = {e1, e2}
  Publishers = {p1, p2, p3}
  None = None
SYMMETRY MCSymmetry
INVARIANT
  OptionsHonoured
