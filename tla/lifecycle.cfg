SPECIFICATION Spec
CONSTANTS
  Servers = {s1, s2}
  Redacting = {}
  Configuring = {s1, s2}
  Exporting = {s1}
  Tracks = {t1, t2}
  Closers = {c1, c2}
  Events = {e1, e2}
  Publishers = {p1, p2, p3}
  None = None
SYMMETRY MCSymmetry
INVARIANTS
  TypeOK
  NoOrphanedPublisher
  PublishedUnlessElsewhere
  ExportedAsConfigured
PROPERTIES
  TakenByLivePublisher
  ImplementsDelivery
