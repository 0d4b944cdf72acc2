SPECIFICATION Spec
CONSTANTS
  Events = {e1, e2}
  TelemetryOnly = {e1}
  Producers = {p1, p2}
  Workers = {w1, w2}
  Closers = {c1}
  HooksGiven = {"redactEvent", "redact"}
  Managers = {m1, m2}
  Exporters = {x1}
  QueueSize = 1
  MaxRetries = 1
  None = None
INVARIANT
  EveryExportAwaited
