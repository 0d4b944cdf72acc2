SPECIFICATION FairSpec
CONSTANTS
  Events = {e1, e2}
  TelemetryOnly = {e1}
  Producers = {p1}
  Workers = {w1}
  Closers = {c1, c2}
  HooksGiven = {"redactEvent", "redact"}
  Managers = {m1}
  Exporters = {x1}
  QueueSize = 1
  MaxRetries = 1
  None = None
PROPERTIES
  AcceptedIsSettled
  PublishReturns
  ShutdownTerminates
  WorkersStop
  ImplementsDelivery
