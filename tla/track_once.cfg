SPECIFICATION ProcessSpec
CONSTANTS
  Servers = {s1, s2, s3}
  Official = {s3}
  Hooks = {h1, h2}
  Addresses = {a1, a2}
  Tracks = {t1, t2}
  None = None
  Starters = {st1}
  MaxBuffer = 2
  Events = {e1, e2}
  Failed = {}
  e1 = e1
  e2 = e2
  Configs <- MCConfigs
  Loads <- MCLoads
  Sources <- MCSources
  Settings <- MCSettings
SYMMETRY MCSymmetry
CHECK_DEADLOCK FALSE
INVARIANT TrackedOnce
