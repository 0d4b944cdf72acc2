SPECIFICATION PipelineSpec
CONSTANTS
  Sources <- MCSources
  Settings <- MCSettings
CHECK_DEADLOCK FALSE
INVARIANT RedactionReachesEverything
