SPECIFICATION Spec
CONSTANTS
  Plugin = {"nginx", "systemd", "container", "compose", "backup"}
  Retries = 1
INVARIANTS
  SuccessMeansLive
  OriginalSurvives
  
PROPERTIES
  PushEnds
CHECK_DEADLOCK FALSE
