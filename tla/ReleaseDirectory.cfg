SPECIFICATION Spec
CONSTANTS
  Version = {1, 2, 3}
  Keep = 1
  Retries = 1
  NoLink = NoLink
  RealDir = RealDir
INVARIANTS
  SuccessIsLive
PROPERTIES
  LiveStaysComplete
  NewestAreKept
