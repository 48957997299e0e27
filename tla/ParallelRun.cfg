SPECIFICATION FairSpec
CONSTANTS
  Target = {t1, t2, t3}
  Settings <- MixedSettings
INVARIANTS
  BatchRespected
  DeadOnlyAfterRetries
  NilMeansCovered
  ToleranceRespected
PROPERTIES
  Returns
