SPECIFICATION FairSpec
CONSTANTS
  Step <- WideStep
  Name <- WideStep
  NameOf <- WideNameOf
  PhaseOf <- WidePhaseOf
  Needs <- WideNeeds
  Roles <- WideRoles
  Unregistered = {"y"}
  Conditional = {"z", "d1"}
  Unresolvable = {"z"}
  Stateful = {"d1", "d2"}
  Target = {"h1", "h2"}
INVARIANTS
  StartsAfterUpstream
  OutcomeFaithful
  DeadTargetsExcluded
  RollbackComplete
PROPERTIES
  ImplementsSaga
  Terminates
  FailureReported
