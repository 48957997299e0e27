SPECIFICATION Spec
CONSTANTS
  Step <- ForkStep
  Name <- ForkStep
  NameOf <- ForkNameOf
  PhaseOf <- ForkPhaseOf
  Needs <- ForkNeeds
  Roles <- ForkRoles
  Unregistered = {}
  Conditional = {}
  Unresolvable = {}
  Stateful = {"d1", "d2"}
  Target = {"h1", "h2"}
INVARIANTS
  RollbackSeesSavedData
