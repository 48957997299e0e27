SPECIFICATION Spec
CONSTANTS
  Run = {r1, r2}
  Env = {"test", "prod"}
  Defines = {"prod"}
  Explicit <- Asked
  Unparsed = stamp
  Projects = 2
SYMMETRY Runs
INVARIANTS
  RecordFaithful
  TargetVariablesKept
PROPERTIES
  BumpIsFresh
CHECK_DEADLOCK FALSE
