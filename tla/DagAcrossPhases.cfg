SPECIFICATION ExpandSpec
CONSTANTS
  Name <- MCName
  Template <- MCTemplate
  Sources <- AcrossPhases
INVARIANTS
  AcceptsNeedsAcrossPhases
