SPECIFICATION ExpandSpec
CONSTANTS
  Name <- MCName
  Template <- MCTemplate
  Sources <- AllSources
INVARIANTS
  OrderAsWritten
  AcceptsWellFormed
