SPECIFICATION Spec
CONSTANTS
  ip1 = ip1
  ip2 = ip2
  ip3 = ip3
  r1 = r1
  r2 = r2
  r3 = r3
  r4 = r4
  Ip <- MCIp
  Record <- MCRecord
  Page = 2
  Order <- MCOrder
  Needs <- MCNeeds
  Unregistered = {"odd"}
  Conditional = {"web"}
  DnsStep = "dns"
  Strict = {"app"}
SYMMETRY Interchangeable
INVARIANTS
  EnsuredCovers
  NeededOutlivesNeedy
  CompletedMeansUninstalled
PROPERTIES
  CloudflareKeepsResolving
  OnlyWrongRemoved
