SPECIFICATION FairSpec
CONSTANTS
  User = {u1, u2}
  Host = {h1, h2}
  Conn = {c1, c2}
  NoConn = NoConn
  NoUser = NoUser
INVARIANTS
  OpenAreAccounted
PROPERTIES
  WorkingStayOpen
  CommandsEnd
