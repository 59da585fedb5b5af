SPECIFICATION Spec
CONSTANTS
  h1 = h1
  h2 = h2
  s1 = s1
  s2 = s2
  p = p
  m = m
  d1 = d1
  d2 = d2
  NoRecord = NoRecord
  Host <- TwoHosts
  Body <- OneBody
  BodyOf <- RunsP
  Draft <- TwoDrafts
  Session <- OneSession
  Identity <- OneIdentity
  IdentityOf <- Shared
  HostOf <- OnFirstHost
  MaxRetries = 2
SYMMETRY Interchangeable
INVARIANTS TypeOK HoldsItsRecord
PROPERTIES FailClosed
