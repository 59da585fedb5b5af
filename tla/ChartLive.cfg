SPECIFICATION FairSpec
CONSTANTS
  h1 = h1
  h2 = h2
  s1 = s1
  s2 = s2
  p = p
  m = m
  d1 = d1
  d2 = d2
  NoRecord = NoRecord
  Host <- OneHost
  Body <- OneBody
  BodyOf <- RunsP
  Draft <- OneDraft
  Session <- TwoSessions
  Identity <- OneIdentity
  IdentityOf <- Shared
  HostOf <- OnFirstHost
  MaxRetries = 2
PROPERTIES RegistrationEnds SessionHeals ClosedGoesDark
