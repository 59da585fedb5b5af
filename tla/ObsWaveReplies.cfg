SPECIFICATION Spec
CONSTANTS
  a = a
  b = b
  d = d
  g = g
  u = u
  r1 = r1
  r2 = r2
  c1 = c1
  Broadcast = Broadcast
  NoOne = NoOne
  Root = {r1, r2}
  Conv = {c1}
  Body <- ThreeBodies
  Guest <- MCGuest
  Known = {g}
  Running <- ThreeBodies
  Ceiling = 2
  RatePerWindow = 6
  ReadCount = 10
  Origin <- SolicitingWave
  Control <- Answer
  Budgets <- NoFault
INVARIANT AnswersCollected
