SPECIFICATION Spec
CONSTANTS
  a = a
  b = b
  d = d
  g = g
  u = u
  r1 = r1
  r2 = r2
  c1 = c1
  Broadcast = Broadcast
  NoOne = NoOne
  Root = {r1, r2}
  Conv = {c1}
  Body <- MCBody
  Guest <- MCGuest
  Known = {g}
  Running <- MCBody
  Ceiling = 2
  RatePerWindow = 2
  ReadCount = 10
  Origin <- TwoQuestions
  Control <- FewControls
  Budgets <- CrashOrDrops
INVARIANTS HorizonHolds NoMessageLost NothingVanishes ReplyDetermined
PROPERTIES LogMonotone KeepsPromise
