SPECIFICATION FairSpec
CONSTANTS
  p1 = p1
  p2 = p2
  c1 = c1
  Free = Free
  Ghost = Ghost
  NoMsg = NoMsg
  Proc = {p1, p2}
  Msg = {1, 2}
  Conv = {c1}
  ConvOf <- OneConv
  Retries = 1
  MaxRuns = 3
  MaxFaults = 1
  MaxExpired = 1
INVARIANTS SerialTurns TurnIsNew ReplyAgrees ResumesLatest
PROPERTIES ReleaseOwn EventuallyAcked
CHECK_DEADLOCK FALSE
