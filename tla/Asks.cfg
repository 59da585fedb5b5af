SPECIFICATION FairSpec
CONSTANTS
  k1 = k1
  q1 = q1
  t1 = t1
  l1 = l1
  l2 = l2
  Bridge = Bridge
  NoQuestion = NoQuestion
  Consult = {k1}
  Asked = {q1}
  Thread = {t1}
  ThreadOf <- OneThread
  Label = {l1, l2}
  Labelling <- SharedOrNot
  TailLen = 3
  MaxFaults = 1
INVARIANTS NotOverlooked AnswerOrTrace WaitIsReached
PROPERTIES PollTellsEnd ConsultEnds
CHECK_DEADLOCK FALSE
