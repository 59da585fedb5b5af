SPECIFICATION Spec
CONSTANTS
  a = a
  b = b
  q1 = q1
  q2 = q2
  q3 = q3
  q4 = q4
  Body <- TwoBodies
  Request <- FourRequests
  Workers = 3
SYMMETRY Symmetric
INVARIANTS OneStraggler AuditReconstructs
PROPERTY ResumeKeepsKill
