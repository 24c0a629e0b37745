SPECIFICATION Spec
CHECK_DEADLOCK FALSE
CONSTANTS
  m1 = m1
  m2 = m2
  None = None
  Msgs <- MCMsgs
  Qos <- MCQos
  MaxConns = 2
INVARIANTS
  ExactlyOnce
