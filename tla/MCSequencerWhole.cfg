SPECIFICATION Spec
CHECK_DEADLOCK FALSE
CONSTANTS
  c1 = c1
  big = big
  small = small
  other = other
  DISCONNECT = DISCONNECT
  Conns <- MCConns
  Initiators <- MCInitiators
  Msgs <- MCMsgs
  ConnOf <- MCConnOf
  Steps <- MCSteps
  MaxTorn = 0
INVARIANTS
  WholeMessages
