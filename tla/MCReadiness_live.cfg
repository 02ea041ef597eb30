CONSTANTS
  w1 = w1
  w2 = w2
  t1 = t1
  Waiter = {w1, w2}
  Token = {t1}
  NoToken = NoToken
  Nobody = Nobody
  MaxRuns = 2
  MaxRestarts = 0
  Cancels = FALSE
SPECIFICATION FairServerSpec
PROPERTIES
  QueryReturns
CHECK_DEADLOCK FALSE
