SPECIFICATION FairSpec
CONSTANTS
  f1 = f1
  f2 = f2
  f3 = f3
  m1 = m1
  Clients = {f1, m1}
  Hurried = {f1}
  None = None
  ClassOrder <- TwoClasses
  ClassOf <- Mixed
  Weight <- TwoToOne
  Reserved <- OneEach
  Limit = 3
  MaxFaults = 2
PROPERTIES
  CallersAnswered
  CloseAnswered
