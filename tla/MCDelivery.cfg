SPECIFICATION SuiteSpec
CONSTANTS
  d1 = d1
  d2 = d2
  c1 = c1
  c2 = c2
  c3 = c3
  Delivery = {d1, d2}
  MessageOf <- EachItsOwn
  Path <- UserAndBackground
  MaxRounds = 2
  CallsOf <- Fresh
INVARIANTS
  
  CommitFindsRound
  SentIsHeld
  ClosedIsDrained
  
  ContextIsCurrent
CHECK_DEADLOCK FALSE
