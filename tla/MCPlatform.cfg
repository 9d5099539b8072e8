SPECIFICATION SuiteSpec
CONSTANTS
  MaxUpdates = 3
  MaxFaults = 3
INVARIANTS
  
  CommitMessageHolds
  
  
  AccountCallsHold
  

  
CHECK_DEADLOCK FALSE
