SPECIFICATION SuiteSpec
CONSTANTS
  Requests = {1, 2, 3}
  MaxLosses = 3

  
  
  
  
PROPERTIES
  
  WindowIsRespected
CHECK_DEADLOCK FALSE
