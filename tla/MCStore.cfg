SPECIFICATION SuiteSpec
CONSTANTS
  u1 = u1
  u2 = u2
  v1 = v1
  v2 = v2
  w1 = w1
  w2 = w2
  t = t
  bg = bg
  p = p
  None = None
  Run = {u1, u2}
  NoRun = NoRun
  Call = {t}
  ExternalId = {v1, v2}
  Body = {w1, w2}
  MaxCheckpoints = 3
  MaxProviderCalls = 1
SYMMETRY Symmetry
INVARIANTS
  OwnerRunsAtHead
  LoadedIsDigest
  NoMessageTwice
  RoundsAreAnswered
  
PROPERTIES
  EndedRunIsFinal
CHECK_DEADLOCK FALSE
