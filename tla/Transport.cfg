SPECIFICATION TransportSpec
CONSTANTS
  p1 = p1
  p2 = p2
  s1 = s1
  s2 = s2
  d1 = d1
  d2 = d2
  c1 = c1
  c2 = c2
  Post = {p1, p2}
  Kind <- AnyAction
  Stream = {s1, s2}
INVARIANTS
  AdmittedIsHandled
  SealedHasNoReader
  TerminalFrames
CHECK_DEADLOCK FALSE
