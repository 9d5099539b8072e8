SPECIFICATION SuiteSpec
CONSTANTS
  Starter = {"s1", "s2"}
  Courier = {"c1"}
  EventOf <- Events
  None = NoRun
  MaxSeq = 4
  Payload = {a, b}
  NoRun = NoRun
INVARIANTS
  RunningIsCurrent
  NoMissedRelease
  HandledInOrder
  NothingStuckOrLost
  FirstCopyWins
  CheckpointsHold
  ResultsFit
PROPERTIES
  ImplementsMailbox
  RoutesAreKept
  ModelsAreObeyed
CHECK_DEADLOCK FALSE
