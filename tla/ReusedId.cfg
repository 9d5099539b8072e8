SPECIFICATION DeliverySpec
CONSTANTS
  d1 = d1
  d2 = d2
  c1 = c1
  c2 = c2
  c3 = c3
  Delivery = {d1}
  MessageOf <- EachItsOwn
  Path <- AllInject
  MaxRounds = 2
  CallsOf <- Reused
PROPERTIES
  RoundEnds
CHECK_DEADLOCK FALSE
