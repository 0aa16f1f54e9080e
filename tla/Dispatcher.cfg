SPECIFICATION FairSpec
CONSTANTS
  s1 = s1
  Deliveries = {d1, d2}
  Sinks = {s1}
  SinkOf <- OneSink
  Workers = {w1, w2}
  NoOne = NoOne
  Gone = Gone
  MaxAttempts = 2
  Threshold = 1
  BatchSize = 2
  MaxFaults = 1
  MaxRedrives = 1
CHECK_DEADLOCK FALSE
INVARIANTS
  SendsAccounted
PROPERTIES
  ImplementsOutbox
  EveryDeliverySettles
