CONSTANTS
  Event = {v1}
  Endpoint = {e1}
  Delivery = {d1}
  Worker = {w1}
  Replayer = {}
  Relay = {p1}
  Nothing = Nothing
  MaximumAttempts = 2
  MaxStalledCount = 1
  PublishBound = 4
  FaultBound = 1
SPECIFICATION FairSpec
PROPERTY ClaimedDeliveryEnds
CHECK_DEADLOCK FALSE
