SPECIFICATION Spec
CONSTANTS
  d1 = d1
  d2 = d2
  w1 = w1
  Deliveries <- TwoDeliveries
  Sent <- SomeDeliveries
  Workers <- OneWorker
  Capacity = 1
  MaxNews = 3
CHECK_DEADLOCK FALSE
INVARIANTS
  DrainWaits
