SPECIFICATION FairSpec
CONSTANTS
  InformPeriod = 4
  SamplingPeriod = 2
  RpcDelay = 1
  Updates = TRUE
  MaxSessions = 2
  MaxOrders = 2
INVARIANTS TypeOK ArmedIsOwed HistoryFits RelayAgrees
PROPERTIES CommandContract CommandCarriedOut SamplesDelivered
