SPECIFICATION Spec
CONSTANTS
  Unit = 50000
  LongPress = 5000000
  ClaimedUs = 5000000
  MaxSince = 100
PROPERTY LongPressTakes5s
