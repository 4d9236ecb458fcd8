SPECIFICATION FairSpec
CONSTANTS
  Unit = 50000
  LongPress = 5000000
  ClaimedUs = 5000000
  MaxSince = 40
INVARIANTS TypeOK Listening
PROPERTIES OneEffectPerPress LongPressOwnTime ListensAgain
