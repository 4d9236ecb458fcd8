SPECIFICATION OnboardingSpec
CONSTANTS
  Channels = {1, 2, 3}
  MaxHops = 6
  Length = 3
  Wrap = 3
  p1 = p1
  p2 = p2
  k = k
  Phones <- MCPhones
  Airkiss = {k}
  Listed = {p1, k}
  Home <- MCHome
  Leaks <- MCLeaks
  UdpTimes = 3
  ApTimes = 5
INVARIANTS OnboardingTypeOK StaysOnChannel CompleteWhenCounted AckedIsKept QuietAfterAck
PROPERTIES EnrolsAsPromised ListeningEnds AnnouncingEnds
CHECK_DEADLOCK FALSE
