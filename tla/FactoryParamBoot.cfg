SPECIFICATION Spec
CONSTANTS
  v1 = v1
  v2 = v2
  Erased = Erased
  Garbage = Garbage
  Order <- MCOrder
  JidField = "xmpp_jid"
  IdField = "device_id"
  Values <- MCValues
  MaxSaves = 2
INVARIANTS TypeOK OneIdentity
