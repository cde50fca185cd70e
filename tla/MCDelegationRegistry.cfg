\* Two grants, two recalls, three instants; both snapshot formats.
CONSTANTS
  o = o
  p = p
  a = a
  pay = pay
  device = device
  limit = limit
  NoSignature = NoSignature
  None = None
  DEVICE_SCOPE = device
  Addresses <- MCAddresses
  Scopes <- MCScopes
  Extensions <- MCExtensions
  OrdinaryGrants <- MCOrdinaryGrants
  DeviceGrants <- MCDeviceGrants
  ClockAhead <- MCClockAhead
  Recallers <- MCAddresses
  Leeway = 1
  Understood <- MCExtensions
  Versions = {1, 2}
  MaxTime = 2
  MaxGrants = 2
  MaxRecalls = 2
  MaxLinks = 2
SPECIFICATION Spec
INVARIANTS
  TypeOK
  KeyRecallsAreEntitled
  OwnerCanAlwaysRecall
  PersistedIsInForce
  HonestGrantsStand
