\* Two grants, one recall, three instants.
CONSTANTS
  o = o
  p = p
  a = a
  pay = pay
  device = device
  limit = limit
  NoSignature = NoSignature
  None = None
  DEVICE_SCOPE = device
  Addresses <- MCAddresses
  Scopes <- MCScopes
  Extensions <- MCExtensions
  OrdinaryGrants <- MCOrdinaryGrants
  DeviceGrants <- MCDeviceGrants
  ClockAhead <- MCClockAhead
  Recallers <- MCRecallers
  MaxAges <- MCMaxAges
  Leeway = 1
  Understood <- MCExtensions
  Versions = {}
  MaxTime = 2
  MaxGrants = 2
  MaxRecalls = 1
  MaxLinks = 2
SPECIFICATION VerifierSpec
INVARIANTS
  VerifierTypeOK
  AcceptedIsLent
  AcceptedWasAlive
