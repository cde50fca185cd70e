\* Two verifiers that may load each other's snapshots.
CONSTANTS
  a = a
  b = b
  t = t
  v1 = v1
  v2 = v2
  NoSignature = NoSignature
  None = None
  Addresses <- MCAddresses
  Times <- MCTimes
  MaxSequence = 2
  Identities <- MCAddresses
  Verifiers <- TwoVerifiers
  Presented <- MCPresented
  Versions <- CurrentFormat
  Sources <- AnySnapshot
SPECIFICATION Spec
PROPERTY
  RestoreIsAdditive
