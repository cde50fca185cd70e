\* One verifier, the snapshot format of this release, its own snapshots.
CONSTANTS
  a = a
  b = b
  t = t
  v1 = v1
  v2 = v2
  NoSignature = NoSignature
  None = None
  Addresses <- MCAddresses
  Times <- MCTimes
  MaxSequence = 2
  Identities <- MCAddresses
  Verifiers <- OneVerifier
  Presented <- MCPresented
  Versions <- CurrentFormat
  Sources <- OwnSnapshots
SPECIFICATION Spec
PROPERTY
  CompromisedNeverAdvances
