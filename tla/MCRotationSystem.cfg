\* One owner with five key pairs to draw, one verifier, both snapshot formats.
CONSTANTS
  k1 = k1
  k2 = k2
  k3 = k3
  k4 = k4
  k5 = k5
  t = t
  v1 = v1
  v2 = v2
  NoSignature = NoSignature
  None = None
  Addresses <- FiveAddresses
  Times <- MCTimes
  MaxSequence = 2
  Identities <- OneIdentity
  Verifiers <- OneVerifier
  Presented <- NoFixedChains
  Versions <- BothFormats
  Sources <- OwnSnapshots
  Genesis <- FirstKeys
SPECIFICATION FairSystemSpec
INVARIANTS
  HonestNeverBranded
  SuccessionSurvives
  OwnerCanAlwaysRotate
PROPERTY
  VerifiersFollow
