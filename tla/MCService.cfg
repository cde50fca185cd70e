\* Two challenges, two services, both kinds of store.
CONSTANTS
  u = u
  v = v
  shop = shop
  bank = bank
  a = a
  m = m
  coin = coin
  point = point
  login = login
  order = order
  limit = limit
  c1 = c1
  c2 = c2
  Redis = Redis
  NoSignature = NoSignature
  None = None
  ChallengeIds <- MCChallengeIds
  Workers <- MCWorkers
  Audiences <- MCAudiences
  AudienceOf <- MCAudienceOf
  PurposeOf <- MCPurposeOf
  Purposes <- MCPurposes
  Addresses <- MCAddresses
  Assets <- MCAssets
  Extensions <- MCExtensions
  PowersOfTen <- MCPowersOfTen
  ExactBelow = 10
  HeldBy <- MCHeldBy
  Adjusted = {u}
  Agents = {a}
  Impostors = {m}
  Amounts <- MCAmounts
  Leeway = 1
  TTL = 1
  MaxAhead = 1
  MaxTime = 3
SYMMETRY MCSymmetry
SPECIFICATION Spec
INVARIANTS
  TypeOK
  AcceptedIsMeant
PROPERTIES
  AcceptedInTime
  SealedForProven
  PaidWithinEveryCap
  RefinesOnceStore
