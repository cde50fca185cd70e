\* One worker; the sums of its payments are rounded to one digit.
CONSTANTS
  u = u
  v = v
  shop = shop
  bank = bank
  a = a
  m = m
  coin = coin
  point = point
  login = login
  order = order
  limit = limit
  c1 = c1
  c2 = c2
  Redis = Redis
  NoSignature = NoSignature
  None = None
  ChallengeIds <- MCChallengeIds
  Workers = {u}
  Audiences <- MCAudiences
  AudienceOf <- MCAudienceOfU
  PurposeOf <- MCPurposeOfU
  Purposes <- MCPurposes
  Addresses <- MCAddresses
  Assets <- MCAssets
  Extensions <- MCExtensions
  PowersOfTen <- MCPowersOfTen
  ExactBelow = 10
  HeldBy <- MCHeldBy
  Adjusted = {}
  Agents = {a}
  Impostors = {m}
  Amounts <- MCAmounts
  Leeway = 1
  TTL = 1
  MaxAhead = 1
  MaxTime = 0
SPECIFICATION Spec
PROPERTY
  NeverSpendsMore
