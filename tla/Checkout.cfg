\* Three concurrent checkouts.
SPECIFICATION FairSpec
CONSTANTS
  ann = ann
  bob = bob
  key = key
  fixed = fixed
  other = other
  off = off
  bonus = bonus
  free = free
  Request = {r1, r2, r3}
  User = {ann, bob}
  Key = {key}
  PriceLock = {fixed, other}
  Code = {off, bonus, free}
  BonusCode = {bonus}
  Plans <- MCPlans
  Referrer <- MCReferrer
  Price = 2
  Benefit <- MCBenefit
  MaxUses <- MCMaxUses
  MaxPerUser <- MCMaxPerUser
  Opening <- MCOpening
  None = None
INVARIANTS
  TypeOK
  CodesWithinLimits
  OneOrderPerKey
PROPERTIES
  EveryCheckoutEnds
  
CHECK_DEADLOCK FALSE
