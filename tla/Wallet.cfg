\* Three concurrent sessions over the referral chain.
SPECIFICATION FairSpec
CONSTANTS
  ann = ann
  bob = bob
  cyd = cyd
  User <- MCUser
  Session = {s1, s2, s3}
  Ref <- MCRef
  Plans <- MCPlans
  Opening <- MCOpening
  NoSession = NoSession
  NotLoaded = NotLoaded
  NoRow = NoRow
  NoRef = NoRef
INVARIANTS
  TypeOK
  LedgerChained
  ReferencePostedOnce
  AllOrNothing
PROPERTIES
  EverySessionEnds
  ImplementsAtomicLedger
CHECK_DEADLOCK FALSE
