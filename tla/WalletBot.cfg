\* Requests that loaded the User object before locking its row.
SPECIFICATION Spec
CONSTANTS
  ann = ann
  bob = bob
  cyd = cyd
  User <- MCUser
  Session = {s1, s2, s3}
  Ref <- MCRef
  Plans <- MCBotPlans
  Opening <- MCOpening
  NoSession = NoSession
  NotLoaded = NotLoaded
  NoRow = NoRow
  NoRef = NoRef
INVARIANTS
  NoLostUpdate
CHECK_DEADLOCK FALSE
