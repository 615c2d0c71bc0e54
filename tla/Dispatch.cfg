SPECIFICATION Spec
CONSTANTS
  None = None
  topup = topup
  request = request
  notice = notice
  later = later
  Queue <- MCQueue
  Kind <- MCKind
  Call = {c1}
  BatchLimit = 3
  Threshold = 2
  Cooldown = 2
  ProbeGap = 1
  MaxAttempts = 2
  MaxRetries = 3
  MaxErrors = 1
  MaxCrashes = 1
INVARIANTS ToldPerRecord
PROPERTIES ProbesSpaced EveryEventSettles
CHECK_DEADLOCK FALSE
