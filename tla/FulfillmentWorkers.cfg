\* Two workers and the administrators, three crashes, the production retry
\* budgets.
SPECIFICATION FairSpec
CONSTANTS
  Worker = {w1, w2}
  Retry = {}
  Remedy = {}
  Direct = {}
  Desk = {"transition", "refund", "mark-fulfilled"}
  AutoBuy = {TRUE, FALSE}
  CircuitOpen = {TRUE, FALSE}
  MaxAttempts = 3
  MaxRetries = 5
  LeaseHolds = TRUE
  MaxCrashes = 3
  MaxDesk = 3
  Nothing = Nothing
INVARIANTS
  OneDeliveryPerRecord
PROPERTIES
  NoSendAfterFiling
  EventSettles
  ExhaustedIsFiled
CHECK_DEADLOCK FALSE
