\* One worker, a retry from the API, a purchase through the bot and the
\* administrators, with one crash: safety whatever interleaves.
SPECIFICATION Spec
CONSTANTS
  Worker = {w1}
  Retry = {}
  Remedy = {rem}
  Direct = {bot}
  Desk = {"transition", "refund", "mark-fulfilled"}
  AutoBuy = {TRUE, FALSE}
  CircuitOpen = {TRUE, FALSE}
  MaxAttempts = 1
  MaxRetries = 2
  LeaseHolds = FALSE
  MaxCrashes = 1
  MaxDesk = 2
  Nothing = Nothing
INVARIANTS
  TypeOK
  NoPaidOrderForgotten
  CompletedMeansDelivered
  RefundedOnce
CHECK_DEADLOCK FALSE
