\* Three concurrent requests; no bound is needed, every run is finite.
SPECIFICATION FairSpec
CONSTANTS
  Payme = {payme}
  Click = {click}
  Card = {card}
  OrderTx = {first, second}
  PaidOrder = {gift}
  PaysFor <- MCPaysFor
  Handler = {h1, h2, h3}
  NoTx = NoTx
INVARIANTS
  TypeOK
  PerformedIsCredited
  ReversedOnce
  
PROPERTIES
  ImplementsAtomicPayments
  CreditedIsClosed
CHECK_DEADLOCK FALSE
