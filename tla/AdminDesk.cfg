CONSTANTS
  None = None
  Invoice = Invoice
  owner = owner
  service = service
  chatgpt = chatgpt
  buyer = buyer
  Admin = {owner}
  Owner = {owner}
  Order = {service, chatgpt}
  Service = {service, chatgpt}
  Person = {buyer}
  Members = {}
  MaxTexts = 2
  MaxMoves = 2
SYMMETRY Services
SPECIFICATION Spec
INVARIANTS TypeOK TextReachesThoseMeant 
CHECK_DEADLOCK FALSE
