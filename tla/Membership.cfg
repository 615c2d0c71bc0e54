CONSTANTS
  None = None
  guest = guest
  owner = owner
  news = news
  club = club
  v1 = v1
  v2 = v2
  Person = {guest, owner}
  Visit = {v1, v2}
  Chat = {news, club}
  Public = {news}
  Group = {news}
  Owner = {owner}
  Roles = {"support_admin"}
  Forms <- MCForms
  ReqTypes = {"ordinary", "join_request"}
  Movers = {guest}
  Registered = {owner}
  MaxVisits = 2
  MaxEdits = 2
  MaxMoves = 2
  MaxRows = 2
SYMMETRY Visitors
SPECIFICATION Spec
INVARIANTS GateStopsOutsiders GateAdmitsMembers
CHECK_DEADLOCK FALSE
