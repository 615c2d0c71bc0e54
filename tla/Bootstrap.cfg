SPECIFICATION BootSpec
CONSTANTS
  Absent = Absent
  Process = {"api", "bot", "worker"}
  History <- MCHistory
  Stage = {TRUE, FALSE}
  MaxStops = 3
  MaxEdits = 2
INVARIANTS ServesOnHead
PROPERTIES  EveryoneServes
CHECK_DEADLOCK FALSE
