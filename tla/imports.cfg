SPECIFICATION ImportSpec
CONSTANTS
  KnownLifetime = {"e4"}
  IsoDates = {"2024-12-31", "2025-12-31"}
  u1 = u1
  u2 = u2
  Keys = {u1, u2}
  FileOf <- Rosters
  Sent <- RulingsSent
  FirstPersons <- OnFile
  FirstMemberships <- Enrolled
  FirstContacts <- Addresses
  FirstLinks <- OnRoster
  InHand = {2}
  RunLimit = 2
  CallLimit = 2
  DecisionLimit = 1
  PersonLimit = 3
  EditLimit = 1
CHECK_DEADLOCK FALSE
INVARIANTS LandsOnce NothingLandsUnruled NothingIsDoubled
PROPERTY ClosedRunsStayClosed
