SPECIFICATION Spec
CONSTANTS
  m1 = m1
  a3 = a3
  People = {1, 2, 3}
  Sign <- SignOf
  Contacts = {m1, a3}
  Owner <- OwnerOf
  FirstMemberships <- OnFile
  Limits = {1, 2}
  Offsets = {0, 1}
  DefaultLimit = 2
  MaxLimit = 2
  PrintLimit = 3
  ChangeLimit = 3
CHECK_DEADLOCK FALSE
INVARIANT PagesAddUp
PROPERTY NothingWithheldIsShown
