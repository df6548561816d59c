SPECIFICATION Spec
CONSTANTS
  email = email
  ta = ta
  People = {1}
  Kinds = {email}
  Texts = {ta}
  NoText = NoText
  Calls = {}
  FirstPersons <- OnePerson
  FirstContacts <- OneContact
  Users = {u1, u2}
  NoUser = NoUser
  Intakes <- Rewrites
  Keys = {k1}
  RequestLimit = 1
  RequestVersionLimit = 4
  PersonVersionLimit = 2
  ContactLimit = 2
  ContactVersionLimit = 3
  EventLimit = 0
SYMMETRY Symmetry
CHECK_DEADLOCK FALSE
INVARIANTS TypeOK StatusTellsProgress NothingNamedIsLost
PROPERTIES DecisionsAreFinal ResolvedIsFinal MovedTargetIsRefused
