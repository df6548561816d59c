SPECIFICATION Spec
CONSTANTS
  email = email
  ta = ta
  People = {1}
  Kinds = {email}
  Texts = {ta, tb}
  NoText = NoText
  Calls = {}
  FirstPersons <- OnePerson
  FirstContacts <- OneContact
  Users = {u1}
  NoUser = NoUser
  Intakes <- Preferences
  Keys = {k1, k2}
  RequestLimit = 1
  RequestVersionLimit = 4
  PersonVersionLimit = 1
  ContactLimit = 1
  ContactVersionLimit = 0
  EventLimit = 2
SYMMETRY Symmetry
CHECK_DEADLOCK FALSE
INVARIANT AppliedExactlyOnce
