SPECIFICATION RecordsSpec
CONSTANTS
  email = email
  phone = phone
  ta = ta
  People = {1}
  Kinds = {email, phone}
  Texts = {ta}
  NoText = NoText
  Calls = {c1, c2}
  FirstPersons <- OnePerson
  FirstContacts <- TwoContacts
  PersonVersionLimit = 2
  ContactLimit = 3
  ContactVersionLimit = 4
  EventLimit = 1
CHECK_DEADLOCK FALSE
INVARIANT OnePrimaryPerCall
