SPECIFICATION SuggestionSpec
CONSTANTS
  email = email
  ta = ta
  u1 = u1
  People = {1, 2}
  Kinds = {email}
  Texts = {ta, tb}
  NoText = NoText
  Calls = {}
  FirstPersons <- Enrolled
  FirstContacts <- TwoContacts
  Users = {u1}
  NoUser = NoUser
  Intakes = {}
  Keys <- PostedForms
  Own <- OwnOne
  NoForm = NoForm
  Listable = {email}
  Listed = ta
  Hidden = tb
  ListedByDefault = TRUE
  SendLimit = 1
  RequestLimit = 1
  RequestVersionLimit = 1
  PersonVersionLimit = 1
  ContactLimit = 2
  ContactVersionLimit = 2
  EventLimit = 1
CHECK_DEADLOCK FALSE
INVARIANT SuggestionsStayAtHome
