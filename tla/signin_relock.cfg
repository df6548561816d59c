SPECIFICATION Spec
CONSTANTS
  ann = ann
  Ann = Ann
  p1 = p1
  p2 = p2
  Addresses = {ann}
  Mailbox <- Spelling
  People = {p1, p2}
  Kinds = {"household"}
  Roles = {"member", "officer"}
  Member = "member"
  Officer = "officer"
  NoRole = "none"
  Sources = {home, unknown}
  Unknown = unknown
  home = home
  unknown = unknown
  MaxFailedAttempts = 2
  LockTicks = 2
  SessionTicks = 1
  LinkTicks = 1
  Window = 1
  MaxPerSource = 1
  MaxPerTarget = 1
  CallLimit = 1
  LinkLimit = 1
  RequestLimit = 3
CHECK_DEADLOCK FALSE
PROPERTY LockNeedsFailures
