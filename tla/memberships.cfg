SPECIFICATION Spec
CONSTANTS
  BaseTypes = {"full"}
  DayLimit = 2
  MembershipLimit = 2
  EditLimit = 5
  PageSize = 1
  TimelineSize = 2
  RowLimit = 1
CHECK_DEADLOCK FALSE
INVARIANTS NoTextIsLost TwoOfficersOneDecision LastAskedEndHolds QueueIsWalkedWhole TimelineIsNewest
