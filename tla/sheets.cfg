SPECIFICATION SheetSpec
CONSTANTS
  m1 = m1
  m2 = m2
  Members = {m1, m2}
  Actors = {a1}
  Keys = {k1}
  NoKey = NoKey
  Amounts = {1}
  Dates = {2}
  BatchLimit = 1
  RowLimit = 1
  VersionLimit = 1
  EntryIdLimit = 1
  CorrectionLimit = 1
  DecisionLimit = 0
  Roll <- Club
  WarningDays = 1
  Filters = {"active", "unpaid_since_run"}
  Orders = {"longest_overdue"}
  Labels = {"sheet"}
  RunLimit = 2
  MakingLimit = 1
  ClockLimit = 2
CHECK_DEADLOCK FALSE
INVARIANTS FiltersAgree FollowUpDropsOnlyThePaid HandoffIsWhole
