SPECIFICATION Spec
CONSTANTS
  Members = {m1, m2}
  Actors = {a1}
  Keys = {k1, k2}
  NoKey = NoKey
  Amounts = {1, 2}
  Dates = {1, 2}
  BatchLimit = 1
  RowLimit = 1
  VersionLimit = 2
  EntryIdLimit = 1
  CorrectionLimit = 2
  DecisionLimit = 2
SYMMETRY Symmetry
CHECK_DEADLOCK FALSE
INVARIANTS SupersedesLatest CorrectionsAreLinked BooksBalance OneKeyPerWork WalkFindsInForce
PROPERTY ImplementsBooks
