SPECIFICATION Spec
CONSTANTS
  Members = {m1, m2}
  Actors = {a1}
  Keys = {k1}
  NoKey = NoKey
  Amounts = {1}
  Dates = {1}
  BatchLimit = 2
  RowLimit = 2
  VersionLimit = 5
  EntryIdLimit = 3
  CorrectionLimit = 0
  DecisionLimit = 0
SYMMETRY Symmetry
CHECK_DEADLOCK FALSE
INVARIANTS TypeOK ReceiptsAreUnique PostedExactlyOnce CoverageIsOneChain
PROPERTIES VersionCoversRows TerminalIsFrozen
