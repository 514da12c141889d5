CONSTANTS
  Scale = 10
  FixedMax = 1000
  MaxExplainInputs = 2
  MaxSpreadLeaves = 3
  MaxCellsetCells = 9
  Models <- MCModels
  Requests <- MCRequests
  Letters <- MCLetters
  Digits = {"0", "1", "2"}
  MaxParseDepth = 8
  BuiltIns <- MCBuiltIns
  MaxCsvRows = 6
  MaxDescendantsDepth = 2
  NumberOf <- MCNumbers
  TextRank <- MCTextRank
  Queried <- MCQueried
  FillIns <- MCFillIns
SPECIFICATION MCSpec
CHECK_DEADLOCK FALSE
INVARIANTS
  ValuesMeanTheRules
  ViewsShowWhatIsThere
  NumbersAddUp
  TextsReadBack
  TextsMeanWhatTheySay
