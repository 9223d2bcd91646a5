SPECIFICATION Spec
CONSTANTS
  Fakes <- MCFakeSet
  Arity <- MCArity
  IsValue <- MCIsValue
  Default <- MCDefault
  Rows <- MCRows
  Returns = {7}
  HistoryLen = 2
  MaxDepth = 2
  MaxCalls = 3
INVARIANTS RecordsMatchCalls ResetForgets
