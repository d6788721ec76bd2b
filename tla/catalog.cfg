SPECIFICATION Spec
CONSTANTS
  q1 = q1
  q2 = q2
  q3 = q3
  u1 = u1
  u2 = u2
  Requests <- MCRequests
  Rows <- MCRows
  Bases = {b1}
  Names = {1, 2}
  Providers = {"openai", "anthropic"}
  Tags = {t1}
  Prices = {0, 1}
  Default = 0
  Supported = {"chat/completions", "messages"}
  None = None
SYMMETRY MCSymmetry
INVARIANTS TypeOK OneRowPerBase RoutedIsProbed AnswerIsComplete AsAsked
CHECK_DEADLOCK FALSE
