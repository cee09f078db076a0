\* Two requests, a budget that holds less than the whole of one of them.
SPECIFICATION Spec
CONSTANTS
  r1 = r1
  r2 = r2
  k1 = k1
  k2 = k2
  Request = {r1, r2}
  StageKey = {k1, k2}
  head_key = k1
  MaxPosition = 1
  MaxAttempts <- OneRetry
  Bytes <- PromptsAndTokens
  max_bytes = 5
CHECK_DEADLOCK FALSE
INVARIANTS
  TypeOK
  AccountsForItsBytes
  ReplaysTheWholeAttempt
PROPERTY LastUsedGoesLast
