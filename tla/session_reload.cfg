SPECIFICATION MCSesionSpec
CONSTANTS
  Tabs = {t1}
  MaxTokens = 3
  LateRefreshes = FALSE
  NoSession = NoSession
INVARIANT RefusedForAReason
CHECK_DEADLOCK FALSE
