SPECIFICATION MCSesionSpec
CONSTANTS
  Tabs = {t1, t2}
  MaxTokens = 3
  LateRefreshes = FALSE
  NoSession = NoSession
PROPERTIES StaleAnswersWriteNothing
CHECK_DEADLOCK FALSE
