SPECIFICATION BrowserSpec
CONSTANTS
  Tabs = {t1, t2}
  t1 = t1
  t2 = t2
  Gone = Gone
  MaxSessions = 3
  MaxEvents = 1
  Contents = {home, other}
  Default = home
  home = home
  other = other
  None = None
  Limit = 1
  MaxRequests = 3
  MaxVersion = 3
  MaxEdits = 3
SYMMETRY Symmetry
INVARIANTS
  TypeOK
  OneLivePerLogin
  OneRequestPerWait
  EditorTypeOK
  AutosaveKeepsUp
PROPERTIES
  LoginSpec
  TokensNeverGoBack
  NothingUnseenReplaced
CHECK_DEADLOCK FALSE
