SPECIFICATION Spec
CONSTANTS
  ann = ann
  bob = bob
  left = left
  right = right
  Nobody = Nobody
  Emails = {ann, bob}
  Tabs = {left, right}
  StartPage <- MCStartPage
  MaxJobs = 2
  MaxActs = 1
  ServerMayFail = FALSE
  ConnectionMayFail = FALSE
CHECK_DEADLOCK FALSE
PROPERTIES
  EndedSessionsStayEnded
