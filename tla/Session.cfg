SPECIFICATION FairSpec
CONSTANTS
  ann = ann
  bob = bob
  left = left
  right = right
  Nobody = Nobody
  Emails = {ann, bob}
  Tabs = {left, right}
  StartPage <- MCStartPage
  MaxJobs = 2
  MaxActs = 1
  ServerMayFail = TRUE
  ConnectionMayFail = TRUE
CHECK_DEADLOCK FALSE
INVARIANTS
  TypeOK
  AccountsAreWhole
  TabsAgree
  ShownWasProved
PROPERTIES
  LoadingEnds
