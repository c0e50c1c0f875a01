SPECIFICATION FairSpec
CONSTANTS
  ask = ask
  test = test
  demo = demo
  probe = probe
  a = a
  Nobody = Nobody
  Requests = {ask, test, probe, demo}
  RetryOf <- MCRetryOf
  RouteOf <- MCRouteOf
  ShapeOf <- MCShapeOf
  TestsContract = {test, probe, demo}
  Auths = {a}
  AuthOf <- MCAuthOf
  Sound = {a}
  Funded = {a}
  ValidAfter <- MCValidAfter
  ValidBefore <- MCValidBefore
  Envs <- MCEnvs
  MaxClock = 2
  RpcMayFail = {ask}
  ModelMayFail = {ask}
  MayDrop = TRUE
CHECK_DEADLOCK FALSE
INVARIANTS
  TypeOK
  ChargedIsTold
  ReportedStepsMined
  CompletedTestsRan
PROPERTIES
  ImplementsPaidService
  EveryRequestAnswered
