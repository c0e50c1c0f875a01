SPECIFICATION Spec
CONSTANTS
  ask = ask
  test = test
  demo = demo
  probe = probe
  a = a
  Nobody = Nobody
  Requests = {ask, test, probe, demo}
  RetryOf <- MCRetryOf
  RouteOf <- MCRouteOf
  ShapeOf <- MCShapeOf
  TestsContract = {test, probe, demo}
  Auths = {a}
  AuthOf <- MCAuthOf
  Sound = {a}
  Funded = {a}
  ValidAfter <- MCValidAfter
  ValidBefore <- OwnValidBefore
  Envs <- OwnEnvs
  MaxClock = 2
  RpcMayFail = {}
  ModelMayFail = {}
  MayDrop = FALSE
CHECK_DEADLOCK FALSE
INVARIANTS
  SoundPaymentsAccepted
