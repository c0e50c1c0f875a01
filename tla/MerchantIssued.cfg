SPECIFICATION MerchantSpec
CONSTANTS
  m = m
  n = n
  i1 = i1
  i2 = i2
  i3 = i3
  c1 = c1
  c1again = c1again
  c2 = c2
  c2again = c2again
  c3 = c3
  c3other = c3other
  t1 = t1
  t2 = t2
  t3 = t3
  t4 = t4
  s1 = s1
  s1again = s1again
  s2 = s2
  e1 = e1
  e2 = e2
  Settles = {s1, s1again, s2}
  BodyOf <- IssuedBodyOf
  CallbackOf <- MCCallbackOf
  Authorizations = {e1, e2}
  AuthorizationOf <- MCAuthorizationOf
  SettleMayFail = {}
  Simulated = {c3}
  ConnectionMayFail = {}
  Companies = {m, n}
  Tokens = {"xUSDC", "xUSDT"}
  Intents = {i1, i2, i3}
  Callbacks = {c1, c1again, c2, c2again, c3, c3other}
  CompanyOf <- MCCompanyOf
  TokenOf <- MCTokenOf
  IntentOf <- MCIntentOf
  TxOf <- MCTxOf
  AmountOf <- IssuedAmountOf
  NoTx = NoTx
  DbMayFail = {}
  MayCrash = FALSE
CHECK_DEADLOCK FALSE
INVARIANTS
  IssuedRequirementsSettle
