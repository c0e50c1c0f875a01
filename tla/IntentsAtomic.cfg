SPECIFICATION MerchantSpec
CONSTANTS
  m = m
  n = n
  i1 = i1
  i2 = i2
  i3 = i3
  c1 = c1
  c1again = c1again
  c2 = c2
  c2again = c2again
  c3 = c3
  c3other = c3other
  t1 = t1
  t2 = t2
  t3 = t3
  t4 = t4
  s1 = s1
  s1again = s1again
  s2 = s2
  e1 = e1
  e2 = e2
  Settles = {}
  BodyOf <- NoSettlement
  CallbackOf <- NoSettlement
  Authorizations = {}
  AuthorizationOf <- NoSettlement
  SettleMayFail = {}
  Simulated = {c3}
  ConnectionMayFail = {}
  Companies = {n}
  Tokens = {"xUSDC", "xUSDT"}
  Intents = {i2, i3}
  Callbacks = {c2, c3}
  CompanyOf <- PaymentsCompanyOf
  TokenOf <- PaymentsTokenOf
  IntentOf <- PaymentsIntentOf
  TxOf <- PaymentsTxOf
  AmountOf <- PaymentsAmountOf
  NoTx = NoTx
  DbMayFail = {}
  MayCrash = FALSE
CHECK_DEADLOCK FALSE
INVARIANTS
  BalancesMatchConfirmed
