SPECIFICATION FairSpec
CONSTANTS
  x = x
  y = y
  z = z
  d = d
  px = px
  py = py
  pz = pz
  d1 = d1
  d2 = d2
  usdc = usdc
  alice = alice
  Accounts = {alice}
  ZeroAddress = ZeroAddress
  Deployer = alice
  Tokens = {usdc}
  Amounts = {2}
  SwapPairs = {}
  Funding <- MCFunding3
  MaxInflow = 0
  Payrolls = {z, d}
  Payments = {pz, d1, d2}
  PayrollOf <- MCAnswersPayrollOf
  AmountOf <- MCAnswersAmountOf
  RecipientOf <- MCAnswersRecipientOf
  Route <- MCAnswersRoute
  USDC = usdc
  NoPayment = NoPayment
  DbMayFail = {z, d}
  ReceiptsMayBeLost = {d}
  TxMayDrop = {d}
  MayCrash = FALSE
  RailMock = TRUE
  RailConfigured = FALSE
CHECK_DEADLOCK FALSE
INVARIANTS
  ExecutedAtMostOnce
  OnchainPaidHasTransaction
PROPERTIES
  EveryRequestAnswered
