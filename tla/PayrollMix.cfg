SPECIFICATION Spec
CONSTANTS
  x = x
  y = y
  z = z
  d = d
  px = px
  py = py
  pz = pz
  d1 = d1
  d2 = d2
  usdc = usdc
  alice = alice
  Accounts = {alice}
  ZeroAddress = ZeroAddress
  Deployer = alice
  Tokens = {usdc}
  Amounts = {1}
  SwapPairs = {}
  Funding <- MCFunding3
  MaxInflow = 0
  Payrolls = {x, d}
  Payments = {px, d1, d2}
  PayrollOf <- MCMixPayrollOf
  AmountOf <- MCMixAmountOf
  RecipientOf <- MCMixRecipientOf
  Route <- MCMixRoute
  USDC = usdc
  NoPayment = NoPayment
  DbMayFail = {}
  ReceiptsMayBeLost = {}
  TxMayDrop = {x}
  MayCrash = TRUE
  RailMock = FALSE
  RailConfigured = TRUE
CHECK_DEADLOCK FALSE
INVARIANTS
  UncontendedIsCovered
  FailedMeansUnpaid
  FailedMovedNothing
  SettledStatusesAgree
