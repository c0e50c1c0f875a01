SPECIFICATION Spec
CONSTANTS
  x = x
  y = y
  z = z
  d = d
  px = px
  py = py
  pz = pz
  d1 = d1
  d2 = d2
  usdc = usdc
  alice = alice
  Accounts = {alice}
  ZeroAddress = ZeroAddress
  Deployer = alice
  Tokens = {usdc}
  Amounts = {2}
  SwapPairs = {}
  Funding <- MCFunding2
  MaxInflow = 0
  Payrolls = {x, y}
  Payments = {px, py}
  PayrollOf <- MCPairPayrollOf
  AmountOf <- MCPairAmountOf
  RecipientOf <- MCPairRecipientOf
  Route <- MCPairRoute
  USDC = usdc
  NoPayment = NoPayment
  DbMayFail = {}
  ReceiptsMayBeLost = {}
  TxMayDrop = {}
  MayCrash = FALSE
  RailMock = FALSE
  RailConfigured = TRUE
CHECK_DEADLOCK FALSE
INVARIANTS
  OnchainPaidMeansCompleted
