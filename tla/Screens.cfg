SPECIFICATION FairClientSpec
CONSTANTS
  form = form
  flow = flow
  x = x
  d = d
  px = px
  d1 = d1
  usdc = usdc
  alice = alice
  Accounts = {alice}
  ZeroAddress = ZeroAddress
  Deployer = alice
  Tokens = {usdc}
  Amounts = {}
  SwapPairs = {}
  Funding <- MCFunding
  MaxInflow = 0
  Payrolls = {x, d}
  Payments = {px, d1}
  PayrollOf <- MCPayrollOf
  AmountOf <- MCAmountOf
  RecipientOf <- MCRecipientOf
  Route <- MCRoute
  USDC = usdc
  NoPayment = NoPayment
  DbMayFail = {d}
  ReceiptsMayBeLost = {}
  TxMayDrop = {x}
  MayCrash = FALSE
  RailMock = TRUE
  RailConfigured = FALSE
  Screens = {form, flow}
  Kind <- MCKind
  NoPayroll = NoPayroll
  UiFacilitator = "own"
  GateFacilitator = "other"
  DemoAllowed = FALSE
  ConnectionMayFail = {flow}
  PageSize = 1
CHECK_DEADLOCK FALSE
INVARIANTS
  ClientTypeOK
  RunningIsAwaited
  FormSuccessIsBacked
  AgentListsPayroll
PROPERTIES
  ScreensSettle
