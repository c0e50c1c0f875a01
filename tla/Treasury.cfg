SPECIFICATION TreasurySpec
CONSTANTS
  alice = alice
  bob = bob
  usdc = usdc
  wavax = wavax
  dai = dai
  Accounts = {alice, bob}
  ZeroAddress = ZeroAddress
  Deployer = alice
  Tokens = {usdc, wavax, dai}
  Amounts = {0, 1, 2}
  SwapPairs <- MCSwapPairs
  Funding <- MCFunding
  MaxInflow = 2
INVARIANTS
  TreasuryTypeOK
  NoStandingApproval
PROPERTIES
  PullsAreAuthorized
