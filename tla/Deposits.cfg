SPECIFICATION Spec
CONSTANTS
  admin = admin
  other = other
  user = user
  pda = pda
  mintA = mintA
  native = native
  NotInitialized = NotInitialized
  Keys <- MCKeys
  Admin = admin
  BridgePda = pda
  Mints <- MCMints
  NativeMint = native
  Decimals <- MCDecimals
  TokenAccounts <- MCTokenAccounts
  MaxU64 = 30
  InitiallyOpen <- MCInitiallyOpen
  InitialTokens <- MCInitialTokens
  Amounts = {5, 10}
  RelayerChoices = {pda}
  CollectorChoices = {other, pda}
  WhitelistChoices = {user}
  FeeChoices = {0, 5}
  LimitChoices <- MCLimits
INVARIANTS
  TypeOK
PROPERTIES
  DepositAdmitted
  FeeAccompaniesDeposit
