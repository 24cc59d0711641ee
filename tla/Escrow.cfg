SPECIFICATION Spec
CONSTANTS
  admin = admin
  relayer = relayer
  pda = pda
  mintA = mintA
  native = native
  NotInitialized = NotInitialized
  Keys <- MCKeys
  Admin = admin
  BridgePda = pda
  Mints <- MCMints
  NativeMint = native
  Decimals <- MCDecimals
  TokenAccounts <- MCTokenAccounts
  MaxU64 = 3
  InitiallyOpen <- MCInitiallyOpen
  InitialTokens <- MCInitialTokens
  Amounts = {1, 2}
  RelayerChoices = {relayer}
  CollectorChoices = {relayer}
  WhitelistChoices = {relayer}
  FeeChoices = {0, 1}
  LimitChoices <- MCLimits
PROPERTIES
  ImplementsEscrow
  DepositAdmitted
