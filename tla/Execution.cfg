SPECIFICATION ExecSpec
CONSTANTS
  admin = admin
  user = user
  pda = pda
  native = native
  mintB = mintB
  NotInitialized = NotInitialized
  Keys <- MCKeys
  Admin = admin
  BridgePda = pda
  Mints <- MCMints
  NativeMint = native
  Decimals <- MCDecimals
  TokenAccounts <- MCTokenAccounts
  MaxU64 = 2
  InitiallyOpen <- MCInitiallyOpen
  InitialTokens <- MCInitialTokens
  Amounts = {1}
  RelayerChoices = {user}
  CollectorChoices = {admin}
  WhitelistChoices = {}
  FeeChoices = {0, 1}
  LimitChoices <- MCLimits
  Calls <- MCCalls
PROPERTIES
  StagesImplementProgram
  FailuresJustified
