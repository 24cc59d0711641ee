SPECIFICATION Spec
CONSTANTS
  admin = admin
  relayer = relayer
  user = user
  pda = pda
  mintA = mintA
  native = native
  NotInitialized = NotInitialized
  Keys <- MCKeys
  Admin = admin
  BridgePda = pda
  Mints <- MCMints
  NativeMint = native
  Decimals <- MCDecimals
  TokenAccounts <- MCTokenAccounts
  MaxU64 = 4
  InitiallyOpen <- MCInitiallyOpen
  InitialTokens <- MCInitialTokens
  Amounts = {1, 2}
  RelayerChoices = {relayer, admin}
  CollectorChoices = {pda}
  WhitelistChoices = {user}
  FeeChoices = {0}
  LimitChoices <- MCLimits
INVARIANTS
  VaultBalanceIsLiquidity
