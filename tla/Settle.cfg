SPECIFICATION FairSpec
CONSTANTS
  admin = admin
  relayer = admin
  pda = pda
  mintA = mintA
  native = mintA
  first = none
  NotInitialized = NotInitialized
  SystemProgram = SystemProgram
  TokenProgram = TokenProgram
  AssociatedTokenProgram = AssociatedTokenProgram
  Keys <- MCKeys
  Admin = admin
  BridgePda = pda
  Mints <- MCMints
  NativeMint = mintA
  Decimals <- MCDecimals
  TokenAccounts <- MCTokenAccounts
  MaxU64 = 3
  InitiallyOpen <- MCInitiallyOpen
  InitialTokens <- MCInitialTokens
  Amounts = {1}
  RelayerChoices = {admin}
  CollectorChoices = {pda}
  WhitelistChoices = {admin}
  FeeChoices = {0, 1}
  LimitChoices <- MCLimits
  Runs = {r1, r2, r3}
  Signers = {admin}
  Commands <- EntryCommands
  Lifetime = 0
  ConfirmationLag = 0
  MaxHeight = 1

  
PROPERTIES
  RunsSettle
