SPECIFICATION AdminSpec
CONSTANTS
  admin = admin
  relayer = relayer
  pda = pda
  mintA = mintA
  native = mintA
  first = none
  NotInitialized = NotInitialized
  SystemProgram = SystemProgram
  TokenProgram = TokenProgram
  AssociatedTokenProgram = AssociatedTokenProgram
  Keys <- MCKeys
  Admin = admin
  BridgePda = pda
  Mints <- MCMints
  NativeMint = mintA
  Decimals <- MCDecimals
  TokenAccounts <- MCTokenAccounts
  MaxU64 = 3
  InitiallyOpen <- MCInitiallyOpen
  InitialTokens <- MCInitialTokens
  Amounts = {1}
  RelayerChoices = {relayer, admin}
  CollectorChoices = {pda}
  WhitelistChoices = {relayer}
  FeeChoices = {0, 1}
  LimitChoices <- MCLimits
  Runs = {r1, r2, r3}
  Signers = {admin}
  Commands <- RemovalCommands
  Lifetime = 0
  ConfirmationLag = 0
  MaxHeight = 1
SYMMETRY Symmetry
INVARIANTS
  RemovalsAccepted
