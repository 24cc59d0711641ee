SPECIFICATION InitialisedSpec
CONSTANTS
  admin = admin
  relayer = relayer
  pda = pda
  mintA = mintA
  native = native
  first = r0
  NotInitialized = NotInitialized
  SystemProgram = SystemProgram
  TokenProgram = TokenProgram
  AssociatedTokenProgram = AssociatedTokenProgram
  Keys <- MCKeys
  Admin = admin
  BridgePda = pda
  Mints <- MCMints
  NativeMint = native
  Decimals <- MCDecimals
  TokenAccounts <- MCTokenAccounts
  MaxU64 = 3
  InitiallyOpen <- MCInitiallyOpen
  InitialTokens <- OneToken
  Amounts = {1}
  RelayerChoices = {relayer, admin}
  CollectorChoices = {pda}
  WhitelistChoices = {relayer}
  FeeChoices = {0, 1}
  LimitChoices <- MCLimits
  Runs = {r0, r1, r2}
  Signers = {admin, relayer}
  Commands <- EveryCommand
  Lifetime = 0
  ConfirmationLag = 0
  MaxHeight = 1
SYMMETRY Symmetry
INVARIANTS
  CommandsAccepted
PROPERTIES
  CommandsDoAsTyped
  SettledConfigurationStays
  SettledPublicStateStays
