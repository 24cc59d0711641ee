------------------------ MODULE BridgeEscrowProofs -------------------------
(***************************************************************************)
(* The bridge program implements Escrow, for all keys, mints, accounts and *)
(* amounts.  Each kind of step of BridgeProgramProofs is one of the        *)
(* escrow's actions or leaves the escrow unchanged.                        *)
(***************************************************************************)
EXTENDS BridgeEscrow, BridgeProgramProofs

\* What the escrow's variables are once the program is initialised.
LEMMA EscrowView ==
  ASSUME Initialized
  PROVE  /\ held = tokens[bridge_state.vault]
         /\ VaultServes => status = "serving" /\ ledger = bridge_state.vault_amount
         /\ ~VaultServes => status = "suspended" /\ ledger = 0
  BY DEF held, status, ledger

LEMMA EscrowViewNext ==
  ASSUME Initialized'
  PROVE  /\ held' = tokens'[bridge_state'.vault]
         /\ VaultServes' => status' = "serving" /\ ledger' = bridge_state'.vault_amount
         /\ ~VaultServes' => status' = "suspended" /\ ledger' = 0
  BY DEF held, status, ledger

LEMMA AbsentView ==
  ASSUME ~Initialized
  PROVE  status = "absent" /\ held = 0 /\ ledger = 0
  BY DEF held, status, ledger

LEMMA AbsentViewNext ==
  ASSUME ~Initialized'
  PROVE  status' = "absent" /\ held' = 0 /\ ledger' = 0
  BY DEF held, status, ledger

LEMMA HeldTyped ==
  ASSUME TypeOK, Initialized
  PROVE  held \in U64 /\ bridge_state.vault_amount \in U64
  BY VaultTyped DEF held, TypeOK, BridgeState

LEMMA HeldTypedNext ==
  ASSUME TypeOK', Initialized'
  PROVE  held' \in U64
<1>1. PICK m \in Mints : bridge_state'.vault = Ata(BridgePda, m)
  BY DEF TypeOK
<1>2. bridge_state'.vault \in TokenAccounts
  BY <1>1, VaultAccount
<1> QED
  BY <1>2, EscrowViewNext DEF TypeOK

-----------------------------------------------------------------------------
\* initialize_contract opens the escrow.
LEMMA OpenStep ==
  ASSUME TypeOK, NEW authority \in Keys, Initialization(authority)
  PROVE  E!Open
<1>1. TypeOK' /\ Initialized' /\ ~Initialized
  BY InitializeTypeOK DEF Initialization, InitializeContract, CanInitializeContract
<1>2. VaultServes' /\ bridge_state'.vault_amount = 0
  BY DEF Initialization, InitializeContract, VaultServes, Ata
<1> QED
  BY <1>1, <1>2, AbsentView, EscrowViewNext, HeldTypedNext
  DEF E!Open, E!Quantity, U64

\* update_whitelisted_mint suspends the escrow, or counts what it holds.
LEMMA SwitchStep ==
  ASSUME TypeOK, NEW authority \in Keys, NEW mint \in Mints,
         UpdateWhitelistedMint(authority, mint)
  PROVE  E!Suspend \/ E!Resync
<1>1. Configuration(authority) /\ Initialized
  BY DEF Configuration, Addresses, UpdateWhitelistedMint, ByAdmin
<1>2. Initialized' /\ bridge_state \in BridgeState
  BY <1>1, ConfigurationTypeOK, VaultTyped
<1>3. /\ bridge_state'.vault_amount = tokens[Ata(BridgePda, mint)]
      /\ bridge_state'.mint_of_token_whitelisted = mint
      /\ bridge_state'.vault = bridge_state.vault
      /\ tokens' = tokens
  BY <1>2 DEF UpdateWhitelistedMint, BridgeState
<1>4. held' = held
  BY <1>1, <1>2, <1>3, EscrowView, EscrowViewNext
<1>5. status # "absent"
  BY <1>1, EscrowView
<1>6. VaultServes' <=> bridge_state.vault = Ata(BridgePda, mint)
  BY <1>3 DEF VaultServes, Ata
<1>7. CASE VaultServes'
  BY <1>1, <1>2, <1>3, <1>4, <1>5, <1>6, <1>7, EscrowView, EscrowViewNext DEF E!Resync
<1>8. CASE ~VaultServes'
  BY <1>2, <1>4, <1>5, <1>8, EscrowViewNext DEF E!Suspend
<1> QED
  BY <1>7, <1>8

\* Adding liquidity and depositing lock tokens in the escrow.
LEMMA LockStep ==
  ASSUME TypeOK, TypeOK', NEW amount \in U64, Deposited(amount)
  PROVE  E!Lock(amount)
<1>1. /\ Initialized /\ VaultServes
      /\ bridge_state \in BridgeState
      /\ bridge_state.vault \in TokenAccounts
      /\ bridge_state.vault.owner = BridgePda
  BY VaultTyped DEF Deposited
<1>2. /\ bridge_state'.vault_amount = bridge_state.vault_amount + amount
      /\ bridge_state'.vault = bridge_state.vault
      /\ bridge_state'.mint_of_token_whitelisted =
           bridge_state.mint_of_token_whitelisted
      /\ bridge_state' \in BridgeState
  BY <1>1 DEF Deposited, BridgeState
<1>3. Initialized' /\ VaultServes'
  BY <1>1, <1>2, AccountsAssumption DEF Initialized, VaultServes, Ata
<1>4. held' = held + amount /\ ledger' = ledger + amount
  BY <1>1, <1>2, <1>3, EscrowView, EscrowViewNext DEF Deposited
<1>5. held' \in U64
  BY <1>3, HeldTypedNext
<1> QED
  BY <1>1, <1>3, <1>4, <1>5, EscrowView, EscrowViewNext DEF E!Lock, U64

\* A payout releases tokens, or only forgets them when it pays the vault itself.
LEMMA PayStep ==
  ASSUME TypeOK, NEW target \in TokenAccounts, NEW amount \in U64,
         PaidOut(target, amount)
  PROVE  E!Release(amount) \/ E!Retire(amount)
<1>1. /\ Initialized /\ VaultServes
      /\ bridge_state \in BridgeState
      /\ bridge_state.vault \in TokenAccounts
      /\ bridge_state.vault_amount \in U64
      /\ amount <= bridge_state.vault_amount
  BY VaultTyped DEF PaidOut, BridgeState
<1>2. bridge_state.vault_amount - amount \in U64
  BY <1>1, AmountsAssumption DEF U64
<1>3. /\ bridge_state'.vault_amount = bridge_state.vault_amount - amount
      /\ bridge_state'.vault = bridge_state.vault
      /\ bridge_state'.mint_of_token_whitelisted =
           bridge_state.mint_of_token_whitelisted
      /\ bridge_state' \in BridgeState
  BY <1>1, <1>2 DEF PaidOut, BridgeState
<1>4. Initialized' /\ VaultServes'
  BY <1>1, <1>3, AccountsAssumption DEF Initialized, VaultServes, Ata
<1>5. /\ status = "serving" /\ status' = "serving"
      /\ amount <= ledger /\ ledger' = ledger - amount
  BY <1>1, <1>3, <1>4, EscrowView, EscrowViewNext
<1>6. held' = held - amount \/ held' = held
  BY <1>1, <1>3, <1>4, EscrowView, EscrowViewNext, PaidOutBalance
<1> QED
  BY <1>5, <1>6 DEF E!Release, E!Retire

LEMMA U64Difference ==
  ASSUME NEW x \in U64, NEW y \in U64, y >= x
  PROVE  \E n \in U64 : y = x + n /\ x + n <= MaxU64
<1>1. y - x \in U64 /\ y = x + (y - x) /\ y <= MaxU64
  BY AmountsAssumption DEF U64
<1> QED
  BY <1>1

\* Anything else is a gift, of nothing as a rule.
LEMMA GiftStep ==
  ASSUME TypeOK, TypeOK', Kept
  PROVE  (\E n \in E!Quantity : E!Gift(n)) \/ UNCHANGED E!vars
<1>1. CASE ~Initialized
  <2>1. ~Initialized'
    BY <1>1 DEF Kept
  <2> QED
    BY <1>1, <2>1, AbsentView, AbsentViewNext DEF E!vars
<1>2. CASE Initialized
  <2>1. /\ Initialized'
        /\ bridge_state'.vault = bridge_state.vault
        /\ bridge_state'.vault_amount = bridge_state.vault_amount
        /\ VaultServes' <=> VaultServes
    BY <1>2 DEF Kept, VaultServes, Ata
  <2>2. status' = status /\ ledger' = ledger /\ status # "absent"
    BY <1>2, <2>1, EscrowView, EscrowViewNext
  <2>3. held \in U64 /\ held' \in U64 /\ held' >= held
    BY <1>2, <2>1, VaultTyped, HeldTyped, HeldTypedNext, EscrowView, EscrowViewNext
    DEF Kept
  <2>4. PICK n \in U64 : held' = held + n /\ held + n <= MaxU64
    BY <2>3, U64Difference
  <2>5. E!Gift(n) /\ n \in E!Quantity
    BY <2>2, <2>4 DEF E!Gift, E!Quantity, U64
  <2> QED
    BY <2>5
<1> QED
  BY <1>1, <1>2

LEMMA EscrowStep ==
  ASSUME TypeOK, [Next]_vars
  PROVE  [E!Next]_(E!vars)
<1>1. TypeOK' /\ StepKind
  BY NextStep
<1>2. U64 = E!Quantity
  BY DEF U64, E!Quantity
<1> QED
  BY <1>1, <1>2, OpenStep, SwitchStep, LockStep, PayStep, GiftStep DEF StepKind, E!Next

\* Every behaviour of the bridge program is a behaviour of the escrow.
THEOREM BridgeImplementsEscrow == Spec => ImplementsEscrow
<1>1. Init => E!Init
  BY AbsentView DEF Init, Initialized, E!Init
<1>2. TypeOK /\ [Next]_vars => [E!Next]_(E!vars)
  BY EscrowStep
<1> QED
  BY <1>1, <1>2, TypeCorrect, PTL DEF Spec, ImplementsEscrow, E!Spec

=============================================================================
