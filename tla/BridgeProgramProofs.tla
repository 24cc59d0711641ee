------------------------ MODULE BridgeProgramProofs ------------------------
(***************************************************************************)
(* Proofs about BridgeProgram, for all keys, mints, accounts and amounts.  *)
(*                                                                         *)
(* The argument rests on three groups of lemmas: what a transfer does to   *)
(* the balances, which accounts an instruction moves tokens between, and   *)
(* one lemma per kind of step that says what it does to the variables.     *)
(***************************************************************************)
EXTENDS BridgeProgram, TLAPS

(* Transfers                                                               *)

\* A transfer the token program accepts leaves every balance a u64.
LEMMA TransferType ==
  ASSUME NEW balance \in [TokenAccounts -> U64],
         NEW from \in TokenAccounts, NEW to \in TokenAccounts,
         NEW amount \in U64,
         CanTransfer(balance, from, to, amount)
  PROVE  Transfer(balance, from, to, amount) \in [TokenAccounts -> U64]
  BY AmountsAssumption DEF CanTransfer, Transfer, U64

\* What a transfer does to each balance.
LEMMA TransferBalance ==
  ASSUME NEW balance \in [TokenAccounts -> U64],
         NEW from \in TokenAccounts, NEW to \in TokenAccounts,
         NEW amount \in U64, NEW a \in TokenAccounts
  PROVE  Transfer(balance, from, to, amount)[a] =
           IF from = to THEN balance[a]
           ELSE IF a = from THEN balance[a] - amount
           ELSE IF a = to THEN balance[a] + amount
           ELSE balance[a]
  BY DEF Transfer

\* The vault of a mint is an account of the bridge and of that mint.
LEMMA VaultAccount ==
  ASSUME NEW mint \in Mints
  PROVE  /\ Ata(BridgePda, mint) \in TokenAccounts
         /\ Ata(BridgePda, mint).owner = BridgePda
         /\ Ata(BridgePda, mint).mint = mint
  BY AccountsAssumption DEF Ata

-----------------------------------------------------------------------------
(* Type correctness                                                        *)

LEMMA InitTypeOK == Init => TypeOK
  BY InitialTokensAssumption, AccountsAssumption DEF Init, TypeOK, Initialized

\* initialize_contract creates a well-formed state and its vault.
LEMMA InitializeTypeOK ==
  ASSUME TypeOK, NEW authority \in Keys, Initialization(authority)
  PROVE  TypeOK' /\ Initialized'
<1>1. PICK mint \in Mints, relayer_pubkey \in RelayerChoices,
           fee_collector \in CollectorChoices, fee_amount \in FeeChoices,
           limits \in LimitChoices :
        InitializeContract(authority, mint, relayer_pubkey, fee_collector,
                           fee_amount, limits)
  BY DEF Initialization
<1>2. Ata(BridgePda, mint) \in TokenAccounts
  BY VaultAccount
<1>3. limits[1] \in U64 /\ limits[2] \in U64
  BY AmountsAssumption
<1>4. bridge_state' \in BridgeState
  BY <1>1, <1>2, <1>3, KeysAssumption, AmountsAssumption
  DEF InitializeContract, CanInitializeContract, BridgeState, U64, State, Inactive, Active
<1>5. /\ bridge_state'.vault = Ata(BridgePda, mint)
      /\ bridge_state'.mint_of_token_whitelisted = mint
      /\ opened' = opened \union {Ata(BridgePda, mint)}
      /\ UNCHANGED <<whitelist, tokens>>
  BY <1>1 DEF InitializeContract
<1> QED
  BY <1>2, <1>4, <1>5, AccountsAssumption DEF TypeOK, Initialized

\* A well-formed state stays well-formed under a change of the other fields.
LEMMA SameVaultTypeOK ==
  ASSUME TypeOK, Initialized,
         bridge_state' \in BridgeState,
         bridge_state'.vault = bridge_state.vault,
         bridge_state'.mint_of_token_whitelisted =
           bridge_state.mint_of_token_whitelisted,
         whitelist' \subseteq Pubkeys,
         tokens' \in [TokenAccounts -> U64],
         opened \subseteq opened', opened' \subseteq TokenAccounts,
         \A a \in TokenAccounts \ opened' : tokens'[a] = 0
  PROVE  TypeOK' /\ Initialized'
<1>1. Ata(BridgePda, bridge_state.mint_of_token_whitelisted)' =
        Ata(BridgePda, bridge_state.mint_of_token_whitelisted)
  BY DEF Ata
<1> QED
  BY <1>1, AccountsAssumption DEF TypeOK, Initialized

\* The instructions that move no tokens once there is a bridge_state, and what
\* moves tokens.
Configuration(authority) == Addresses(authority) \/ Settings(authority)

Movement(authority) ==
  Liquidity(authority) \/ Bridging(authority) \/ TokenTransfers(authority)

\* The instructions of the administrator, and public_pause and public_unpause.
LEMMA ConfigurationTypeOK ==
  ASSUME TypeOK, NEW authority \in Keys, Configuration(authority)
  PROVE  TypeOK' /\ Initialized'
<1> USE DEF ByAdmin
<1>1. CASE \E key \in RelayerChoices : UpdateRelayer(authority, key)
  <2>1. /\ Initialized
        /\ \E key \in Pubkeys :
             bridge_state' = [bridge_state EXCEPT !.relayer_pubkey = key]
        /\ UNCHANGED <<whitelist, tokens, opened>>
    BY <1>1, KeysAssumption DEF UpdateRelayer
  <2> QED
    BY <2>1, SameVaultTypeOK DEF TypeOK, Initialized, BridgeState
<1>2. CASE \E key \in CollectorChoices : UpdateFeeCollector(authority, key)
  <2>1. /\ Initialized
        /\ \E key \in CollectorChoices :
             bridge_state' = [bridge_state EXCEPT !.fee_collector = key]
        /\ UNCHANGED <<whitelist, tokens, opened>>
    BY <1>2 DEF UpdateFeeCollector
  <2> QED
    BY <2>1, SameVaultTypeOK DEF TypeOK, Initialized, BridgeState
<1>3. CASE \E mint \in Mints : UpdateWhitelistedMint(authority, mint)
  <2>1. PICK mint \in Mints : UpdateWhitelistedMint(authority, mint)
    BY <1>3
  <2>2. Ata(BridgePda, mint) \in TokenAccounts
    BY VaultAccount
  <2>3. /\ bridge_state' \in BridgeState
        /\ bridge_state'.vault = bridge_state.vault
        /\ bridge_state'.mint_of_token_whitelisted = mint
    BY <2>1, <2>2 DEF UpdateWhitelistedMint, TypeOK, Initialized, BridgeState
  <2>4. /\ Initialized
        /\ opened' = opened \union {Ata(BridgePda, mint)}
        /\ UNCHANGED <<whitelist, tokens>>
    BY <2>1 DEF UpdateWhitelistedMint
  <2> QED
    BY <2>2, <2>3, <2>4, AccountsAssumption DEF TypeOK, Initialized
<1>4. CASE \E limits \in LimitChoices : SetDepositLimits(authority, limits)
  <2>1. PICK limits \in LimitChoices : SetDepositLimits(authority, limits)
    BY <1>4
  <2>2. limits[1] \in U64 /\ limits[2] \in U64
    BY AmountsAssumption
  <2> QED
    BY <2>1, <2>2, SameVaultTypeOK
    DEF SetDepositLimits, TypeOK, Initialized, BridgeState
<1>5. CASE \E fee_amount \in FeeChoices : SetFeeAmount(authority, fee_amount)
  <2>1. /\ Initialized
        /\ \E fee_amount \in U64 :
             bridge_state' = [bridge_state EXCEPT !.fee_amount = fee_amount]
        /\ UNCHANGED <<whitelist, tokens, opened>>
    BY <1>5, AmountsAssumption DEF SetFeeAmount
  <2> QED
    BY <2>1, SameVaultTypeOK DEF TypeOK, Initialized, BridgeState
<1>6. CASE \E state \in State : SetRelayerState(authority, state)
  BY <1>6, SameVaultTypeOK DEF SetRelayerState, TypeOK, Initialized, BridgeState
<1>7. CASE \E state \in State : SetPublicState(authority, state)
  BY <1>7, SameVaultTypeOK
  DEF SetPublicState, CanSetPublicState, TypeOK, Initialized, BridgeState
<1>8. CASE \E state \in State : SetWhitelistState(authority, state)
  BY <1>8, SameVaultTypeOK DEF SetWhitelistState, TypeOK, Initialized, BridgeState
<1>9. CASE \E key \in WhitelistChoices : AddToWhitelist(authority, key)
  BY <1>9, SameVaultTypeOK, KeysAssumption
  DEF AddToWhitelist, CanAddToWhitelist, TypeOK, Initialized
<1>10. CASE \E key \in WhitelistChoices : RemoveFromWhitelist(authority, key)
  BY <1>10, SameVaultTypeOK
  DEF RemoveFromWhitelist, CanRemoveFromWhitelist, TypeOK, Initialized
<1> QED
  BY <1>1, <1>2, <1>3, <1>4, <1>5, <1>6, <1>7, <1>8, <1>9, <1>10
     DEF Configuration, Addresses, Settings

-----------------------------------------------------------------------------
(* What a step does to the vault and to the ledger                         *)

\* add_liquidity and send_to_liquidity: the vault and the ledger gain the same
\* amount; no other account of the bridge changes.
Deposited(amount) ==
  /\ Initialized
  /\ VaultServes
  /\ amount \in U64
  /\ bridge_state.vault_amount + amount \in U64
  /\ bridge_state' =
       [bridge_state EXCEPT !.vault_amount = bridge_state.vault_amount + amount]
  /\ \A a \in TokenAccounts :
       a.owner = BridgePda =>
         tokens'[a] = IF a = bridge_state.vault
                      THEN tokens[a] + amount ELSE tokens[a]

\* remove_liquidity and send_from_liquidity: an amount the ledger holds leaves
\* the vault for `target'.
PaidOut(target, amount) ==
  /\ Initialized
  /\ VaultServes
  /\ target \in opened
  /\ amount \in U64
  /\ amount <= bridge_state.vault_amount
  /\ bridge_state' =
       [bridge_state EXCEPT !.vault_amount = bridge_state.vault_amount - amount]
  /\ tokens' = Transfer(tokens, bridge_state.vault, target, amount)
  /\ target.owner = Admin \/ ~RelayerSilenced

\* Any other step but the first and update_whitelisted_mint: the mint, the
\* vault and the ledger stay, and no account of the bridge loses a token.
Kept ==
  /\ Initialized' <=> Initialized
  /\ Initialized =>
       /\ bridge_state'.mint_of_token_whitelisted =
            bridge_state.mint_of_token_whitelisted
       /\ bridge_state'.vault = bridge_state.vault
       /\ bridge_state'.vault_amount = bridge_state.vault_amount
  /\ \A a \in TokenAccounts : a.owner = BridgePda => tokens'[a] >= tokens[a]

\* The variables keep their types, and accounts are created, never removed.
TokensTyped ==
  /\ tokens' \in [TokenAccounts -> U64]
  /\ opened \subseteq opened'
  /\ opened' \subseteq TokenAccounts
  /\ \A a \in TokenAccounts \ opened' : tokens'[a] = 0
  /\ UNCHANGED whitelist

\* A transfer between accounts that exist leaves the others empty.
LEMMA TransferTyped ==
  ASSUME TypeOK,
         NEW from \in opened, NEW to \in opened, NEW amount \in U64,
         CanTransfer(tokens, from, to, amount),
         tokens' = Transfer(tokens, from, to, amount),
         UNCHANGED <<whitelist, opened>>
  PROVE  TokensTyped
<1>1. from \in TokenAccounts /\ to \in TokenAccounts
  BY DEF TypeOK
<1>2. tokens' \in [TokenAccounts -> U64]
  BY <1>1, TransferType DEF TypeOK
<1>3. ASSUME NEW a \in TokenAccounts \ opened
      PROVE  tokens'[a] = 0
  BY <1>1, TransferBalance DEF TypeOK
<1> QED
  BY <1>2, <1>3 DEF TypeOK, TokensTyped

\* The accounts a movement of the ledger goes between.
LEMMA VaultTyped ==
  ASSUME TypeOK, Initialized
  PROVE  /\ bridge_state \in BridgeState
         /\ bridge_state.vault \in opened
         /\ bridge_state.vault \in TokenAccounts
         /\ bridge_state.vault.owner = BridgePda
<1>1. PICK m \in Mints : bridge_state.vault = Ata(BridgePda, m)
  BY DEF TypeOK
<1> QED
  BY <1>1, VaultAccount DEF TypeOK, Initialized

LEMMA AddLiquidityStep ==
  ASSUME TypeOK, NEW authority \in Keys, NEW source \in TokenAccounts,
         NEW amount \in Amounts, AddLiquidity(authority, source, amount)
  PROVE  TokensTyped /\ Deposited(amount)
<1> USE DEF AddLiquidity, CanAddLiquidity, ByAdmin, HeldBy
<1>1. amount \in U64
  BY AmountsAssumption
<1>2. TokensTyped
  BY <1>1, VaultTyped, TransferTyped
<1>3. /\ bridge_state.vault_amount + amount \in U64
      /\ bridge_state' =
           [bridge_state EXCEPT !.vault_amount = bridge_state.vault_amount + amount]
  BY <1>1, VaultTyped, AmountsAssumption DEF CanCredit, Credited, U64, BridgeState
<1>4. source # bridge_state.vault /\ source.owner # BridgePda
  BY VaultTyped, KeysAssumption
<1>5. ASSUME NEW a \in TokenAccounts, a.owner = BridgePda
      PROVE  tokens'[a] = IF a = bridge_state.vault
                          THEN tokens[a] + amount ELSE tokens[a]
  <2>1. bridge_state.vault \in TokenAccounts /\ tokens \in [TokenAccounts -> U64]
    BY VaultTyped DEF TypeOK
  <2>2. a # source
    BY <1>4, <1>5
  <2> QED
    BY <1>1, <1>4, <2>1, <2>2, TransferBalance
<1> QED
  BY <1>1, <1>2, <1>3, <1>5 DEF Deposited

\* What the two instructions that pay out of the vault have in common.
LEMMA PayoutStep ==
  ASSUME TypeOK, Initialized, VaultServes,
         NEW target \in opened, NEW amount \in Amounts,
         CanDebit(amount),
         bridge_state' = Debited(amount),
         CanTransfer(tokens, bridge_state.vault, target, amount),
         tokens' = Transfer(tokens, bridge_state.vault, target, amount),
         UNCHANGED <<whitelist, opened>>,
         target.owner = Admin \/ ~RelayerSilenced
  PROVE  TokensTyped /\ PaidOut(target, amount)
<1>1. amount \in U64
  BY AmountsAssumption
<1>2. TokensTyped
  BY <1>1, VaultTyped, TransferTyped
<1>3. /\ amount <= bridge_state.vault_amount
      /\ bridge_state' =
           [bridge_state EXCEPT !.vault_amount = bridge_state.vault_amount - amount]
  BY <1>1, VaultTyped DEF CanDebit, Debited, BridgeState
<1> QED
  BY <1>1, <1>2, <1>3 DEF PaidOut

LEMMA RemoveLiquidityStep ==
  ASSUME TypeOK, NEW authority \in Keys, NEW target \in TokenAccounts,
         NEW amount \in Amounts, RemoveLiquidity(authority, target, amount)
  PROVE  TokensTyped /\ PaidOut(target, amount)
  BY PayoutStep DEF RemoveLiquidity, CanRemoveLiquidity, ByAdmin, HeldBy

LEMMA SendFromLiquidityStep ==
  ASSUME TypeOK, NEW authority \in Keys, NEW receiver \in Pubkeys,
         NEW target \in TokenAccounts, NEW amount \in Amounts,
         SendFromLiquidity(authority, receiver, target, amount)
  PROVE  TokensTyped /\ PaidOut(target, amount)
<1>1. ~RelayerSilenced
  BY DEF SendFromLiquidity, CanSendFromLiquidity, RelayerActive, RelayerSilenced,
         Active, Inactive
<1> QED
  BY <1>1, PayoutStep DEF SendFromLiquidity, CanSendFromLiquidity, HeldBy

\* The fee leaves the depositor's account for the collector's, and neither is
\* the bridge's; the deposit then goes from the depositor to the vault.
LEMMA SendToLiquidityStep ==
  ASSUME TypeOK, NEW authority \in Keys, NEW source \in TokenAccounts,
         NEW fee_source \in TokenAccounts, NEW provided \in SUBSET FeeAccounts,
         NEW amount \in Amounts,
         SendToLiquidity(authority, source, fee_source, provided, amount)
  PROVE  TokensTyped /\ Deposited(amount)
<1>1. amount \in U64
  BY AmountsAssumption
<1>2. Initialized /\ VaultServes
  BY DEF SendToLiquidity, CanSendToLiquidity
<1>3. /\ source \in opened
      /\ source.owner = authority
      /\ authority # BridgePda
      /\ source # bridge_state.vault
  BY <1>2, VaultTyped, KeysAssumption DEF SendToLiquidity, CanSendToLiquidity, HeldBy
<1>4. /\ bridge_state.vault_amount + amount \in U64
      /\ bridge_state' =
           [bridge_state EXCEPT !.vault_amount = bridge_state.vault_amount + amount]
  BY <1>1, <1>2, VaultTyped, AmountsAssumption
  DEF SendToLiquidity, CanSendToLiquidity, CanCredit, Credited, U64, BridgeState
<1>5. tokens \in [TokenAccounts -> U64] /\ opened \subseteq TokenAccounts
  BY DEF TypeOK
<1>6. bridge_state.fee_amount \in U64
  BY <1>2, VaultTyped DEF BridgeState
<1>7. ASSUME HasFee
      PROVE  /\ fee_source \in opened
             /\ fee_source.owner = authority
             /\ FeeAta \in TokenAccounts
             /\ FeeAta.owner # BridgePda
             /\ FeeAta \in opened'
             /\ CanTransfer(tokens, fee_source, FeeAta, bridge_state.fee_amount)
  <2>1. /\ provided = FeeAccounts
        /\ CanTransfer(tokens, fee_source, FeeAta, bridge_state.fee_amount)
    BY <1>7 DEF SendToLiquidity, CanSendToLiquidity
  <2>2. bridge_state.fee_collector \in CollectorChoices \intersect Keys
    BY <1>2, <2>1, VaultTyped DEF SendToLiquidity, CanSendToLiquidity, FeeAccounts, BridgeState
  <2>3. FeeAta \in TokenAccounts /\ FeeAta.owner # BridgePda
    BY <2>2, AccountsAssumption, KeysAssumption DEF FeeAta, Ata
  <2>4. FeeAta \in opened'
    BY <2>1 DEF SendToLiquidity, CanSendToLiquidity, Created, FeeAccounts
  <2>5. fee_source \in opened /\ fee_source.owner = authority
    BY <2>1 DEF SendToLiquidity, CanSendToLiquidity, FeeAccounts, FeeSourceOk
  <2> QED
    BY <2>1, <2>3, <2>4, <2>5
<1>8. /\ AfterFee(fee_source) \in [TokenAccounts -> U64]
      /\ \A a \in TokenAccounts :
           a.owner = BridgePda => AfterFee(fee_source)[a] = tokens[a]
  <2>1. CASE HasFee
    <3>1. AfterFee(fee_source) \in [TokenAccounts -> U64]
      BY <1>5, <1>6, <1>7, <2>1, TransferType DEF AfterFee
    <3>2. ASSUME NEW a \in TokenAccounts, a.owner = BridgePda
          PROVE  AfterFee(fee_source)[a] = tokens[a]
      <4>1. a # fee_source /\ a # FeeAta
        BY <1>3, <1>7, <2>1, <3>2
      <4> QED
        BY <1>5, <1>6, <1>7, <2>1, <4>1, TransferBalance DEF AfterFee
    <3> QED
      BY <3>1, <3>2
  <2>2. CASE ~HasFee
    BY <1>5, <2>2 DEF AfterFee
  <2> QED
    BY <2>1, <2>2
<1>9. /\ CanTransfer(AfterFee(fee_source), source, bridge_state.vault, amount)
      /\ tokens' = Transfer(AfterFee(fee_source), source, bridge_state.vault, amount)
      /\ bridge_state.vault \in TokenAccounts
      /\ bridge_state.vault \in opened
  BY <1>2, VaultTyped DEF SendToLiquidity, CanSendToLiquidity
<1>10. tokens' \in [TokenAccounts -> U64]
  BY <1>1, <1>8, <1>9, TransferType
<1>11. ASSUME NEW a \in TokenAccounts, a.owner = BridgePda
       PROVE  tokens'[a] = IF a = bridge_state.vault
                           THEN tokens[a] + amount ELSE tokens[a]
  <2>1. a # source /\ AfterFee(fee_source)[a] = tokens[a]
    BY <1>3, <1>8, <1>11
  <2> QED
    BY <1>1, <1>3, <1>8, <1>9, <2>1, TransferBalance
<1>12. /\ opened \subseteq opened'
       /\ opened' \subseteq TokenAccounts
       /\ UNCHANGED whitelist
  <2>1. opened' = opened \union Created(provided) /\ UNCHANGED whitelist
    BY DEF SendToLiquidity, CanSendToLiquidity
  <2>2. ASSUME "fee_collector_ata" \in provided
        PROVE  FeeAta \in TokenAccounts
    <3>1. bridge_state.fee_collector \in CollectorChoices \intersect Keys
      BY <1>2, <2>2, VaultTyped DEF SendToLiquidity, CanSendToLiquidity, BridgeState
    <3> QED
      BY <3>1, AccountsAssumption DEF FeeAta
  <2> QED
    BY <1>5, <2>1, <2>2 DEF Created
<1>13. ASSUME NEW a \in TokenAccounts \ opened'
       PROVE  tokens'[a] = 0
  <2>1. a # source /\ a # bridge_state.vault /\ tokens[a] = 0
    BY <1>3, <1>9, <1>12 DEF TypeOK
  <2>2. AfterFee(fee_source)[a] = 0
    <3>1. CASE HasFee
      <4>1. a # fee_source /\ a # FeeAta
        BY <1>7, <1>12, <3>1
      <4> QED
        BY <1>5, <1>6, <1>7, <2>1, <3>1, <4>1, TransferBalance DEF AfterFee
    <3>2. CASE ~HasFee
      BY <2>1, <3>2 DEF AfterFee
    <3> QED
      BY <3>1, <3>2
  <2> QED
    BY <1>1, <1>3, <1>5, <1>8, <1>9, <2>1, <2>2, TransferBalance
<1>14. TokensTyped
  BY <1>10, <1>12, <1>13 DEF TokensTyped
<1> QED
  BY <1>1, <1>2, <1>4, <1>11, <1>14 DEF Deposited

\* A transfer outside the program: its payer signs, so it is not the bridge.
LEMMA SplTransferStep ==
  ASSUME TypeOK, NEW authority \in Keys, NEW from \in TokenAccounts,
         NEW to \in TokenAccounts, NEW amount \in Amounts,
         SplTransfer(authority, from, to, amount)
  PROVE  TokensTyped /\ Kept /\ UNCHANGED bridge_state
<1> USE DEF SplTransfer
<1>1. amount \in U64 /\ amount >= 0
  BY AmountsAssumption DEF U64
<1>2. TokensTyped
  BY <1>1, TransferTyped
<1>3. ASSUME NEW a \in TokenAccounts, a.owner = BridgePda
      PROVE  tokens'[a] >= tokens[a]
  <2>1. a # from /\ tokens \in [TokenAccounts -> U64]
    BY <1>3, KeysAssumption DEF TypeOK
  <2> QED
    BY <1>1, <2>1, AmountsAssumption, TransferBalance DEF U64
<1> QED
  BY <1>2, <1>3 DEF Kept, Initialized

\* No configuration moves a token, and only update_whitelisted_mint touches
\* the mint and the ledger.
LEMMA ConfigurationStep ==
  ASSUME TypeOK, NEW authority \in Keys, Configuration(authority)
  PROVE  /\ tokens' = tokens
         /\ Initialized
         /\ \/ Kept
            \/ \E mint \in Mints : UpdateWhitelistedMint(authority, mint)
<1>1. /\ tokens' = tokens
      /\ Initialized
  BY DEF Configuration, Addresses, Settings, ByAdmin, UpdateRelayer, UpdateFeeCollector,
         UpdateWhitelistedMint, SetDepositLimits, SetFeeAmount, SetRelayerState,
         SetPublicState, CanSetPublicState, SetWhitelistState, AddToWhitelist,
         CanAddToWhitelist, RemoveFromWhitelist, CanRemoveFromWhitelist
<1>2. \A a \in TokenAccounts : tokens'[a] >= tokens[a]
  BY <1>1, AmountsAssumption DEF TypeOK, U64
<1>3. bridge_state \in BridgeState
  BY <1>1, VaultTyped
<1>4. Initialized'
  BY ConfigurationTypeOK
<1>5. \/ \E mint \in Mints : UpdateWhitelistedMint(authority, mint)
      \/ /\ bridge_state'.mint_of_token_whitelisted =
              bridge_state.mint_of_token_whitelisted
         /\ bridge_state'.vault = bridge_state.vault
         /\ bridge_state'.vault_amount = bridge_state.vault_amount
  BY <1>3
  DEF Configuration, Addresses, Settings, UpdateRelayer, UpdateFeeCollector,
      SetDepositLimits, SetFeeAmount, SetRelayerState,
      SetPublicState, SetWhitelistState, AddToWhitelist, RemoveFromWhitelist,
      BridgeState
<1> QED
  BY <1>1, <1>2, <1>4, <1>5 DEF Kept

\* The kinds of step, by what they do to the vault and the ledger.
StepKind ==
  \/ \E authority \in Keys : Initialization(authority)
  \/ \E authority \in Keys, mint \in Mints : UpdateWhitelistedMint(authority, mint)
  \/ \E amount \in U64 : Deposited(amount)
  \/ \E target \in TokenAccounts, amount \in U64 : PaidOut(target, amount)
  \/ Kept

LEMMA NextStep ==
  ASSUME TypeOK, [Next]_vars
  PROVE  TypeOK' /\ StepKind
<1>1. CASE UNCHANGED vars
  <2>1. \A a \in TokenAccounts : tokens'[a] >= tokens[a]
    BY <1>1, AmountsAssumption DEF vars, TypeOK, U64
  <2> QED
    BY <1>1, <2>1 DEF vars, TypeOK, Initialized, Ata, StepKind, Kept
<1>2. ASSUME NEW authority \in Keys, Initialization(authority)
      PROVE  TypeOK' /\ StepKind
  BY <1>2, InitializeTypeOK DEF StepKind
<1>3. ASSUME NEW authority \in Keys, Configuration(authority)
      PROVE  TypeOK' /\ StepKind
  BY <1>3, ConfigurationTypeOK, ConfigurationStep DEF StepKind
<1>4. ASSUME NEW authority \in Keys, Movement(authority)
      PROVE  TypeOK' /\ StepKind
  <2>1. PICK account \in TokenAccounts, amount \in Amounts :
          \/ AddLiquidity(authority, account, amount)
          \/ RemoveLiquidity(authority, account, amount)
          \/ \E receiver \in Pubkeys :
               SendFromLiquidity(authority, receiver, account, amount)
          \/ \E fee_source \in TokenAccounts, provided \in SUBSET FeeAccounts :
               SendToLiquidity(authority, account, fee_source, provided, amount)
          \/ \E to \in TokenAccounts : SplTransfer(authority, account, to, amount)
    BY <1>4 DEF Movement, Liquidity, Bridging, TokenTransfers
  <2>2. amount \in U64
    BY AmountsAssumption
  <2>3. TokensTyped /\ (\/ Deposited(amount)
                        \/ PaidOut(account, amount)
                        \/ Kept /\ UNCHANGED bridge_state)
    BY <2>1, AddLiquidityStep, RemoveLiquidityStep, SendFromLiquidityStep,
       SendToLiquidityStep, SplTransferStep
  <2>4. CASE Kept /\ UNCHANGED bridge_state
    BY <2>3, <2>4 DEF TypeOK, TokensTyped, Initialized, Ata, StepKind
  <2>5. CASE Deposited(amount) \/ PaidOut(account, amount)
    <3>1. /\ Initialized
          /\ bridge_state' \in BridgeState
          /\ bridge_state'.vault = bridge_state.vault
          /\ bridge_state'.mint_of_token_whitelisted =
               bridge_state.mint_of_token_whitelisted
      <4>1. Initialized /\ bridge_state \in BridgeState
        BY <2>5, VaultTyped DEF Deposited, PaidOut
      <4>2. CASE Deposited(amount)
        BY <4>1, <4>2 DEF Deposited, BridgeState
      <4>3. CASE PaidOut(account, amount)
        <5>1. bridge_state.vault_amount - amount \in U64
          BY <2>2, <4>1, <4>3, AmountsAssumption DEF PaidOut, BridgeState, U64
        <5> QED
          BY <4>1, <4>3, <5>1 DEF PaidOut, BridgeState
      <4> QED
        BY <2>5, <4>1, <4>2, <4>3
    <3>2. TypeOK'
      BY <2>3, <3>1, SameVaultTypeOK DEF TokensTyped, TypeOK
    <3> QED
      BY <2>2, <2>5, <3>2 DEF StepKind
  <2> QED
    BY <2>3, <2>4, <2>5
<1>5. ASSUME NEW account \in TokenAccounts, OpenAccount(account)
      PROVE  TypeOK' /\ StepKind
  <2>1. \A a \in TokenAccounts : tokens'[a] >= tokens[a]
    BY <1>5, AmountsAssumption DEF OpenAccount, TypeOK, U64
  <2> QED
    BY <1>5, <2>1 DEF OpenAccount, TypeOK, Initialized, Ata, StepKind, Kept
<1>6. ASSUME NEW authority \in Keys, NEW account \in TokenAccounts,
             CloseAccount(authority, account)
      PROVE  TypeOK' /\ StepKind
  <2>1. \A a \in TokenAccounts : tokens'[a] >= tokens[a]
    BY <1>6, AmountsAssumption DEF CloseAccount, TypeOK, U64
  <2>2. Kept
    BY <1>6, <2>1 DEF CloseAccount, Kept, Initialized
  <2>3. account.owner # BridgePda
    BY <1>6, KeysAssumption DEF CloseAccount
  <2>4. ASSUME Initialized
        PROVE  /\ bridge_state.mint_of_token_whitelisted \in Mints
               /\ account # bridge_state.vault
               /\ account # Ata(BridgePda, bridge_state.mint_of_token_whitelisted)
    BY <2>3, <2>4, VaultTyped, VaultAccount DEF BridgeState
  <2> QED
    BY <1>6, <2>2, <2>4 DEF CloseAccount, TypeOK, Initialized, Ata, StepKind
<1> QED
  BY <1>1, <1>2, <1>3, <1>4, <1>5, <1>6 DEF Next, Configuration, Movement

\* Every reachable state is well-formed: balances and the ledger are u64s, an
\* account that was never created is empty, the recorded vault is an ATA of the
\* program and exists.
THEOREM TypeCorrect == Spec => []TypeOK
<1>1. TypeOK /\ [Next]_vars => TypeOK'
  BY NextStep
<1> QED
  BY InitTypeOK, <1>1, PTL DEF Spec

-----------------------------------------------------------------------------
(* Safety                                                                  *)

\* The strengthening of LedgerBacked that is inductive.
LedgerInv == TypeOK /\ LedgerBacked

LEMMA LedgerBackedStep ==
  ASSUME LedgerInv, [Next]_vars
  PROVE  LedgerBacked'
<1> USE DEF LedgerInv, LedgerBacked
<1>1. TypeOK /\ TypeOK' /\ StepKind
  BY NextStep
<1>2. ASSUME NEW authority \in Keys, Initialization(authority)
      PROVE  LedgerBacked'
  <2>1. PICK mint \in Mints :
          /\ bridge_state'.vault_amount = 0
          /\ bridge_state'.mint_of_token_whitelisted = mint
          /\ tokens' = tokens
    BY <1>2 DEF Initialization, InitializeContract
  <2>2. tokens[Ata(BridgePda, mint)] \in U64
    BY VaultAccount, <1>1 DEF TypeOK
  <2> QED
    BY <2>1, <2>2, AmountsAssumption DEF U64, Ata
<1>3. ASSUME NEW authority \in Keys, NEW mint \in Mints,
             UpdateWhitelistedMint(authority, mint)
      PROVE  LedgerBacked'
  <2>1. /\ bridge_state'.vault_amount = tokens[Ata(BridgePda, mint)]
        /\ bridge_state'.mint_of_token_whitelisted = mint
        /\ tokens' = tokens
    BY <1>1, <1>3, VaultTyped DEF UpdateWhitelistedMint, ByAdmin, BridgeState
  <2>2. tokens[Ata(BridgePda, mint)] \in U64
    BY VaultAccount, <1>1 DEF TypeOK
  <2> QED
    BY <2>1, <2>2, AmountsAssumption DEF U64, Ata
<1>4. ASSUME NEW amount \in U64, Deposited(amount)
      PROVE  LedgerBacked'
  <2>1. /\ Initialized
        /\ bridge_state.vault = Ata(BridgePda, bridge_state.mint_of_token_whitelisted)
        /\ bridge_state.vault \in TokenAccounts
        /\ tokens'[bridge_state.vault] = tokens[bridge_state.vault] + amount
    BY <1>1, <1>4, VaultTyped DEF Deposited, VaultServes
  <2>2. /\ bridge_state'.vault_amount = bridge_state.vault_amount + amount
        /\ bridge_state'.mint_of_token_whitelisted =
             bridge_state.mint_of_token_whitelisted
        /\ bridge_state.vault_amount \in U64
        /\ tokens[bridge_state.vault] \in U64
    BY <1>1, <1>4, <2>1, VaultTyped DEF Deposited, BridgeState, TypeOK
  <2> QED
    BY <2>1, <2>2, AmountsAssumption DEF U64, Ata
<1>5. ASSUME NEW target \in TokenAccounts, NEW amount \in U64,
             PaidOut(target, amount)
      PROVE  LedgerBacked'
  <2>1. /\ Initialized
        /\ bridge_state.vault = Ata(BridgePda, bridge_state.mint_of_token_whitelisted)
        /\ bridge_state.vault \in TokenAccounts
        /\ tokens \in [TokenAccounts -> U64]
    BY <1>1, <1>5, VaultTyped DEF PaidOut, VaultServes, TypeOK
  <2>2. tokens'[bridge_state.vault] >= tokens[bridge_state.vault] - amount
    BY <1>5, <2>1, TransferBalance, AmountsAssumption DEF PaidOut, U64
  <2>3. /\ bridge_state'.vault_amount = bridge_state.vault_amount - amount
        /\ bridge_state'.mint_of_token_whitelisted =
             bridge_state.mint_of_token_whitelisted
        /\ bridge_state.vault_amount \in U64
        /\ tokens[bridge_state.vault] \in U64
        /\ tokens'[bridge_state.vault] \in U64
    BY <1>1, <1>5, <2>1, VaultTyped DEF PaidOut, BridgeState, TypeOK
  <2> QED
    BY <2>1, <2>2, <2>3, AmountsAssumption DEF U64, Ata
<1>6. CASE Kept
  <2>1. ASSUME Initialized'
        PROVE  bridge_state.vault_amount <=
                 tokens'[Ata(BridgePda, bridge_state.mint_of_token_whitelisted)]
    <3>1. Initialized /\ bridge_state.mint_of_token_whitelisted \in Mints
      BY <1>1, <1>6, <2>1, VaultTyped DEF Kept, BridgeState
    <3> DEFINE v == Ata(BridgePda, bridge_state.mint_of_token_whitelisted)
    <3>2. v \in TokenAccounts /\ v.owner = BridgePda
      BY <3>1, VaultAccount
    <3>3. /\ bridge_state.vault_amount \in U64
          /\ tokens[v] \in U64
          /\ tokens'[v] \in U64
          /\ tokens'[v] >= tokens[v]
      BY <1>1, <1>6, <3>1, <3>2, VaultTyped DEF TypeOK, BridgeState, Kept
    <3> QED
      BY <3>1, <3>3, AmountsAssumption DEF U64
  <2> QED
    BY <1>6, <2>1 DEF Kept, Initialized, Ata
<1> QED
  BY <1>1, <1>2, <1>3, <1>4, <1>5, <1>6 DEF StepKind

\* Every unit the program counts as liquidity is held by its own account for
\* the whitelisted mint, whatever was deposited, paid out, sent to the vault
\* directly, or switched.
THEOREM LedgerIsBacked == Spec => []LedgerBacked
<1>1. Init => LedgerInv
  BY InitTypeOK DEF Init, LedgerInv, LedgerBacked, Initialized
<1>2. LedgerInv /\ [Next]_vars => LedgerInv'
  BY LedgerBackedStep, NextStep DEF LedgerInv
<1>3. LedgerInv => LedgerBacked
  BY DEF LedgerInv
<1> QED
  BY <1>1, <1>2, <1>3, PTL DEF Spec

-----------------------------------------------------------------------------
(* Action properties                                                       *)

\* What a payout does to each balance.
LEMMA PaidOutBalance ==
  ASSUME TypeOK, NEW target \in TokenAccounts, NEW amount \in U64,
         PaidOut(target, amount), NEW a \in TokenAccounts
  PROVE  tokens'[a] =
           IF bridge_state.vault = target THEN tokens[a]
           ELSE IF a = bridge_state.vault THEN tokens[a] - amount
           ELSE IF a = target THEN tokens[a] + amount
           ELSE tokens[a]
  BY VaultTyped, TransferBalance DEF PaidOut, TypeOK

\* initialize_contract and update_whitelisted_mint move no token.
LEMMA NoTokenMoves ==
  ASSUME NEW authority \in Keys,
         \/ Initialization(authority)
         \/ \E mint \in Mints : UpdateWhitelistedMint(authority, mint)
  PROVE  tokens' = tokens
<1>1. CASE Initialization(authority)
  BY <1>1 DEF Initialization, InitializeContract
<1>2. CASE \E mint \in Mints : UpdateWhitelistedMint(authority, mint)
  BY <1>2 DEF UpdateWhitelistedMint
<1> QED
  BY <1>1, <1>2

LEMMA OutflowStep ==
  ASSUME TypeOK, [Next]_vars
  PROVE  BridgeOutflowLedgered
<1> SUFFICES ASSUME NEW a \in TokenAccounts, a.owner = BridgePda, Outflow(a) > 0
             PROVE  OutflowLedgered(a)
  BY DEF BridgeOutflowLedgered
<1>1. StepKind /\ TypeOK'
  BY NextStep
<1>2. /\ tokens[a] \in U64 /\ tokens'[a] \in U64
      /\ tokens'[a] < tokens[a]
  BY <1>1, AmountsAssumption DEF TypeOK, Outflow, U64
<1>3. ASSUME NEW authority \in Keys,
             \/ Initialization(authority)
             \/ \E mint \in Mints : UpdateWhitelistedMint(authority, mint)
      PROVE  FALSE
  <2>1. tokens' = tokens
    BY <1>3, NoTokenMoves
  <2> QED
    BY <1>2, <2>1, AmountsAssumption DEF U64
<1>4. ASSUME NEW amount \in U64, Deposited(amount)
      PROVE  FALSE
  BY <1>2, <1>4, AmountsAssumption DEF Deposited, U64
<1>5. ASSUME Kept
      PROVE  FALSE
  BY <1>2, <1>5, AmountsAssumption DEF Kept, U64
<1>6. ASSUME NEW target \in TokenAccounts, NEW amount \in U64,
             PaidOut(target, amount)
      PROVE  OutflowLedgered(a)
  <2>1. /\ Initialized /\ VaultServes
        /\ bridge_state \in BridgeState
        /\ bridge_state.vault \in TokenAccounts
        /\ tokens \in [TokenAccounts -> U64]
    BY <1>6, VaultTyped DEF PaidOut, TypeOK
  <2>2. a = bridge_state.vault /\ amount = Outflow(a)
    BY <1>2, <1>6, <2>1, PaidOutBalance, AmountsAssumption DEF Outflow, U64
  <2> QED
    BY <1>6, <2>1, <2>2 DEF PaidOut, OutflowLedgered, BridgeState
<1> QED
  BY <1>1, <1>3, <1>4, <1>5, <1>6 DEF StepKind

\* Tokens leave the bridge only from the vault that serves, and with the ledger.
THEOREM OutflowLedgeredAlways == Spec => OutflowIsLedgered
<1>1. TypeOK /\ [Next]_vars => [BridgeOutflowLedgered]_vars
  BY OutflowStep
<1> QED
  BY TypeCorrect, <1>1, PTL DEF Spec, OutflowIsLedgered

LEMMA SilencedStep ==
  ASSUME TypeOK, [Next]_vars
  PROVE  OnlyAdminPaid
<1> SUFFICES ASSUME Initialized, RelayerSilenced,
                    NEW a \in TokenAccounts, VaultPays(a)
             PROVE  a.owner = Admin
  BY DEF OnlyAdminPaid
<1>1. StepKind /\ TypeOK'
  BY NextStep
<1>2. /\ tokens \in [TokenAccounts -> U64]
      /\ tokens' \in [TokenAccounts -> U64]
      /\ tokens[a] < tokens'[a]
  BY <1>1, AmountsAssumption DEF TypeOK, VaultPays, Outflow, U64
<1>3. PICK v \in TokenAccounts : v.owner = BridgePda /\ Outflow(v) > 0
  BY DEF VaultPays
<1>4. tokens[v] > tokens'[v]
  BY <1>2, <1>3, AmountsAssumption DEF Outflow, U64
<1>5. \E target \in TokenAccounts, amount \in U64 : PaidOut(target, amount)
  <2>1. ASSUME NEW authority \in Keys,
               \/ Initialization(authority)
               \/ \E mint \in Mints : UpdateWhitelistedMint(authority, mint)
        PROVE  FALSE
    <3>1. tokens' = tokens
      BY <2>1, NoTokenMoves
    <3> QED
      BY <1>2, <1>4, <3>1, AmountsAssumption DEF U64
  <2>2. ASSUME NEW amount \in U64, Deposited(amount)
        PROVE  FALSE
    BY <1>2, <1>3, <1>4, <2>2, AmountsAssumption DEF Deposited, U64
  <2>3. ASSUME Kept
        PROVE  FALSE
    BY <1>2, <1>3, <1>4, <2>3, AmountsAssumption DEF Kept, U64
  <2> QED
    BY <1>1, <2>1, <2>2, <2>3 DEF StepKind
<1>6. PICK target \in TokenAccounts, amount \in U64 : PaidOut(target, amount)
  BY <1>5
<1>7. a = target
  <2>1. tokens[a] \in U64 /\ a # bridge_state.vault
    BY <1>2, <1>6, VaultTyped DEF PaidOut, VaultPays
  <2> QED
    BY <1>2, <1>6, <2>1, PaidOutBalance, AmountsAssumption DEF U64
<1> QED
  BY <1>6, <1>7 DEF PaidOut

\* While the relayer is paused, or its key is one nobody signs with, the vault
\* pays nobody but the administrator.
THEOREM SilencedRelayerPays == Spec => SilencedRelayerPaysOnlyAdmin
<1>1. TypeOK /\ [Next]_vars => [OnlyAdminPaid]_vars
  BY SilencedStep
<1> QED
  BY TypeCorrect, <1>1, PTL DEF Spec, SilencedRelayerPaysOnlyAdmin

LEMMA SurplusStep ==
  ASSUME TypeOK, [Next]_vars
  PROVE  SurplusKept
<1> SUFFICES ASSUME Initialized, SameMint
             PROVE  \/ Surplus' >= Surplus
                    \/ Surplus' = 0 /\ tokens' = tokens
  BY DEF SurplusKept
<1> DEFINE v == Ata(BridgePda, bridge_state.mint_of_token_whitelisted)
<1>1. StepKind /\ TypeOK'
  BY NextStep
<1>2. v \in TokenAccounts /\ v.owner = BridgePda
  BY VaultTyped, VaultAccount DEF BridgeState
<1>3. /\ Surplus = tokens[v] - bridge_state.vault_amount
      /\ Surplus' = tokens'[v] - bridge_state'.vault_amount
  BY DEF Surplus, SameMint, Ata
<1>4. /\ tokens[v] \in U64
      /\ tokens'[v] \in U64
      /\ bridge_state \in BridgeState
      /\ bridge_state.vault_amount \in U64
  BY <1>1, <1>2, VaultTyped DEF TypeOK, BridgeState
<1> HIDE DEF v
<1>5. ~\E authority \in Keys : Initialization(authority)
  BY DEF Initialization, InitializeContract, CanInitializeContract
<1>6. ASSUME NEW authority \in Keys, NEW mint \in Mints,
             UpdateWhitelistedMint(authority, mint)
      PROVE  Surplus' = 0 /\ tokens' = tokens
  <2>1. /\ bridge_state'.vault_amount = tokens[Ata(BridgePda, mint)]
        /\ bridge_state'.mint_of_token_whitelisted = mint
        /\ tokens' = tokens
    BY <1>4, <1>6 DEF UpdateWhitelistedMint, BridgeState
  <2>2. v = Ata(BridgePda, mint)
    BY <2>1 DEF SameMint, v
  <2> QED
    BY <1>3, <1>4, <2>1, <2>2, AmountsAssumption DEF U64
<1>7. ASSUME NEW amount \in U64, Deposited(amount)
      PROVE  Surplus' >= Surplus
  <2>1. v = bridge_state.vault
    BY <1>7 DEF Deposited, VaultServes, v
  <2>2. tokens'[v] = tokens[v] + amount
    BY <1>2, <1>7, <2>1 DEF Deposited
  <2>3. bridge_state'.vault_amount = bridge_state.vault_amount + amount
    BY <1>4, <1>7 DEF Deposited, BridgeState
  <2> QED
    BY <1>3, <1>4, <2>2, <2>3, AmountsAssumption DEF U64
<1>8. ASSUME NEW target \in TokenAccounts, NEW amount \in U64,
             PaidOut(target, amount)
      PROVE  Surplus' >= Surplus
  <2>1. v = bridge_state.vault
    BY <1>8 DEF PaidOut, VaultServes, v
  <2>2. tokens'[v] = tokens[v] - amount \/ tokens'[v] = tokens[v]
    BY <1>2, <1>8, <2>1, PaidOutBalance
  <2>3. bridge_state'.vault_amount = bridge_state.vault_amount - amount
    BY <1>4, <1>8 DEF PaidOut, BridgeState
  <2> QED
    BY <1>3, <1>4, <2>2, <2>3, AmountsAssumption DEF U64
<1>9. ASSUME Kept
      PROVE  Surplus' >= Surplus
  <2>1. /\ tokens'[v] >= tokens[v]
        /\ bridge_state'.vault_amount = bridge_state.vault_amount
    BY <1>2, <1>9 DEF Kept
  <2> QED
    BY <1>3, <1>4, <2>1, AmountsAssumption DEF U64
<1> QED
  BY <1>1, <1>5, <1>6, <1>7, <1>8, <1>9 DEF StepKind

\* What the ledger does not count is never paid out, only recounted.
THEOREM SurplusIsKept == Spec => SurplusOnlyResynced
<1>1. TypeOK /\ [Next]_vars => [SurplusKept]_vars
  BY SurplusStep
<1> QED
  BY TypeCorrect, <1>1, PTL DEF Spec, SurplusOnlyResynced

\* Nobody but the depositor loses tokens in send_to_liquidity.
LEMMA DepositorPays ==
  ASSUME TypeOK, NEW authority \in Keys, NEW source \in TokenAccounts,
         NEW fee_source \in TokenAccounts, NEW provided \in SUBSET FeeAccounts,
         NEW amount \in Amounts,
         SendToLiquidity(authority, source, fee_source, provided, amount),
         NEW a \in TokenAccounts, a.owner # authority
  PROVE  tokens'[a] >= tokens[a]
<1>1. /\ Initialized
      /\ source.owner = authority
      /\ tokens' = Transfer(AfterFee(fee_source), source, bridge_state.vault, amount)
      /\ HasFee => /\ provided = FeeAccounts
                   /\ FeeSourceOk(authority, fee_source)
                   /\ CanTransfer(tokens, fee_source, FeeAta, bridge_state.fee_amount)
                   /\ bridge_state.fee_collector \in Keys
  BY DEF SendToLiquidity, CanSendToLiquidity, HeldBy, FeeAccounts
<1>2. /\ amount \in U64
      /\ bridge_state.fee_amount \in U64
      /\ bridge_state.vault \in TokenAccounts
      /\ bridge_state.fee_collector \in CollectorChoices
      /\ tokens \in [TokenAccounts -> U64]
  BY <1>1, VaultTyped, AmountsAssumption DEF BridgeState, TypeOK
<1>3. HasFee => FeeAta \in TokenAccounts
  BY <1>1, <1>2, AccountsAssumption DEF FeeAta
<1>4. /\ AfterFee(fee_source) \in [TokenAccounts -> U64]
      /\ AfterFee(fee_source)[a] >= tokens[a]
  <2>1. CASE HasFee
    <3>1. /\ a # fee_source
          /\ AfterFee(fee_source) =
               Transfer(tokens, fee_source, FeeAta, bridge_state.fee_amount)
      BY <1>1, <2>1 DEF FeeSourceOk, AfterFee
    <3>2. AfterFee(fee_source) \in [TokenAccounts -> U64]
      BY <1>1, <1>2, <1>3, <2>1, <3>1, TransferType
    <3>3. AfterFee(fee_source)[a] =
            IF fee_source = FeeAta \/ a # FeeAta
            THEN tokens[a] ELSE tokens[a] + bridge_state.fee_amount
      BY <1>2, <1>3, <2>1, <3>1, TransferBalance
    <3> QED
      BY <1>2, <3>2, <3>3, AmountsAssumption DEF U64
  <2>2. CASE ~HasFee
    BY <1>2, <2>2, AmountsAssumption DEF AfterFee, U64
  <2> QED
    BY <2>1, <2>2
<1>5. a # source
  BY <1>1
<1>6. tokens'[a] = AfterFee(fee_source)[a]
      \/ tokens'[a] = AfterFee(fee_source)[a] + amount
  BY <1>1, <1>2, <1>4, <1>5, TransferBalance
<1> QED
  BY <1>2, <1>4, <1>6, AmountsAssumption DEF U64

\* A step in which a key that is not the administrator pays while the ledger
\* grows is that key's send_to_liquidity of what the ledger grows by.
LEMMA DepositIsSend ==
  ASSUME TypeOK, [Next]_vars, NEW k \in Keys \ {Admin}, DepositBy(k)
  PROVE  \E account \in TokenAccounts, fee_source \in TokenAccounts,
            provided \in SUBSET FeeAccounts :
           /\ Deposit \in Amounts
           /\ SendToLiquidity(k, account, fee_source, provided, Deposit)
<1>1. PICK a \in TokenAccounts : a.owner = k /\ Outflow(a) > 0
  BY DEF DepositBy
<1>2. TypeOK' /\ Initialized /\ bridge_state \in BridgeState
  BY NextStep, VaultTyped DEF DepositBy
<1>3. tokens[a] \in U64 /\ tokens'[a] \in U64 /\ ~(tokens'[a] >= tokens[a])
  BY <1>1, <1>2, AmountsAssumption DEF TypeOK, Outflow, U64
<1>4. tokens' # tokens /\ bridge_state' # bridge_state
  <2>1. bridge_state.vault_amount \in U64
    BY <1>2 DEF BridgeState
  <2>2. ~(bridge_state.vault_amount > bridge_state.vault_amount)
    BY <2>1, AmountsAssumption DEF U64
  <2> QED
    BY <1>3, <2>2, AmountsAssumption DEF DepositBy, U64
<1>5. PICK authority \in Keys : Movement(authority)
  BY <1>2, <1>4, ConfigurationStep, NoTokenMoves
  DEF Next, Configuration, Movement, vars, OpenAccount, CloseAccount, DepositBy
<1>6. PICK account \in TokenAccounts, amount \in Amounts :
        \/ AddLiquidity(authority, account, amount)
        \/ RemoveLiquidity(authority, account, amount)
        \/ \E receiver \in Pubkeys :
             SendFromLiquidity(authority, receiver, account, amount)
        \/ \E fee_source \in TokenAccounts, provided \in SUBSET FeeAccounts :
             SendToLiquidity(authority, account, fee_source, provided, amount)
        \/ \E to \in TokenAccounts : SplTransfer(authority, account, to, amount)
  BY <1>5 DEF Movement, Liquidity, Bridging, TokenTransfers
<1>7. amount \in U64
  BY AmountsAssumption
<1>8. ~PaidOut(account, amount)
  <2>1. ASSUME PaidOut(account, amount)
        PROVE  FALSE
    <3>1. bridge_state.vault_amount - amount \in U64
      BY <1>2, <1>7, <2>1, AmountsAssumption DEF PaidOut, BridgeState, U64
    <3>2. bridge_state'.vault_amount = bridge_state.vault_amount - amount
      BY <1>2, <2>1, <3>1 DEF PaidOut, BridgeState
    <3> QED
      BY <1>2, <1>7, <3>1, <3>2, AmountsAssumption DEF DepositBy, BridgeState, U64
  <2> QED
    BY <2>1
<1>9. ~AddLiquidity(authority, account, amount)
  <2>1. ASSUME AddLiquidity(authority, account, amount)
        PROVE  FALSE
    <3>1. /\ Initialized
          /\ account.owner = Admin
          /\ tokens' = Transfer(tokens, account, bridge_state.vault, amount)
          /\ bridge_state.vault \in TokenAccounts
      BY <2>1, VaultTyped DEF AddLiquidity, CanAddLiquidity, ByAdmin, HeldBy
    <3>2. tokens'[a] = tokens[a] \/ tokens'[a] = tokens[a] + amount
      BY <1>1, <1>7, <3>1, TransferBalance DEF TypeOK
    <3> QED
      BY <1>3, <1>7, <3>2, AmountsAssumption DEF U64
  <2> QED
    BY <2>1
<1>10. PICK fee_source \in TokenAccounts, provided \in SUBSET FeeAccounts :
         SendToLiquidity(authority, account, fee_source, provided, amount)
  BY <1>4, <1>6, <1>8, <1>9, RemoveLiquidityStep, SendFromLiquidityStep, SplTransferStep
<1>11. authority = k
  BY <1>1, <1>3, <1>10, DepositorPays
<1>12. Deposit = amount
  <2>1. Deposited(amount)
    BY <1>10, SendToLiquidityStep
  <2>2. bridge_state'.vault_amount = bridge_state.vault_amount + amount
    BY <1>2, <2>1 DEF Deposited, BridgeState
  <2> QED
    BY <1>2, <1>7, <2>2, AmountsAssumption DEF Deposit, BridgeState, U64
<1> QED
  BY <1>10, <1>11, <1>12

LEMMA DepositsAdmittedStep ==
  ASSUME TypeOK, [Next]_vars
  PROVE  DepositsAdmitted
<1> SUFFICES ASSUME NEW k \in Keys \ {Admin}, DepositBy(k)
             PROVE  /\ bridge_state.minimum_deposit <= Deposit
                    /\ Deposit <= bridge_state.maximum_deposit
                    /\ Deposit %
                         10^Decimals[bridge_state.mint_of_token_whitelisted] = 0
                    /\ bridge_state.public_state = Active
                    /\ k \in whitelist \/ bridge_state.whitelist_state = Inactive
  BY DEF DepositsAdmitted
<1>1. DepositAccepted(k, Deposit)
  BY DepositIsSend DEF SendToLiquidity, CanSendToLiquidity
<1>2. bridge_state.whitelist_state \in State
  BY VaultTyped DEF DepositBy, BridgeState
<1> QED
  BY <1>1, <1>2 DEF DepositAccepted, check_amount, State

\* Every deposit that lands meets the pause, the whole-token rule, the limits
\* and the whitelist of the state it lands in.
THEOREM DepositsAreAdmitted == Spec => DepositAdmitted
<1>1. TypeOK /\ [Next]_vars => [DepositsAdmitted]_vars
  BY DepositsAdmittedStep
<1> QED
  BY TypeCorrect, <1>1, PTL DEF Spec, DepositAdmitted

-----------------------------------------------------------------------------
(* What a deposit costs                                                    *)

\* What each account of the depositor loses, and what the collector's gains:
\* the first transfer is not undone by the second, which reads the balance of
\* an account the first may have changed.
LEMMA DepositCosts ==
  ASSUME TypeOK, NEW k \in Keys, NEW source \in TokenAccounts,
         NEW fee_source \in TokenAccounts, NEW provided \in SUBSET FeeAccounts,
         NEW amount \in Amounts, k # bridge_state.fee_collector,
         SendToLiquidity(k, source, fee_source, provided, amount)
  PROVE  /\ source.owner = k
         /\ HasFee => fee_source.owner = k
         /\ HasFee => Outflow(FeeAta) = -bridge_state.fee_amount
         /\ \A a \in TokenAccounts : a.owner = k =>
              Outflow(a) = (IF a = source THEN amount ELSE 0)
                             + (IF HasFee /\ a = fee_source
                                THEN bridge_state.fee_amount ELSE 0)
<1>1. /\ Initialized
      /\ source.owner = k
      /\ tokens' = Transfer(AfterFee(fee_source), source, bridge_state.vault, amount)
      /\ HasFee => /\ provided = FeeAccounts
                   /\ FeeSourceOk(k, fee_source)
                   /\ CanTransfer(tokens, fee_source, FeeAta, bridge_state.fee_amount)
                   /\ bridge_state.fee_collector \in Keys
  BY DEF SendToLiquidity, CanSendToLiquidity, HeldBy, FeeAccounts
<1>2. /\ amount \in U64
      /\ bridge_state.fee_amount \in U64
      /\ bridge_state.vault \in TokenAccounts
      /\ bridge_state.vault.owner = BridgePda
      /\ bridge_state.fee_collector \in CollectorChoices
      /\ tokens \in [TokenAccounts -> U64]
      /\ k # BridgePda
  BY <1>1, VaultTyped, AmountsAssumption, KeysAssumption DEF BridgeState, TypeOK
<1>3. source # bridge_state.vault
  BY <1>1, <1>2
<1>4. HasFee => /\ fee_source.owner = k
                /\ FeeAta \in TokenAccounts
                /\ FeeAta.owner = bridge_state.fee_collector
                /\ FeeAta \notin {fee_source, source, bridge_state.vault}
  BY <1>1, <1>2, AccountsAssumption, KeysAssumption DEF FeeSourceOk, FeeAta, Ata
<1>5. HasFee => AfterFee(fee_source) =
                  Transfer(tokens, fee_source, FeeAta, bridge_state.fee_amount)
  BY DEF AfterFee
<1>6. AfterFee(fee_source) \in [TokenAccounts -> U64]
  BY <1>1, <1>2, <1>4, <1>5, TransferType DEF AfterFee
<1>7. ASSUME NEW a \in TokenAccounts
      PROVE  AfterFee(fee_source)[a] =
               IF HasFee /\ a = fee_source THEN tokens[a] - bridge_state.fee_amount
               ELSE IF HasFee /\ a = FeeAta THEN tokens[a] + bridge_state.fee_amount
               ELSE tokens[a]
  BY <1>2, <1>4, <1>5, TransferBalance DEF AfterFee
<1>8. ASSUME NEW a \in TokenAccounts
      PROVE  tokens'[a] =
               IF a = source THEN AfterFee(fee_source)[a] - amount
               ELSE IF a = bridge_state.vault THEN AfterFee(fee_source)[a] + amount
               ELSE AfterFee(fee_source)[a]
  BY <1>1, <1>2, <1>3, <1>6, TransferBalance
<1>9. \A a \in TokenAccounts : tokens[a] \in Int
  BY <1>2, AmountsAssumption DEF U64
<1>10. amount \in Int /\ bridge_state.fee_amount \in Int
  BY <1>2, AmountsAssumption DEF U64
<1>11. HasFee => Outflow(FeeAta) = -bridge_state.fee_amount
  BY <1>4, <1>7, <1>8, <1>9, <1>10 DEF Outflow
<1>12. ASSUME NEW a \in TokenAccounts, a.owner = k
       PROVE  Outflow(a) = (IF a = source THEN amount ELSE 0)
                             + (IF HasFee /\ a = fee_source
                                THEN bridge_state.fee_amount ELSE 0)
  <2>1. a # bridge_state.vault /\ (HasFee => a # FeeAta)
    BY <1>2, <1>4, <1>12
  <2> QED
    BY <1>7, <1>8, <1>9, <1>10, <2>1 DEF Outflow
<1> QED
  BY <1>1, <1>4, <1>11, <1>12

LEMMA FeesAccompanyStep ==
  ASSUME TypeOK, [Next]_vars
  PROVE  FeesAccompany
<1> SUFFICES ASSUME NEW k \in Keys \ {Admin}, DepositBy(k),
                    k # bridge_state.fee_collector
             PROVE  /\ bridge_state.fee_amount > 0 =>
                         Outflow(FeeAta) = -bridge_state.fee_amount
                    /\ Charged(k, bridge_state.fee_amount)
  BY DEF FeesAccompany
<1> DEFINE fee == bridge_state.fee_amount
           payers == {a \in TokenAccounts : a.owner = k /\ Outflow(a) # 0}
<1>1. PICK source \in TokenAccounts, fee_source \in TokenAccounts,
           provided \in SUBSET FeeAccounts :
        /\ Deposit \in Amounts
        /\ SendToLiquidity(k, source, fee_source, provided, Deposit)
  BY DepositIsSend
<1>2. /\ source.owner = k
      /\ HasFee => fee_source.owner = k
      /\ HasFee => Outflow(FeeAta) = -fee
      /\ \A a \in TokenAccounts : a.owner = k =>
           Outflow(a) = (IF a = source THEN Deposit ELSE 0)
                          + (IF HasFee /\ a = fee_source THEN fee ELSE 0)
  BY <1>1, DepositCosts
<1>3. fee \in U64 /\ fee \in Nat /\ Deposit \in Nat /\ Deposit > 0
  <2>1. /\ Initialized /\ bridge_state \in BridgeState
        /\ bridge_state'.vault_amount > bridge_state.vault_amount
    BY VaultTyped DEF DepositBy
  <2>2. /\ bridge_state'.vault_amount = bridge_state.vault_amount + Deposit
        /\ Deposit \in U64
    BY <1>1, <2>1, AmountsAssumption DEF SendToLiquidity, CanSendToLiquidity, CanCredit, Credited, BridgeState, U64
  <2> QED
    BY <2>1, <2>2, AmountsAssumption DEF BridgeState, U64
<1>4. HasFee <=> fee > 0
  BY DEF HasFee
<1> HIDE DEF fee
<1>5. CASE ~HasFee
  <2>1. fee = 0
    BY <1>3, <1>4, <1>5
  <2>2. payers = {source} /\ Outflow(source) = Deposit + fee
    BY <1>2, <1>3, <1>5, <2>1
  <2> QED
    BY <1>4, <1>5, <2>2 DEF Charged, fee
<1>6. CASE HasFee /\ fee_source = source
  <2>1. payers = {source} /\ Outflow(source) = Deposit + fee
    BY <1>2, <1>3, <1>6
  <2> QED
    BY <1>2, <1>6, <2>1 DEF Charged, fee
<1>7. CASE HasFee /\ fee_source # source
  <2>1. /\ payers = {source, fee_source}
        /\ Outflow(source) = Deposit /\ Outflow(fee_source) = fee
    BY <1>2, <1>3, <1>4, <1>7
  <2> QED
    BY <1>2, <1>7, <2>1 DEF Charged, fee
<1> QED
  BY <1>5, <1>6, <1>7

\* A deposit of another key than the fee collector never lands without its fee,
\* and costs its payer the deposit and the fee, no more, whichever accounts pay.
THEOREM FeesAlwaysAccompany == Spec => FeeAccompaniesDeposit
<1>1. TypeOK /\ [Next]_vars => [FeesAccompany]_vars
  BY FeesAccompanyStep
<1> QED
  BY TypeCorrect, <1>1, PTL DEF Spec, FeeAccompaniesDeposit

=============================================================================
