--------------------------- MODULE BridgeProgram ---------------------------
(***************************************************************************)
(* The on-chain bridge program (programs/bridge-program).                  *)
(*                                                                         *)
(* One action is one instruction executed as one transaction.  The runtime *)
(* serialises the transactions that write `bridge_state' and rolls a       *)
(* failing one back whole, so an instruction either takes its complete     *)
(* effect or none: every `require!', account constraint, checked           *)
(* arithmetic operation and token CPI of an instruction is a conjunct of   *)
(* its action, and a call that fails any of them is no step.  For the four *)
(* instructions that move tokens, Can<Instruction> is all that is asked.   *)
(*                                                                         *)
(* A token account is identified by its owner, its mint and a nonce; nonce *)
(* 0 is the associated token account (ATA) of the owner and the mint.      *)
(*                                                                         *)
(* A definition named Op_Variant is a faulty variant of Op: no action uses *)
(* it; it shows that a property notices the fault when it takes Op's place.*)
(***************************************************************************)
EXTENDS Integers, FiniteSets

CONSTANTS
  Keys,             \* public keys that have a private key: they can sign
  Admin,            \* ADMIN_PUBKEY
  BridgePda,        \* address of the bridge_state account: cannot sign
  Mints,
  NativeMint,       \* spl_token::native_mint::ID, the mint fees are paid in
  Decimals,         \* decimals of each mint
  TokenAccounts,    \* the token accounts that exist or may be created
  MaxU64,           \* largest u64
  NotInitialized,   \* bridge_state before initialize_contract
  InitiallyOpen,    \* token accounts that exist before the program is used
  InitialTokens,    \* their balances
  Amounts,          \* bound: amounts that appear as instruction arguments
  RelayerChoices,   \* bound: keys named as relayer
  CollectorChoices, \* bound: keys named as fee collector
  WhitelistChoices, \* bound: keys named as whitelist entry
  FeeChoices,       \* bound: fees
  LimitChoices      \* bound: <<minimum_deposit, maximum_deposit>> pairs

U64 == 0..MaxU64
Pubkeys == Keys \union {BridgePda}

Inactive == 0
Active == 1
State == {Inactive, Active}

BridgeState ==
  [mint_of_token_whitelisted : Mints,
   relayer_pubkey            : Pubkeys,
   vault                     : TokenAccounts,
   fee_collector             : CollectorChoices,
   vault_amount              : U64,
   relayer_state             : State,
   public_state              : State,
   whitelist_state           : State,
   minimum_deposit           : U64,
   maximum_deposit           : U64,
   fee_amount                : U64]

Ata(owner, mint) == [owner |-> owner, mint |-> mint, nonce |-> 0]

ASSUME KeysAssumption ==
  /\ Admin \in Keys
  /\ BridgePda \notin Keys
  /\ RelayerChoices \subseteq Pubkeys
  /\ CollectorChoices \subseteq Pubkeys
  /\ WhitelistChoices \subseteq Pubkeys

ASSUME MintsAssumption ==
  /\ NativeMint \in Mints
  /\ Decimals \in [Mints -> Nat]

ASSUME AmountsAssumption ==
  /\ MaxU64 \in Nat
  /\ Amounts \subseteq U64
  /\ FeeChoices \subseteq U64
  /\ LimitChoices \subseteq U64 \X U64

ASSUME AccountsAssumption ==
  /\ TokenAccounts \subseteq [owner : Pubkeys, mint : Mints, nonce : Nat]
  /\ \A m \in Mints : Ata(BridgePda, m) \in TokenAccounts
  /\ \A k \in CollectorChoices \intersect Keys :
       Ata(k, NativeMint) \in TokenAccounts
  /\ NotInitialized \notin BridgeState

ASSUME InitialTokensAssumption ==
  /\ InitiallyOpen \subseteq TokenAccounts
  /\ InitialTokens \in [TokenAccounts -> U64]
  /\ \A a \in TokenAccounts \ InitiallyOpen : InitialTokens[a] = 0

\* The token units of a mint, each at its place in the account that holds it.
Units(balance, mint) ==
  {unit \in TokenAccounts \X (1..MaxU64) :
     unit[1].mint = mint /\ unit[2] <= balance[unit[1]]}

Supply(balance, mint) == Cardinality(Units(balance, mint))

\* The supply of a mint is a u64, and all of it is in the accounts.
ASSUME SupplyAssumption ==
  /\ IsFiniteSet(TokenAccounts)
  /\ \A m \in Mints : Supply(InitialTokens, m) <= MaxU64

VARIABLES
  bridge_state,  \* the BridgeState account, NotInitialized before it exists
  whitelist,     \* keys that have a WhitelistEntry account
  tokens,        \* balance of every token account
  opened         \* the token accounts that exist

vars == <<bridge_state, whitelist, tokens, opened>>

-----------------------------------------------------------------------------
(* Accounts and amounts                                                    *)

Initialized == bridge_state # NotInitialized

\* A vault is read as `has_one=vault' of bridge_state and at the same time as
\* the ATA of bridge_state for mint_of_token_sent, which is the whitelisted mint.
VaultServes ==
  bridge_state.vault = Ata(BridgePda, bridge_state.mint_of_token_whitelisted)

HeldBy_AnyMint(account, owner) == account \in opened /\ account.owner = owner

HeldBy(account, owner) ==
  /\ account \in opened
  /\ account.owner = owner
  /\ account.mint = bridge_state.mint_of_token_whitelisted

FeeAta == Ata(bridge_state.fee_collector, NativeMint)

\* Without overflow-checks the power wraps.
check_amount_Wrapped(amount, decimals) ==
  amount % (10^decimals % (MaxU64 + 1)) = 0

check_amount(amount, decimals) ==
  /\ 10^decimals <= MaxU64
  /\ amount % (10^decimals) = 0

\* The token program's transfer: a transfer of an account to itself moves nothing.
CanTransfer(balance, from, to, amount) ==
  /\ amount <= balance[from]
  /\ from # to => balance[to] + amount <= MaxU64

Transfer(balance, from, to, amount) ==
  IF from = to
  THEN balance
  ELSE [balance EXCEPT ![from] = @ - amount, ![to] = @ + amount]

\* `vault_amount += amount' and `vault_amount -= amount' under overflow-checks.
CanCredit(amount) == bridge_state.vault_amount + amount <= MaxU64

Credited_Recount(amount) ==
  [bridge_state EXCEPT !.vault_amount = tokens[bridge_state.vault] + amount]

Credited(amount) == [bridge_state EXCEPT !.vault_amount = @ + amount]

CanDebit_Strict(amount) == amount < bridge_state.vault_amount

CanDebit(amount) == amount <= bridge_state.vault_amount

Debited_Forgotten(amount) == bridge_state

Debited(amount) == [bridge_state EXCEPT !.vault_amount = @ - amount]

-----------------------------------------------------------------------------
Init ==
  /\ bridge_state = NotInitialized
  /\ whitelist = {}
  /\ tokens = InitialTokens
  /\ opened = InitiallyOpen

CanInitializeContract(authority) == authority = Admin /\ ~Initialized

InitializeContract(authority, mint, relayer_pubkey, fee_collector, fee_amount, limits) ==
  /\ CanInitializeContract(authority)
  /\ bridge_state' =
       [mint_of_token_whitelisted |-> mint,
        relayer_pubkey            |-> relayer_pubkey,
        vault                     |-> Ata(BridgePda, mint),
        fee_collector             |-> fee_collector,
        vault_amount              |-> 0,
        relayer_state             |-> Inactive,
        public_state              |-> Inactive,
        whitelist_state           |-> Inactive,
        minimum_deposit           |-> limits[1],
        maximum_deposit           |-> limits[2],
        fee_amount                |-> fee_amount]
  /\ opened' = opened \union {Ata(BridgePda, mint)}
  /\ UNCHANGED <<whitelist, tokens>>

-----------------------------------------------------------------------------
(* Configuration, by the administrator                                     *)

ByAdmin_Unchecked(authority) == Initialized

ByAdmin(authority) == Initialized /\ authority = Admin

UpdateRelayer(authority, relayer_pubkey) ==
  /\ ByAdmin(authority)
  /\ bridge_state' = [bridge_state EXCEPT !.relayer_pubkey = relayer_pubkey]
  /\ UNCHANGED <<whitelist, tokens, opened>>

UpdateFeeCollector(authority, fee_collector) ==
  /\ ByAdmin(authority)
  /\ bridge_state' = [bridge_state EXCEPT !.fee_collector = fee_collector]
  /\ UNCHANGED <<whitelist, tokens, opened>>

UpdateWhitelistedMint_NoResync(authority, mint) ==
  /\ ByAdmin(authority)
  /\ bridge_state' = [bridge_state EXCEPT !.mint_of_token_whitelisted = mint]
  /\ opened' = opened \union {Ata(BridgePda, mint)}
  /\ UNCHANGED <<whitelist, tokens>>

\* The field `vault' of bridge_state keeps its value.
UpdateWhitelistedMint(authority, mint) ==
  /\ ByAdmin(authority)
  /\ bridge_state' =
       [bridge_state EXCEPT !.mint_of_token_whitelisted = mint,
                            !.vault_amount = tokens[Ata(BridgePda, mint)]]
  /\ opened' = opened \union {Ata(BridgePda, mint)}
  /\ UNCHANGED <<whitelist, tokens>>

SetDepositLimits(authority, limits) ==
  /\ ByAdmin(authority)
  /\ bridge_state' = [bridge_state EXCEPT !.minimum_deposit = limits[1],
                                          !.maximum_deposit = limits[2]]
  /\ UNCHANGED <<whitelist, tokens, opened>>

SetFeeAmount(authority, fee_amount) ==
  /\ ByAdmin(authority)
  /\ bridge_state' = [bridge_state EXCEPT !.fee_amount = fee_amount]
  /\ UNCHANGED <<whitelist, tokens, opened>>

\* relayer_pause and relayer_unpause
SetRelayerState(authority, state) ==
  /\ ByAdmin(authority)
  /\ bridge_state' = [bridge_state EXCEPT !.relayer_state = state]
  /\ UNCHANGED <<whitelist, tokens, opened>>

\* public_pause and public_unpause, which the relayer may call too
CanSetPublicState_Anyone(authority) == Initialized

CanSetPublicState(authority) ==
  Initialized /\ authority \in {Admin, bridge_state.relayer_pubkey}

SetPublicState(authority, state) ==
  /\ CanSetPublicState(authority)
  /\ bridge_state' = [bridge_state EXCEPT !.public_state = state]
  /\ UNCHANGED <<whitelist, tokens, opened>>

\* set_whitelist_active and set_whitelist_inactive
SetWhitelistState(authority, state) ==
  /\ ByAdmin(authority)
  /\ bridge_state' = [bridge_state EXCEPT !.whitelist_state = state]
  /\ UNCHANGED <<whitelist, tokens, opened>>

CanAddToWhitelist(authority, address) ==
  ByAdmin(authority) /\ address \notin whitelist

AddToWhitelist(authority, address) ==
  /\ CanAddToWhitelist(authority, address)
  /\ whitelist' = whitelist \union {address}
  /\ UNCHANGED <<bridge_state, tokens, opened>>

CanRemoveFromWhitelist(authority, address) ==
  ByAdmin(authority) /\ address \in whitelist

RemoveFromWhitelist(authority, address) ==
  /\ CanRemoveFromWhitelist(authority, address)
  /\ whitelist' = whitelist \ {address}
  /\ UNCHANGED <<bridge_state, tokens, opened>>

-----------------------------------------------------------------------------
(* Liquidity, by the administrator                                         *)

CanAddLiquidity(authority, source, amount) ==
  /\ ByAdmin(authority)
  /\ VaultServes
  /\ HeldBy(source, authority)
  /\ CanCredit(amount)
  /\ CanTransfer(tokens, source, bridge_state.vault, amount)

AddLiquidity(authority, source, amount) ==
  /\ CanAddLiquidity(authority, source, amount)
  /\ bridge_state' = Credited(amount)
  /\ tokens' = Transfer(tokens, source, bridge_state.vault, amount)
  /\ UNCHANGED <<whitelist, opened>>

CanRemoveLiquidity(authority, target, amount) ==
  /\ ByAdmin(authority)
  /\ VaultServes
  /\ HeldBy(target, authority)
  /\ CanDebit(amount)
  /\ CanTransfer(tokens, bridge_state.vault, target, amount)

RemoveLiquidity(authority, target, amount) ==
  /\ CanRemoveLiquidity(authority, target, amount)
  /\ bridge_state' = Debited(amount)
  /\ tokens' = Transfer(tokens, bridge_state.vault, target, amount)
  /\ UNCHANGED <<whitelist, opened>>

-----------------------------------------------------------------------------
(* The two directions of the bridge                                        *)

RelayerActive_Unchecked == TRUE

\* The require! of the entry point send_from_liquidity.
RelayerActive == bridge_state.relayer_state = Active

\* `receiver' is any address, the program's own included: the account paid
\* may be the vault itself.
CanSendFromLiquidity(authority, receiver, target, amount) ==
  /\ Initialized
  /\ VaultServes
  /\ authority = bridge_state.relayer_pubkey
  /\ HeldBy(target, receiver)
  /\ RelayerActive
  /\ CanDebit(amount)
  /\ CanTransfer(tokens, bridge_state.vault, target, amount)

SendFromLiquidity(authority, receiver, target, amount) ==
  /\ CanSendFromLiquidity(authority, receiver, target, amount)
  /\ bridge_state' = Debited(amount)
  /\ tokens' = Transfer(tokens, bridge_state.vault, target, amount)
  /\ UNCHANGED <<whitelist, opened>>

\* authority_fee_token_account, when the caller passes it
FeeSourceOk(authority, fee_source) ==
  /\ fee_source \in opened
  /\ fee_source.owner = authority
  /\ fee_source.mint = NativeMint
  /\ bridge_state.fee_amount <= tokens[fee_source]

\* What send_to_liquidity asks of the program's state before it moves tokens.
DepositAccepted_EitherLimit(authority, amount) ==
  LET s == bridge_state IN
  /\ s.public_state = Active
  /\ check_amount(amount, Decimals[s.mint_of_token_whitelisted])
  /\ s.whitelist_state = Active => authority \in whitelist
  /\ s.minimum_deposit <= amount \/ amount <= s.maximum_deposit

DepositAccepted(authority, amount) ==
  LET s == bridge_state IN
  /\ s.public_state = Active
  /\ check_amount(amount, Decimals[s.mint_of_token_whitelisted])
  /\ s.whitelist_state = Active => authority \in whitelist
  /\ s.minimum_deposit <= amount /\ amount <= s.maximum_deposit

HasFee == bridge_state.fee_amount > 0

\* The balances once into_send_fee_context's transfer is done.
AfterFee_Stale(fee_source) == tokens

AfterFee(fee_source) ==
  IF HasFee
  THEN Transfer(tokens, fee_source, FeeAta, bridge_state.fee_amount)
  ELSE tokens

\* Optional accounts of send_to_liquidity.  With fee_collector_ata, created if
\* missing, go mint_of_fee_token_sent and fee_collector, a system account, so
\* never the bridge's own address.
FeeAccounts == {"authority_fee_token_account", "fee_collector_ata"}

Created_Never(provided) == {}

Created(provided) == {FeeAta : a \in provided \intersect {"fee_collector_ata"}}

CanSendToLiquidity(authority, source, fee_source, provided, amount) ==
  /\ Initialized
  /\ VaultServes
  /\ HeldBy(source, authority)
  /\ amount <= tokens[source]
  /\ "authority_fee_token_account" \in provided => FeeSourceOk(authority, fee_source)
  /\ "fee_collector_ata" \in provided => bridge_state.fee_collector \in Keys
  /\ DepositAccepted(authority, amount)
  /\ HasFee =>
       /\ provided = FeeAccounts
       /\ CanTransfer(tokens, fee_source, FeeAta, bridge_state.fee_amount)
  /\ CanCredit(amount)
  /\ CanTransfer(AfterFee(fee_source), source, bridge_state.vault, amount)

SendToLiquidity(authority, source, fee_source, provided, amount) ==
  /\ CanSendToLiquidity(authority, source, fee_source, provided, amount)
  /\ bridge_state' = Credited(amount)
  /\ tokens' = Transfer(AfterFee(fee_source), source, bridge_state.vault, amount)
  /\ opened' = opened \union Created(provided)
  /\ UNCHANGED whitelist

-----------------------------------------------------------------------------
(* What anyone may do with the token program, outside the bridge program   *)

SplTransfer(authority, from, to, amount) ==
  /\ {from, to} \subseteq opened
  /\ from.owner = authority
  /\ from.mint = to.mint
  /\ CanTransfer(tokens, from, to, amount)
  /\ tokens' = Transfer(tokens, from, to, amount)
  /\ UNCHANGED <<bridge_state, whitelist, opened>>

OpenAccount(account) ==
  /\ opened' = opened \union {account}
  /\ UNCHANGED <<bridge_state, whitelist, tokens>>

\* An empty account can be closed by its owner, the fee collector's included.
CloseAccount(authority, account) ==
  /\ account \in opened
  /\ account.owner = authority
  /\ tokens[account] = 0
  /\ opened' = opened \ {account}
  /\ UNCHANGED <<bridge_state, whitelist, tokens>>

-----------------------------------------------------------------------------
Initialization(authority) ==
  \E mint \in Mints, relayer_pubkey \in RelayerChoices,
     fee_collector \in CollectorChoices, fee_amount \in FeeChoices,
     limits \in LimitChoices :
    InitializeContract(authority, mint, relayer_pubkey, fee_collector,
                       fee_amount, limits)

\* The addresses bridge_state keeps
Addresses(authority) ==
  \/ \E key \in RelayerChoices : UpdateRelayer(authority, key)
  \/ \E key \in CollectorChoices : UpdateFeeCollector(authority, key)
  \/ \E mint \in Mints : UpdateWhitelistedMint(authority, mint)

\* The limits, the fee, the three states, and the whitelist
Settings(authority) ==
  \/ \E limits \in LimitChoices : SetDepositLimits(authority, limits)
  \/ \E fee_amount \in FeeChoices : SetFeeAmount(authority, fee_amount)
  \/ \E state \in State : SetRelayerState(authority, state)
  \/ \E state \in State : SetPublicState(authority, state)
  \/ \E state \in State : SetWhitelistState(authority, state)
  \/ \E key \in WhitelistChoices : AddToWhitelist(authority, key)
  \/ \E key \in WhitelistChoices : RemoveFromWhitelist(authority, key)

Liquidity(authority) ==
  \E account \in TokenAccounts, amount \in Amounts :
    \/ AddLiquidity(authority, account, amount)
    \/ RemoveLiquidity(authority, account, amount)

Bridging(authority) ==
  \E account \in TokenAccounts, amount \in Amounts :
    \/ \E receiver \in Pubkeys :
         SendFromLiquidity(authority, receiver, account, amount)
    \/ \E fee_source \in TokenAccounts, provided \in SUBSET FeeAccounts :
         SendToLiquidity(authority, account, fee_source, provided, amount)

TokenTransfers(authority) ==
  \E from, to \in TokenAccounts, amount \in Amounts :
    SplTransfer(authority, from, to, amount)

Next ==
  \/ \E authority \in Keys :
       \/ Initialization(authority)
       \/ Addresses(authority)
       \/ Settings(authority)
       \/ Liquidity(authority)
       \/ Bridging(authority)
       \/ TokenTransfers(authority)
       \/ \E account \in TokenAccounts : CloseAccount(authority, account)
  \/ \E account \in TokenAccounts : OpenAccount(account)

Spec == Init /\ [][Next]_vars

-----------------------------------------------------------------------------
(* Invariants                                                              *)

\* An account that was never created holds nothing, and the vault recorded in
\* bridge_state is an ATA of the program that exists.
TypeOK ==
  /\ bridge_state \in BridgeState \union {NotInitialized}
  /\ whitelist \subseteq Pubkeys
  /\ tokens \in [TokenAccounts -> U64]
  /\ opened \subseteq TokenAccounts
  /\ \A a \in TokenAccounts \ opened : tokens[a] = 0
  /\ Initialized =>
       /\ \E m \in Mints : bridge_state.vault = Ata(BridgePda, m)
       /\ {bridge_state.vault,
           Ata(BridgePda, bridge_state.mint_of_token_whitelisted)} \subseteq opened

\* Every unit the program counts as liquidity in `vault_amount' is held by its
\* own ATA for the whitelisted mint: after deposits, payouts, payouts to the
\* vault itself, direct transfers into the vault and switches of the
\* whitelisted mint back and forth (send_to_liquidity, send_from_liquidity,
\* add_liquidity, remove_liquidity, update_whitelisted_mint).
LedgerBacked ==
  Initialized =>
    bridge_state.vault_amount <=
      tokens[Ata(BridgePda, bridge_state.mint_of_token_whitelisted)]

\* No step creates or destroys tokens of a mint, or turns tokens of one mint
\* into another's: the accounts an instruction moves tokens between are of one
\* mint, the deposit and its fee each (the associated_token constraints of
\* add_liquidity, remove_liquidity, send_from_liquidity, send_to_liquidity).
SupplyConserved ==
  \A m \in Mints : Supply(tokens, m) = Supply(InitialTokens, m)

\* No deposit or added liquidity is ever refused because `vault_amount +=
\* amount' overflows: whatever an account outside the vault holds still fits
\* (add_liquidity.rs, send_to_liquidity.rs).  Depends on the supply of each
\* mint fitting a u64 (SupplyAssumption) and staying what it was (SupplyConserved).
CreditNeverOverflows ==
  Initialized =>
    \A a \in TokenAccounts :
      /\ a.mint = bridge_state.mint_of_token_whitelisted
      /\ a.owner # BridgePda
      => bridge_state.vault_amount + tokens[a] <= MaxU64

\* While the vault serves the whitelisted mint, the administrator can withdraw
\* everything the program counts as liquidity in one remove_liquidity, in every
\* state of the pauses, the limits, the fee and the whitelist.
LedgerWithdrawable ==
  (Initialized /\ VaultServes) =>
    \A a \in opened :
      HeldBy(a, Admin) =>
        CanRemoveLiquidity(Admin, a, bridge_state.vault_amount)

-----------------------------------------------------------------------------
(* Action properties                                                       *)

SameMint ==
  bridge_state'.mint_of_token_whitelisted = bridge_state.mint_of_token_whitelisted

Outflow(account) == tokens[account] - tokens'[account]

OutflowLedgered(account) ==
  /\ Initialized
  /\ VaultServes
  /\ account = bridge_state.vault
  /\ bridge_state' = [bridge_state EXCEPT !.vault_amount = @ - Outflow(account)]

BridgeOutflowLedgered ==
  \A a \in TokenAccounts :
    a.owner = BridgePda /\ Outflow(a) > 0 => OutflowLedgered(a)

\* Tokens leave an account of the bridge only from the recorded vault, only
\* while it is the ATA of the whitelisted mint, and `vault_amount' falls by
\* exactly what leaves: nothing leaves the vault of a mint that was switched
\* away from, nor another account of the program (send_from_liquidity,
\* remove_liquidity).
OutflowIsLedgered == [][BridgeOutflowLedgered]_vars

\* What the vault of the whitelisted mint holds and the ledger does not count.
Surplus ==
  tokens[Ata(BridgePda, bridge_state.mint_of_token_whitelisted)]
    - bridge_state.vault_amount

SurplusKept ==
  Initialized /\ SameMint =>
    \/ Surplus' >= Surplus
    \/ Surplus' = 0 /\ tokens' = tokens

\* Tokens that arrive in the vault outside the program (a direct transfer) are
\* never paid out as if they were liquidity: the surplus only grows, until
\* update_whitelisted_mint counts all of it without moving a token.
SurplusOnlyResynced == [][SurplusKept]_vars

VaultPays(account) ==
  /\ account.owner # BridgePda
  /\ Outflow(account) < 0
  /\ \E v \in TokenAccounts : v.owner = BridgePda /\ Outflow(v) > 0

\* The relayer is paused, or update_relayer recorded a key nobody signs with.
RelayerSilenced ==
  \/ bridge_state.relayer_state = Inactive
  \/ bridge_state.relayer_pubkey \notin Keys

OnlyAdminPaid ==
  Initialized /\ RelayerSilenced =>
    \A a \in TokenAccounts : VaultPays(a) => a.owner = Admin

\* Once the relayer is paused, or replaced by a key nobody signs with, the vault
\* pays nobody but the administrator (the require! and the relayer's address in
\* send_from_liquidity against remove_liquidity, which neither stops).
SilencedRelayerPaysOnlyAdmin == [][OnlyAdminPaid]_vars

\* A step in which the ledger grows while a key other than the administrator
\* pays: a deposit through send_to_liquidity.
DepositBy(key) ==
  /\ Initialized
  /\ SameMint
  /\ bridge_state'.vault_amount > bridge_state.vault_amount
  /\ \E a \in TokenAccounts : a.owner = key /\ Outflow(a) > 0

Deposit == bridge_state'.vault_amount - bridge_state.vault_amount

DepositsAdmitted ==
  \A k \in Keys \ {Admin} :
    DepositBy(k) =>
      /\ bridge_state.minimum_deposit <= Deposit
      /\ Deposit <= bridge_state.maximum_deposit
      /\ Deposit % 10^Decimals[bridge_state.mint_of_token_whitelisted] = 0
      /\ bridge_state.public_state = Active
      /\ k \in whitelist \/ bridge_state.whitelist_state = Inactive

\* A deposit of a key other than the administrator lands only in whole tokens
\* (none lands when a whole token is more than a u64), within limits that admit
\* it, while public sends are active, and from a whitelisted key when the
\* whitelist is active, all as bridge_state and the whitelist are when the
\* transaction lands (the require!s of send_to_liquidity).
DepositAdmitted == [][DepositsAdmitted]_vars

\* The key's accounts lose the deposit and the fee, together when one account
\* pays both because the whitelisted mint is the native mint.
Charged(key, fee) ==
  LET payers == {a \in TokenAccounts : a.owner = key /\ Outflow(a) # 0}
  IN  \/ \E a \in payers : payers = {a} /\ Outflow(a) = Deposit + fee
      \/ \E a, b \in payers :
           a # b /\ payers = {a, b} /\ Outflow(a) = Deposit /\ Outflow(b) = fee

FeesAccompany ==
  \A k \in Keys \ {Admin} :
    DepositBy(k) /\ k # bridge_state.fee_collector =>
      /\ bridge_state.fee_amount > 0 => Outflow(FeeAta) = -bridge_state.fee_amount
      /\ Charged(k, bridge_state.fee_amount)

\* A deposit never lands without its fee: when another key than the fee
\* collector deposits, the fee in force reaches the collector's account in the
\* same step, and the payer is charged the deposit and the fee, no more
\* (send_to_liquidity and the transfer of into_send_fee_context).
FeeAccompaniesDeposit == [][FeesAccompany]_vars

-----------------------------------------------------------------------------
(* What the repository says of the program                                 *)

\* The administrator can change the whitelisted token (README.md:17) and add
\* liquidity (README.md:20): whatever tokens of the whitelisted mint the
\* administrator holds can be added (add_liquidity).
LiquidityCanBeAdded ==
  Initialized =>
    \A a \in opened :
      HeldBy(a, Admin) /\ bridge_state.vault_amount + tokens[a] <= MaxU64 =>
        CanAddLiquidity(Admin, a, tokens[a])

\* Adding liquidity can be done "via the token snippets as well" (README.md:289),
\* that is by a plain token transfer to the vault: what the vault holds is then
\* the program's liquidity (`vault_amount').
VaultBalanceIsLiquidity ==
  (Initialized /\ VaultServes) =>
    bridge_state.vault_amount = tokens[bridge_state.vault]

=============================================================================
