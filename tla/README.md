# Verification of the Itheum Core Solana bridge

TLA+ modules, TLC configurations and TLAPS proofs for the repository
`core-sol-bridge-sc`: an on-chain escrow program that locks a whitelisted SPL
token on Solana while its counterpart circulates on MultiversX, and the command
line tool its administrator drives it with. Paths below are relative to the
repository's root; `P/` abbreviates `programs/bridge-program/src/`.

In short: after every possible sequence of instructions and outside token
transfers, the number the program calls liquidity (`vault_amount`) is covered
by tokens it holds, tokens leave it only through that number, a paused relayer
pays nobody but the administrator, and a deposit lands only on the terms in
force and never without its fee. The same holds when the calls are executed
stage by stage, and when the administrator acts through the command line tool
over a network that loses, delays and reorders its transactions. TLC checks
this on small instances, and TLAPS proves every property but one, a liveness
property, for every value of the constants. Three statements of the
repository's README do not hold: see "Findings".

## 1. Inventory

### The system's parts

| part | source | state it keeps | operations |
|---|---|---|---|
| Entry points and account types | `P/lib.rs`, `P/states/`, `P/constants.rs`, `P/utils.rs`, `P/errors.rs` | `BridgeState` (one account, a PDA), `WhitelistEntry` (one PDA for each listed key) | dispatch of 18 instructions; the `require!`s of the two sends; `check_amount` |
| Initialisation | `P/contexts/initialize_contract.rs` | creates `bridge_state` and the vault | `initialize_contract` |
| Liquidity | `P/contexts/{add,remove}_liquidity.rs` | `vault_amount`, the vault's tokens | `add_liquidity`, `remove_liquidity` |
| Bridge sends | `P/contexts/send_{to,from}_liquidity.rs` | the same, and the fee collector's account | `send_to_liquidity` (user to bridge), `send_from_liquidity` (relayer pays out) |
| Configuration | `P/contexts/update_*.rs`, `deposit_limits.rs` | relayer, fee collector, mint, limits, fee | `update_relayer`, `update_fee_collector`, `update_whitelisted_mint`, `set_deposit_limits`, `set_fee_amount` |
| Pauses | `P/contexts/contract_states.rs` | `relayer_state`, `public_state` | `relayer_pause/unpause`, `public_pause/unpause` |
| Whitelist | `P/contexts/whitelist/` | `whitelist_state`, the entries | `set_whitelist_active/inactive`, `add_to_whitelist`, `remove_from_whitelist` |
| Admin CLI | `interactions/src/` | none of its own: a transaction in flight | 15 commands, each sends one transaction |
| Runtime, Anchor, SPL token | external | token accounts, atomic transactions | account constraints, CPIs, rollback |
| Relayer service, MultiversX side | external, not in the repository | | calls `send_from_liquidity` |
| Tests, migration | `tests/`, `migrations/` | | scripts; the migration is an empty stub |

### How they interact

All instructions read `bridge_state`, and nearly all of them write it, so it is
the shared state through which the administrator, the relayer and the users
meet. An instruction moves tokens by CPI to the SPL token program. Anyone may
call that program directly as well: a vault can be sent tokens no instruction
has counted. The administrator's CLI reads no program state; it builds one
instruction for each command and submits it without preflight and without
waiting for confirmation. The relayer watches the other chain and pays out on
its own initiative.

### What is hard here, and what each part must get right

| part | hard behaviour | correctness |
|---|---|---|
| Ledger and vault (liquidity, sends) | two quantities, `vault_amount` and the vault's balance, changed by different paths; payouts to the bridge itself; tokens arriving outside the program; `+=` and `-=` on a `u64` | the ledger is always backed; every outflow is ledgered; uncounted tokens are never paid out; credits never overflow; what is ledgered can be withdrawn |
| `update_whitelisted_mint` | recomputes `vault_amount` from another account and leaves `bridge_state.vault` as it is | nothing leaves any account of the bridge while the recorded vault is not the one that serves; switching back restores backing |
| `send_to_liquidity` | optional accounts; fee transfer before deposit transfer; with the native mint whitelisted both may debit one account, whose deserialized balance is stale at the second transfer; configuration changes while the deposit is in flight; the collector's account may be missing or closed | a deposit meets the terms in force when it lands, pays exactly the fee in force with it, or changes nothing |
| `send_from_liquidity` | races `relayer_pause` and `update_relayer`; carries no identifier of the transfer it answers | no payout after a pause, or after a replacement by a key nobody signs with |
| Whitelist, pauses | two principals (administrator, relayer) write `public_state`; entries are separate accounts | admission follows the values at landing time; a relayer that is replaced writes no more |
| Initialisation | the vault may exist and hold tokens already (`init_if_needed`) | the ledger starts at zero, below the balance |
| Execution of a call | constraints, `require!`s, fee, ledger and tokens one after the other on deserialized copies; a failure in the middle; transfers of others meanwhile | a call is one step of the program or none, and fails only where that step is refused |
| Admin CLI | lost, delayed and reordered transactions, commands run again, a send that fails although the transaction goes through, expiry of a blockhash; arguments and account metas passed on by hand through four layers | each run has one final fate and at most one effect; what a run adds to the ledger it adds as it settles; a command does what is typed, with accounts the program accepts; the configuration is final once no command can land any more |

`PROJECT.json` lists the hazards one by one with the line each bites at and the
properties that would notice.

## 2. Plan

Done, in this order:

1. `BridgeProgram`: the program, one action for each instruction, with its
   invariants and action properties; the instances `MCLiquidity`, `MCDeposits`.
2. `Escrow`: the abstract promise; `BridgeEscrow`: the refinement mapping; the
   instance `MCEscrow`.
3. `BridgeProgramProofs`, `EscrowProofs`, `BridgeEscrowProofs`.
4. `AdminCommands`: from a command line to an instruction and to the operation
   behind the program's entry point; `AdminCli`: the runs of the tool, the
   network and the chain, composed with `BridgeProgram`; `CommandLog`: what an
   administrator may count on, which `AdminCli` implements; the instance
   `MCAdminCli`.
5. `Execution`: a call in stages on a working copy, which implements
   `BridgeProgram`; the instance `MCExecution`.
6. `AdminCommandsProofs`, `AdminCliProofs`, `CommandLogProofs`,
   `ExecutionProofs`, and `FeesAlwaysAccompany` in `BridgeProgramProofs`.
7. `SupplyProofs`: the supply is conserved, so the ledger never overflows and
   can always be withdrawn; `FailuresAlwaysJustified` in `ExecutionProofs`;
   `TypedIsExecuted` and `RemovalRefused` in `AdminCommandsProofs`.
8. Acceptance as a condition on the state (`Accepts`, `Admits`) in place of
   ENABLED, which makes `AcceptedAsAdmitted` and `CommandsAlwaysAccepted`
   theorems; `SettledPublicStateStays` and its proof.
9. `PausedLedgerGrowsByRun` and its proof: a command run again against the
   ledger; a mint whose whole token exceeds a `u64` in `escrow`.

```
Escrow <--implements-- BridgeProgram <--implements-- Execution
                             ^
                             | steps of (lemma ProgramStep)
CommandLog <--implements-- AdminCli (EXTENDS AdminCommands EXTENDS BridgeProgram)
```

Left:

- `RunsSettle` is a liveness property and stays with TLC.
- A module for the relayer was planned and is dropped: the service is not in the
  repository, so its retries and its records would be invented. Its key may pay
  out anything at any time, which is what the program has to live with.

## 3. The modules and the code

### `BridgeProgram`

| variable | code |
|---|---|
| `bridge_state` | the `BridgeState` account of `P/states/bridge.rs`; `NotInitialized` before `initialize_contract` |
| `whitelist` | the keys for which a `WhitelistEntry` PDA exists |
| `tokens` | balance of each token account (SPL token) |
| `opened` | the token accounts that exist |

An action is an instruction executed as one transaction. The runtime locks
`bridge_state` for the writer and undoes a failed transaction whole, so the
guard of an action is the conjunction of everything that can make the call
fail: signer and address constraints, `has_one`, `associated_token::*`,
`require!`s, arithmetic under `overflow-checks = true`, and the failures of the
token CPIs. A refused call is not a step. Each action is named after the instruction
(`SendToLiquidity` for `send_to_liquidity`); pairs that only differ in the value they
write (pause and unpause) are one action with that value as parameter.

Points where the translation needs care:

- *Token accounts* are records of owner, mint and nonce, nonce 0 being the
  associated account. The vault must pass both `has_one=vault` and "is the ATA
  of `bridge_state` for `mint_of_token_sent`", with `mint_of_token_sent` equal
  to the whitelisted mint. That conjunction is `VaultServes`, and it is what a
  switch of the mint breaks.
- *Transfers*: a transfer from an account to itself moves nothing but still
  needs the balance; `CanTransfer` and `Transfer` say so, and a payout to the
  vault itself (`receiver` is any account) exercises it.
- *Guards*: every instruction has its conditions in a definition of its own
  (`ByAdmin`, `CanSetPublicState`, `CanRemoveLiquidity`, ...) and is that guard
  followed by assignments, so that a property can speak of what the program
  admits without ENABLED. `CanCredit` and `CanDebit` are
  the checked `+=` and `-=` on `vault_amount`, `Credited` and `Debited` the state
  they leave. `Next` lists the actions by what they do: `Addresses` and
  `Settings` (the configuration), `Liquidity`, `Bridging`, `TokenTransfers`.
- *Supply*: `Supply` counts the units of a mint, a unit being a place in an
  account. `SupplyAssumption` says that the accounts are finitely many and that
  the supply of each mint fits a `u64`, as it does in the token program, where
  `Mint.supply` is one. TLC evaluates it on every run of the program.
- *Fee*: `into_send_fee_context` transfers before the deposit; `AfterFee` is the
  state the second transfer sees. The optional accounts are a subset
  `provided`: the code demands each of the fee accounts when `fee_amount > 0`,
  and when `fee_collector_ata` is passed, creates it even when no fee is due.
  `fee_collector` is then a system account, so a collector that is the
  bridge's own address can pass none of this.
- *Creation*: `init_if_needed` accounts join `opened`. `tokens` of an account
  not in `opened` is 0.
- *External actions*: `SplTransfer`, `OpenAccount` and `CloseAccount` are what
  anyone may do with the token program. The bridge's own address cannot sign,
  so `SplTransfer` never leaves one of its accounts.

Definitions named `Op_Variant` (`Debited_Forgotten`, `AfterFee_Stale`, ...) are
plausible faults. No action uses them; put in place of `Op` each one makes
a property fail, which shows the property has something to say.

### `Escrow` and `BridgeEscrow`

`Escrow` states what the bridge promises without accounts, keys or
configuration: a ledger that enters and leaves with the tokens it stands for,
gifts the ledger does not count, suspension during which nothing leaves, and
resynchronisation. `BridgeEscrow` maps the program to it: `status` is "serving"
exactly while `VaultServes`, `held` is the balance of the recorded vault,
`ledger` is `vault_amount` while serving and 0 otherwise (while suspended
`vault_amount` counts another account). `ImplementsEscrow` is the
implementation, checked by TLC and proved.

### `AdminCommands`

A command passes four hand-written layers, and each is one part of the module:
clap's positional names (`Arguments`, `interactions/src/main.rs`), the arms of
main's `match` (`Arm`), the `process_` functions that build method, data and
account metas (`interactions/src/admin_endpoints.rs`), and the `Accounts`
structs to whose fields the program binds the metas by position
(`StateFields`, `MintFields`, `AddLiquidityFields`, ..., from `P/contexts/`).
`Fits` is what Anchor checks of every account: number, addresses of programs and of
`bridge_state`, signature, and `mut`. An account is writable when one of its
metas is, or when it pays the transaction's fees, which is why the read-only
meta of the authority is accepted. `Dispatch` takes an instruction to the
entry point of its name (`OnInitialize`, `OnRelayer`, `OnState`, `OnMint`, ...),
which is an action of `BridgeProgram`. `Execute` runs a command through all four
layers; `Typed` says in one line for
each command which action it should be, in the order the README gives the
arguments. `Accepts` is the condition under which the program accepts the
instruction of a command, account checks included, and `Admits` the condition
under which `BridgeProgram` admits the operation typed.

### `AdminCli`

| variable | code |
|---|---|
| `runs` | where a run of the tool is in its `process_` function: `started`, blockhash `fetched`, transaction `signed`, signature `printed`; `failed` before the send, or `unsure` when the send returned an error |
| `network` | transactions a node or a leader holds (external) |
| `height` | of the chain; a blockhash is the height of its block (external) |
| `applied`, `refused` | transactions that landed, by how they ended (external) |

All `process_` functions have the same control: instruction, `get_latest_blockhash`,
`try_sign`, `send_transaction_with_config` with preflight skipped, print or
exit, each `await`ed and each able to fail. They are one set of actions with
the command as parameter. Between any two of them the rest of the system moves.
A transaction is its signer, command and blockhash: two runs that sign the same
three have signed the same transaction, and the chain takes it once. A failed
transaction, one the program does not accept (`Rejects`), is recorded like one
that succeeds.

`Elsewhere` is what reaches the program from other clients: every instruction
by every key but the administrator's, and by the administrator those the tool
has no command for (`update_fee_collector`, the two bridge sends, the token program).
It is an assumption that she makes no other calls outside the tool; the
repository offers her no other client, but nothing enforces it. The properties that
speak of what her commands have settled rest on it.

### `CommandLog`

Each run has a `fate`: `unused`, `open`, then for good `applied`, `refused` or
`void`, and `effects` counts the instructions that took effect. `Apply(S)` settles
all runs that signed one transaction with one effect; `Join` is a run that signs,
before the next block, a transaction that has landed already. The mapping
in `AdminCli` computes the fate from `runs`, `applied`, `refused` and the expiry
of the blockhash; a run that is `unsure` is `open` until its transaction lands
or expires, which is the point: the printed error says nothing.

### `Execution`

`add_liquidity`, `remove_liquidity`, `send_from_liquidity` and
`send_to_liquidity` in the order the code runs: `ReadAccounts` (Anchor's
constraints, and the creation of the collector's account), `EnterHandler` (the
`require!`s of `P/lib.rs`), `MoveFee`, `CountAmount` (checked arithmetic on
`vault_amount`), `MoveTokens`, `Commit`. `exec` holds the call, its stage and a
working copy of `bridge_state`, the balances and the open accounts;
`Abort` drops it. `Work` is `BridgeProgram` read in the working copy. Other
transactions of the token program run between the stages on every account the
call has not locked (`Locks`, the `mut` accounts); the transactions of the
bridge itself wait for the lock on `bridge_state`. `Commit` writes back the
locked accounts. `Accepts` says which call `BridgeProgram` admits as it
stands, by the `Can<Instruction>` of the call.

### `MC*`

`MCLiquidity`, `MCDeposits`, `MCEscrow`, `MCAdminCli` and `MCExecution` give the
constants small values.

## 4. What the runs check

| run | question | properties | distinct states |
|---|---|---|---|
| `liquidity` | does the vault always hold what the ledger counts, and does nothing leave but through it? | `LedgerBacked`, `SupplyConserved`, `CreditNeverOverflows`, `LedgerWithdrawable`, `OutflowIsLedgered`, `SurplusOnlyResynced`, `SilencedRelayerPaysOnlyAdmin` | about 238 000 |
| `deposits` | is each deposit admitted by what is in force when it lands, and is it charged the fee? | `TypeOK`, `DepositAdmitted`, `FeeAccompaniesDeposit` | about 91 000 |
| `escrow` | does the program implement the abstract escrow, and does a mint whose whole token exceeds a `u64` admit no deposit? | `ImplementsEscrow`, `DepositAdmitted` | about 42 000 |
| `escrow_abstract` | is the abstract escrow's ledger backed? | `Backed` | 153 |
| `commands` | does each of the fifteen commands do what is typed, and is it accepted? who changes what once the administrator's commands have settled? | `CommandsDoAsTyped`, `CommandsAccepted`, `SettledConfigurationStays`, `SettledPublicStateStays` | about 1 034 000 |
| `reruns` | does each run take effect at most once, settle for good, and add to the ledger only as it settles, when commands are run again with the same or a new blockhash? | `ImplementsCommandLog`, `PausedLedgerGrowsByRun` | about 585 000 |
| `settle` | does every run end, with a transaction that has landed or never will? | `RunsSettle`, `CommandsAccepted` | about 413 000 |
| `command_log` | does the abstract log promise at most one effect for each run? | `AtMostOnce` | 756 |
| `execution` | is a call executed in stages one step of the program, and does it fail only where that step is refused? | `StagesImplementProgram`, `FailuresJustified` | about 315 000 |
| `mint_switch` | can the administrator change the token and add liquidity (README.md:17, 20)? | `LiquidityCanBeAdded`: violated | |
| `direct_transfer` | does a plain token transfer add liquidity (README.md:289)? | `VaultBalanceIsLiquidity`: violated | |
| `remove_liquidity` | does the tool send a `removeLiquidity` the program accepts (README.md:259, 20)? | `RemovalsAccepted`: violated | |

All passing runs explore their state space completely. They disable TLC's
deadlock test nowhere. `commands` and `reruns` use the symmetry of the runs of
the tool, which no command, signer or property tells apart (in `commands` that of
the runs after the first); `settle`, whose property is a liveness property, uses none.

What each property says:

- `LedgerBacked`: `vault_amount` never exceeds what the ATA of the whitelisted
  mint holds, through switches of the mint as well.
- `SupplyConserved`: no sequence of instructions, fees and transfers makes or
  loses a token; one that moved tokens between accounts of different mints would.
- `CreditNeverOverflows`: whatever any outside account of the whitelisted mint
  holds could be added without `vault_amount` overflowing.
- `LedgerWithdrawable`: while the vault serves, the administrator can withdraw
  all of the ledger in one call (`CanRemoveLiquidity`), in every state of
  pauses, limits, fee and whitelist.
- `OutflowIsLedgered`: tokens leave an account of the bridge only from the
  recorded vault, only while it serves, with the same fall of `vault_amount`.
- `SurplusOnlyResynced`: what the vault holds beyond the ledger only grows,
  until a resynchronisation counts all of it.
- `SilencedRelayerPaysOnlyAdmin`: while the relayer is paused, or after
  `update_relayer` recorded a key nobody signs with (the bridge's PDA in the
  run; a key somebody does sign with may pay out, as it should), the vault pays only the administrator (`remove_liquidity` is stopped by
  neither). The old relayer's payout, signed before either and landing after,
  is one of those the property forbids.
- `DepositAdmitted`: a step in which another key than the administrator pays
  and the ledger grows satisfies limits, whole-token rule, pause and whitelist.
  It is stated over balances, not over the action, so any path to such a step
  is covered; the whole-token rule is a remainder in the unbounded integers, so a
  `check_amount` that divides by a wrapped power of ten does not satisfy it.
- `FeeAccompaniesDeposit`: in such a step the fee in force reaches the collector
  and the payer loses the deposit and the fee and nothing else.
- `CommandsDoAsTyped`: the transaction of a command that takes effect is the
  operation its name says on the arguments as typed: three `u64`s or two
  addresses exchanged in any of the four layers would show.
- `CommandsAccepted`: what the program would accept from a client that passes
  the accounts it asks for, it accepts from the tool, for every command but
  `removeLiquidity`. `RemovalsAccepted` says the same of that one, and fails.
- `ImplementsCommandLog`: the refinement of `CommandLog` described above: no
  fate changes once settled, no run has two effects, none takes effect after
  its blockhash has expired, and runs of the same transaction share one effect.
  `AtMostOnce` counts runs, not intentions.
- `PausedLedgerGrowsByRun`: while public deposits are paused, the ledger grows
  by what one run of `addLiquidity` typed, which turns from open to applied in that
  step, or by a recount (`updateWhitelistedMint`, also a run). A rerun with a
  new blockhash is a run of its own, and nothing in the tool stops an operator
  who runs `addLiquidity` again while the first may still land from adding twice.
  What the property says is what she can count on: a run she has seen fail,
  expire or take effect adds nothing later, whatever its send returned, so one
  who waits for it and runs the command again does not add twice.
- `SettledConfigurationStays`: the configuration (everything but the ledger,
  the public state and the fee collector) changes only while some signed transaction of the
  administrator has neither landed nor expired. A `relayerPause` and a
  `relayerUnpause` may land in either order; once both have, or have expired,
  the outcome stands. The public state is left out because the relayer may change
  it at any time, the fee collector because she changes it without the tool.
- `SettledPublicStateStays`: what the administrator can do about a relayer that
  undoes a public pause is to replace it. Once the recorded relayer is her own key, or
  one nobody signs for, the public state changes only while one of her own
  transactions can still land. A transaction the old relayer signed before it
  was replaced may still be in the network; it is refused when it lands.
- `RunsSettle`: a run that is started prints, fails or ends unsure, and its
  transaction lands or can no longer land.
- `StagesImplementProgram`: executed stage by stage beside the transfers of
  others, a call takes the effect of one step of `BridgeProgram` or none.
- `FailuresJustified`: a call fails half-way only where `BridgeProgram` refuses it
  outright (`Accepts`): neither the order of the checks nor what others do
  between them costs a caller a call the rules admit.

### Bounds and why they are enough

- *Liquidity*: two mints (one to switch to and back), the vaults of both, one
  account of the bridge that is not a vault, one account each for administrator
  and user, amounts 1 and 2, `MaxU64` equal to the supply (4), so the ledger can
  reach the top of its range and an off-by-one would overflow. The relayer may
  be a key of its own or the bridge's PDA, which signs nothing, and
  `update_relayer` switches between them; the fee is 0, as fees have their own
  run. A payout's `receiver` may be the bridge, and the paid account any
  existing one. This reaches gifts, self-payouts, recounts, and
  switches with tokens in both vaults.
- *Deposits*: one mint of one decimal, so 10 is a whole token and 5 a half; the
  native mint without decimals, which may be whitelisted, so the fee and the
  deposit can share an account; fee 0 or 5; a limit pair that admits something
  and one whose minimum exceeds its maximum; a collector that deposits and one
  that is no system account. Nobody can be the relayer there, which keeps
  payouts out of the run: `liquidity` has them.
- *Escrow*: a vault that holds a token before initialisation, both vaults and a
  stray account, and a fee. `MaxU64` is 3, which the native mint's 10^1 exceeds
  as 10^20 exceeds a `u64`; a power that wrapped (10 mod 4 = 2) would admit
  deposits of 2.
- *Commands*: all fifteen commands, with arguments that differ wherever an exchange
  could go unnoticed (limits 1 and 2, fees 0 and 1, both mints). Three runs. The
  first initialises the program and prints its signature (`InitialisedSpec` in
  `MCAdminCli`), so that what the two others ask can be accepted: any two commands of the
  administrator may be in flight together, land in either order and both take
  effect, a whitelist entry be added and removed, the relayer be paused and
  unpaused. The relayer runs the public pauses, which are its commands too, and
  `relayerUnpause`, which is not. The administrator holds one token. Runs that
  begin before the program is initialised are in `reruns` and `settle`. One
  block (`MaxHeight` 1, `Lifetime` and `ConfirmationLag` 0) is enough here:
  expiry is the subject of `reruns`.
- *Reruns*: three runs of `initializeContract` or `addLiquidity`, two blocks that
  hand out blockhashes (`MaxHeight` 2) and one that only lets them expire, a
  blockhash that is one block late at most (`ConfirmationLag`) and lives one
  block more (`Lifetime`, 150 in reality). This reaches two runs with one
  transaction, a rerun with a fresh blockhash beside the old transaction, a
  transaction that expires before it is signed, and one that lands after the
  tool reported an error. One mint is enough.
- *Settle*: three runs of `initializeContract`, `addToWhitelist` and
  `removeFromWhitelist`: an entry can be added, removed and found again.
- *Execution*: seven calls: each liquidity instruction, a payout to the user
  and one to the vault itself, deposits without fee accounts, with a fee
  account of their own, and with one account for both. The native mint or an
  empty one is whitelisted, the fee is 0 or 1, and the collector's account does
  not exist at first.
- Bounded quantities have names in `BridgeProgram`: `Amounts`,
  `RelayerChoices`, `CollectorChoices`, `WhitelistChoices`, `FeeChoices` and
  `LimitChoices` bound arguments, `MaxU64` is the width; in `AdminCli`,
  `Commands`, `Runs`, `Lifetime`, `ConfirmationLag` and `MaxHeight`; in
  `Execution`, `Calls`. The proofs need none of them to be small.

### Fairness

The program only reacts to calls: nothing makes anyone call it, so no fairness
is assumed of its actions, and what stands in for progress is
`LedgerWithdrawable` (the call that frees the funds is never refused).

`AdminCli!FairSpec` assumes two things, both weak fairness. Each run's next
awaited call returns, with an answer or an error (`Proceed`): the client
library's calls have timeouts, a wallet signs or is refused. And the chain goes on
producing blocks (`NextBlock`). Nothing is assumed of the network: a
transaction need never land, nobody has to run the tool, and no transaction is
favoured over another. That is enough for `RunsSettle`, since the expiry of the
blockhash settles what the network does not.

## 5. What is proved

| theorem | module | states |
|---|---|---|
| `TypeCorrect` | `BridgeProgramProofs` | `Spec => []TypeOK` |
| `LedgerIsBacked` | " | `Spec => []LedgerBacked` |
| `OutflowLedgeredAlways` | " | `Spec => OutflowIsLedgered` |
| `SurplusIsKept` | " | `Spec => SurplusOnlyResynced` |
| `SilencedRelayerPays` | " | `Spec => SilencedRelayerPaysOnlyAdmin` |
| `DepositsAreAdmitted` | " | `Spec => DepositAdmitted` |
| `FeesAlwaysAccompany` | " | `Spec => FeeAccompaniesDeposit` |
| `SupplyAlwaysConserved` | `SupplyProofs` | `Spec => []SupplyConserved` |
| `CreditAlwaysFits` | " | `Spec => []CreditNeverOverflows` |
| `LedgerAlwaysWithdrawable` | " | `Spec => []LedgerWithdrawable` |
| `EscrowIsBacked` | `EscrowProofs` | the abstract escrow is backed |
| `BridgeImplementsEscrow` | `BridgeEscrowProofs` | `Spec => ImplementsEscrow` |
| `StagesImplement` | `ExecutionProofs` | `ExecSpec => StagesImplementProgram` |
| `FailuresAlwaysJustified` | " | `ExecSpec => FailuresJustified` |
| `ExecuteIsTyped` | `AdminCommandsProofs` | a well-formed command that is executed is the operation typed |
| `TypedIsExecuted` | " | the converse, for every command but `removeLiquidity` |
| `RemovalRefused` | " | no `removeLiquidity` of the tool is ever accepted or executed |
| `AcceptedAsAdmitted` | " | for every other command, `Accepts <=> Admits` |
| `EffectsAtMostOnce` | `CommandLogProofs` | `Spec => []AtMostOnce` of the log |
| `ToolKeepsLog` | `AdminCliProofs` | `AdminSpec => ImplementsCommandLog` |
| `PausedLedgerGrowth` | " | `AdminSpec => PausedLedgerGrowsByRun` |
| `ToolDoesAsTyped` | " | `AdminSpec => CommandsDoAsTyped` |
| `CommandsAlwaysAccepted` | " | `AdminSpec => []CommandsAccepted` |
| `ConfigurationSettles` | " | `AdminSpec => SettledConfigurationStays` |
| `PublicStateSettles` | " | `AdminSpec => SettledPublicStateStays` |

With `StagesImplement` every theorem about `BridgeProgram` holds of the staged
execution. They hold under the tool as well, since a landing ends in an action of
`BridgeProgram` by the way `Execute` is written; the lemma `ProgramStep` says so and
gives the proofs about `AdminCli` the invariants of the program.

*Assumptions.* Only those of the modules: the administrator can sign and the
program's address cannot; arguments are `u64`s; token accounts have an owner
and a mint, the program's ATAs and the collectors' native ATAs are among
them; accounts that do not exist yet are empty; the accounts are finitely many
and the initial supply of each mint fits a `u64`. Nothing is assumed about the number of keys, mints,
accounts or amounts, or about `MaxU64`. Only `SupplyProofs` uses the bound on
the supply. For the tool: a command line has the arguments clap asks for, out of the sets
`BridgeProgram` chooses from; the runs are finitely many; `Lifetime` and
`ConfirmationLag` are any natural numbers.

*Argument.* Eighteen instructions and three external actions affect the vault
in five ways, which `StepKind` names: the first initialisation, a switch of the
mint, `Deposited(amount)` (ledger and vault grow together),
`PaidOut(target, amount)` (ledger falls by what is paid, from a serving vault)
and `Kept` (mint, vault and ledger stay, no account of the bridge loses a token). One lemma
for each movement of tokens (`AddLiquidityStep`, `PayoutStep`,
`SendToLiquidityStep`, `SplTransferStep`) and one for the configuration show the
kind of each action, and `NextStep` joins them, with type correctness. After it
no proof looks at an action again: each property is shown for the five kinds.

*Inductive invariant.* `LedgerBacked` is not inductive alone. That a payment
leaves the serving vault rather than another account, and that the account
paid exists, need the type invariant's facts on the recorded vault (it is an
existing ATA of the program). That the escrow's balance never falls by a gift
needs that nobody signs for the program's address. `LedgerInv` is `TypeOK /\
LedgerBacked`, inductive by `LedgerBackedStep`: a deposit adds the same to both
sides, a payout takes from the ledger at least what it takes from the vault
(less when the vault pays itself), a switch makes them equal.

*Supply.* The ledger and an outside account fit a `u64` together because both are
part of one mint's supply. A sum over the accounts would need induction over a
set, so the supply is counted instead: the units of a mint are pairs of an account
and a place in it, and a transfer is a bijection between the units before and
after (`TransferMovesUnits`: the top places of the payer become the top places
of the payee), which keeps their number. That each movement stays within a mint
comes from `VaultServes`, `HeldBy` and the fee's two native accounts, through both
transfers of a deposit with a fee. `TwoAccountsWithinSupply` then bounds two
accounts by the supply. `CreditNeverOverflows` is not inductive: it follows from
`LedgerInv` (the ledger is part of the vault) and `SupplyConserved`.
`LedgerWithdrawable` follows from `LedgerInv` (the vault can pay) and
`CreditNeverOverflows` (the administrator's account can take it).

*Refinement.* `BridgeEscrowProofs` maps each kind to an escrow step: the first
initialisation to `Open`, a switch to `Resync` or `Suspend`, a deposit to
`Lock`, a payout to `Release` or, when the vault pays itself, `Retire`, anything
else to `Gift`, whose amount may be 0. A fee paid into the vault in the same
step as a deposit would break the mapping of `Lock`; `SendToLiquidityStep` shows
it cannot happen, since a collector that can be paid signs for itself.

*Deposits and fees.* `DepositIsSend` shows that a step in which the ledger grows
while another key than the administrator pays is that key's
`send_to_liquidity`; `DepositCosts` computes what it takes from each account of
the payer, one account paying both included. The two properties of deposits
follow.

*Staged execution.* While a call runs, the token program changes the accounts it
has not locked, so the working copy is not the real state plus the call's
changes. `ExecInv` says that there are balances `t` and open accounts `o`,
equal to the real ones on the locks, such that the copy is exactly `t` and `o`
after the stages passed (`Copy`), and that these stages checked what they check
(`Checked`). A transfer of others keeps `t` and `o` as they are (`TokenStep`);
each stage computes the next copy; `CommitTokens` and `CommitState` show that
what is written back is what one step would leave, since a transfer between
locked accounts does the same to balances that agree on the locks. The converse,
`FailuresAlwaysJustified`, is shown stage by stage (`AcceptedProceeds`): where
`Accepts` holds of the real state it holds of `t` and `o` as far as the locks
reach, and the copy after the earlier stages passes the next one.

*The tool.* `ToolInv` says that every transaction in the network or on the chain
was signed by some run, which still holds it. It gives the log (a landing settles
all runs that signed the transaction, and there is one; none of them had a fate
yet), and it shows that whatever lands is a well-formed command line of a key.
`ExecuteIsTyped` then takes it through the layers by position: each argument name has
one place in its command, each field one place in its struct. With `TypeOK`
that makes a landing a step of `BridgeProgram`. The converse needs
what Anchor checks as well: for each field of each struct, that the meta in its
place has the address, the signature and, where the field is `mut`, the write
permission (the `...Fits` lemmas). It fails for one field, the mint of
`RemoveLiquidity`, and `RemovalRefused` turns that into a theorem: no such
command is accepted, in any state, unless the mint has the address of an
account that is writable anyway. For the other commands, any step the operation
typed can take the command takes (`TypedIsExecuted`), and the condition for
accepting the one is the condition for admitting the other
(`AcceptedAsAdmitted`), whence `CommandsAlwaysAccepted`: a transaction in the
network is a well-formed command line. What is executed is accepted
(`ExecutedIsAccepted`), so no transaction that is recorded as refused could have
been applied. `ConfigurationSettles` adds that
others than the administrator change at most the ledger and the public state
(`OthersKeep`), and other clients of hers at most the fee collector
(`ElsewhereKeeps`), `PublicStateSettles` that only the administrator or the recorded
relayer changes the public state (`PublicStateByCaller`). `PausedLedgerGrowth`
looks at the two ways to a step: from elsewhere the ledger of a paused program
does not grow, since a deposit needs the public state active and `add_liquidity`
the administrator's signature (`GrowthElsewhere`); and among the operations a
command may stand for only two make it grow, by the amount typed or by a recount
(`GrowthTyped`). `SignersApplied` finds the run whose fate the landing settles.

*Only model-checked.* `RunsSettle`, a liveness property under fairness, which is
out of the prover's reach. Every other property of a passing run is a theorem. The
three statements the repository gets wrong are refuted by TLC;
`RemovalRefused` proves the third refutation for every state and signer. That a
guard is the whole condition of its action (that `Accepts` is when a landing can be
applied) is how the actions are written, guard and assignments, and is not a theorem.

## 6. Findings

- **A switch of the mint stops the bridge** (`mint_switch`). README.md:17 and 20
  list changing the whitelisted token and adding liquidity among what the
  administrator can do. `P/contexts/update_whitelisted_mint.rs:40-41` changes the
  mint and the ledger but leaves `bridge_state.vault`; after a switch to another
  mint no account passes both `has_one=vault` and the ATA constraint, and
  `add_liquidity`, `remove_liquidity` and both sends are refused until the
  administrator switches back. No token is lost: `OutflowIsLedgered` and
  `LedgerBacked` hold through such switches. The tests switch only to the
  mint already in use (`tests/bridge-program.ts:401`).
- **A plain transfer is not liquidity** (`direct_transfer`). README.md:289 says
  that adding liquidity can be done "via the token snippets as well". The ledger
  does not count such tokens, and no instruction will pay them out until
  `update_whitelisted_mint` is called with the same mint.
- **The tool cannot remove liquidity** (`remove_liquidity`). README.md:259
  documents the command `removeLiquidity`. `process_remove_liquidity` passes the
  mint read-only (`interactions/src/admin_endpoints.rs:277`), but the account is
  `mut` in the program (`P/contexts/remove_liquidity.rs:34-38`), so every such
  transaction fails when it lands (`RemovalRefused` proves it). The tool skips
  preflight and prints the
  signature. Clients that follow the IDL, like the tests, are accepted.

Smaller disagreements, met while reading and not modelled: README.md:257 and
263 name the commands `pause` and `unpause`, the CLI's are `publicPause`,
`publicUnpause`, `relayerPause`, `relayerUnpause`; the relayer may pause
and unpause the public side; the CLI has no command for `update_fee_collector`.

## 7. Not modelled, and why

- Which error a refused call returns, logs, and `destination_address` with its
  signature (the code only logs them): no state depends on them.
- Rent, compute limits, account sizes, forks: a transaction that has landed stays.
- Minting and burning of the mints, freezing, delegation, a change of owner of
  a token account, closing of a native account that is not empty: the
  token program allows some of these, to the accounts' owners or the mints'
  authorities; none of them acts on an account whose owner is the bridge, save
  freezing by the mint's authority. The conclusions hold for mints nobody
  freezes, and a supply that stays what it was; minting up to the `u64` the token
  program allows would not make the ledger overflow either, since its bound is
  the same.
- In the tool: the parsing of keys and numbers (clap and `parse` refuse what is
  not one), the choice of the signer (keypair file or wallet), the cluster URL,
  and the wording of its messages. `Accounts` constraints that do not depend on
  what the tool passes (space, bump seeds) hold by construction of the PDAs.
- The relayer service and the MultiversX side, which the repository does not
  contain: the relayer is a key that may pay out anything at any time.

## 8. Running

```
tlc -config Liquidity.cfg MCLiquidity.tla      # about a minute with two workers
tlc -config Deposits.cfg MCDeposits.tla
tlc -config Escrow.cfg MCEscrow.tla
tlc -config EscrowAbstract.cfg Escrow.tla
tlc -config Commands.cfg MCAdminCli.tla        # one to two minutes
tlc -config Reruns.cfg MCAdminCli.tla          # about a minute each, with
                                               # Settle and Execution
tlc -config Settle.cfg MCAdminCli.tla
tlc -config CommandLog.cfg CommandLog.tla
tlc -config Execution.cfg MCExecution.tla
tlapm BridgeProgramProofs.tla
tlapm SupplyProofs.tla
tlapm EscrowProofs.tla
tlapm BridgeEscrowProofs.tla
tlapm ExecutionProofs.tla
tlapm AdminCommandsProofs.tla
tlapm AdminCliProofs.tla
tlapm CommandLogProofs.tla
```

`MintSwitch.cfg` and `DirectTransfer.cfg`, both on `MCLiquidity.tla`, and
`RemoveLiquidity.cfg` on `MCAdminCli.tla` end in the counterexamples of section 6.
