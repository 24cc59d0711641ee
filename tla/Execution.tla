----------------------------- MODULE Execution -----------------------------
(***************************************************************************)
(* How the runtime executes the four instructions that call the token      *)
(* program: account by account and call by call, on a working copy.        *)
(*                                                                         *)
(* Anchor reads the accounts and checks their constraints, the entry point *)
(* checks its require!s, the handler moves the fee, counts the amount in   *)
(* `vault_amount' and moves the tokens; a failure at any point abandons    *)
(* the working copy.  The runtime (external) locks the accounts a          *)
(* transaction may write; the token program goes on executing the          *)
(* transactions of others on the accounts that are not locked.             *)
(*                                                                         *)
(* BridgeProgram makes one step of all this, whose guard looks only at the *)
(* state before the call.                                                  *)
(***************************************************************************)
EXTENDS BridgeProgram

CONSTANT Calls  \* bound: the calls clients make

VARIABLE exec  \* the call in progress, how far it is, and its working copy

execVars == <<vars, exec>>

Idle == [stage |-> "idle"]

\* What a client asks for: a method, the accounts it passes, and an amount.
Call ==
  [method : {"add_liquidity", "remove_liquidity", "send_from_liquidity"},
   authority : Keys, mint : Mints, account : TokenAccounts, amount : Amounts,
   provided : {{}}]
  \union
  [method : {"send_to_liquidity"},
   authority : Keys, mint : Mints, account : TokenAccounts, amount : Amounts,
   provided : SUBSET FeeAccounts, fee_source : TokenAccounts,
   fee_collector : CollectorChoices]

ASSUME CallsAssumption == Calls \subseteq Call

Vault(call) == Ata(BridgePda, call.mint)

FeeAccountsOf(call) ==
  {call.fee_source : a \in call.provided \intersect {"authority_fee_token_account"}}
  \union {Ata(call.fee_collector, NativeMint) :
            a \in call.provided \intersect {"fee_collector_ata"}}

\* The `mut' token accounts of the Accounts structs; bridge_state is one too.
Locks(call) == {Vault(call), call.account} \union FeeAccountsOf(call)

Locked == IF exec = Idle THEN {} ELSE Locks(exec.call)

\* BridgeProgram's operators, read in the working copy.
Work ==
  INSTANCE BridgeProgram WITH
    bridge_state <- exec.bridge_state, tokens <- exec.tokens, opened <- exec.opened

-----------------------------------------------------------------------------
(* The stages of a call                                                    *)

Begin(call) ==
  /\ exec = Idle
  /\ exec' = [stage |-> "accounts", call |-> call, bridge_state |-> bridge_state,
              tokens |-> tokens, opened |-> opened]
  /\ UNCHANGED vars

At(stage) == exec.stage = stage

\* has_one=vault, the vault's associated_token constraints, and the whitelisted
\* mint: the same for all four.
VaultOk(call) ==
  /\ Work!Initialized
  /\ exec.bridge_state.vault = Vault(call)
  /\ exec.bridge_state.mint_of_token_whitelisted = call.mint

EnoughInVault_Strict(call) == exec.tokens[Vault(call)] > call.amount

EnoughInVault(call) == exec.tokens[Vault(call)] >= call.amount

EnoughInAccount(call) == exec.tokens[call.account] >= call.amount

CollectorOk(call) ==
  "fee_collector_ata" \in call.provided =>
    /\ call.fee_collector = exec.bridge_state.fee_collector
    /\ call.fee_collector \in Keys

AccountsOk(call) ==
  /\ VaultOk(call)
  /\ CASE call.method = "add_liquidity" ->
            /\ call.authority = Admin
            /\ Work!HeldBy(call.account, call.authority)
            /\ EnoughInAccount(call)
       [] call.method = "remove_liquidity" ->
            /\ call.authority = Admin
            /\ Work!HeldBy(call.account, call.authority)
            /\ EnoughInVault(call)
       [] call.method = "send_from_liquidity" ->
            /\ call.authority = exec.bridge_state.relayer_pubkey
            /\ Work!HeldBy(call.account, call.account.owner)
            /\ EnoughInVault(call)
       [] call.method = "send_to_liquidity" ->
            /\ Work!HeldBy(call.account, call.authority)
            /\ EnoughInAccount(call)
            /\ "authority_fee_token_account" \in call.provided =>
                 Work!FeeSourceOk(call.authority, call.fee_source)
            /\ CollectorOk(call)

\* init_if_needed creates the collector's account.
CreatedFor(call) == IF call.method = "send_to_liquidity"
                    THEN Work!Created(call.provided) ELSE {}

\* The require!s of the entry points.
EntryOk(call) ==
  CASE call.method = "send_from_liquidity" -> Work!RelayerActive
    [] call.method = "send_to_liquidity" ->
         /\ Work!DepositAccepted(call.authority, call.amount)
         /\ Work!HasFee => call.provided = FeeAccounts
    [] OTHER -> TRUE

PaysFee(call) == call.method = "send_to_liquidity" /\ Work!HasFee

FeeOk(call) ==
  PaysFee(call) =>
    CanTransfer(exec.tokens, call.fee_source, Work!FeeAta,
                exec.bridge_state.fee_amount)

\* Counts the vault again, what arrived outside the program included.
Counted_Recount(call) ==
  IF call.method \in {"add_liquidity", "send_to_liquidity"}
  THEN exec.tokens[Vault(call)] + call.amount
  ELSE exec.bridge_state.vault_amount - call.amount

Counted(call) ==
  IF call.method \in {"add_liquidity", "send_to_liquidity"}
  THEN exec.bridge_state.vault_amount + call.amount
  ELSE exec.bridge_state.vault_amount - call.amount

From(call) ==
  IF call.method \in {"add_liquidity", "send_to_liquidity"}
  THEN call.account ELSE Vault(call)

To(call) ==
  IF call.method \in {"add_liquidity", "send_to_liquidity"}
  THEN Vault(call) ELSE call.account

MoveOk(call) == CanTransfer(exec.tokens, From(call), To(call), call.amount)

\* The working copy after each stage.
Go(stage) == exec' = [exec EXCEPT !.stage = stage] /\ UNCHANGED vars

ReadAccounts ==
  /\ At("accounts") /\ AccountsOk(exec.call)
  /\ exec' = [exec EXCEPT !.stage = "entry", !.opened = @ \union CreatedFor(exec.call)]
  /\ UNCHANGED vars

EnterHandler == At("entry") /\ EntryOk(exec.call) /\ Go("fee")

MoveFee ==
  /\ At("fee") /\ FeeOk(exec.call)
  /\ exec' = [exec EXCEPT !.stage = "count",
       !.tokens = IF PaysFee(exec.call)
                  THEN Transfer(@, exec.call.fee_source, Work!FeeAta,
                                exec.bridge_state.fee_amount)
                  ELSE @]
  /\ UNCHANGED vars

CountAmount ==
  /\ At("count") /\ Counted(exec.call) \in U64
  /\ exec' = [exec EXCEPT !.stage = "move",
                          !.bridge_state.vault_amount = Counted(exec.call)]
  /\ UNCHANGED vars

MoveTokens ==
  /\ At("move") /\ MoveOk(exec.call)
  /\ exec' = [exec EXCEPT !.stage = "exit",
       !.tokens = Transfer(@, From(exec.call), To(exec.call), exec.call.amount)]
  /\ UNCHANGED vars

\* The accounts the transaction may write take the values of the working copy.
Commit ==
  /\ At("exit")
  /\ bridge_state' = exec.bridge_state
  /\ tokens' = [a \in TokenAccounts |->
                  IF a \in Locks(exec.call) THEN exec.tokens[a] ELSE tokens[a]]
  /\ opened' = (opened \ Locks(exec.call))
                 \union (exec.opened \intersect Locks(exec.call))
  /\ exec' = Idle
  /\ UNCHANGED whitelist

CanProceed ==
  CASE At("accounts") -> AccountsOk(exec.call)
    [] At("entry")    -> EntryOk(exec.call)
    [] At("fee")      -> FeeOk(exec.call)
    [] At("count")    -> Counted(exec.call) \in U64
    [] At("move")     -> MoveOk(exec.call)
    [] OTHER          -> TRUE

\* An Err, a panic of the checked arithmetic, or an error of the token program.
Abort == ~CanProceed /\ exec' = Idle /\ UNCHANGED vars

Stage ==
  ReadAccounts \/ EnterHandler \/ MoveFee \/ CountAmount \/ MoveTokens \/ Commit \/ Abort

-----------------------------------------------------------------------------
(* The transactions of others                                              *)

\* An instruction that moves no tokens takes the lock of bridge_state in one step.
OtherInstruction ==
  /\ exec = Idle
  /\ \E authority \in Keys :
       Initialization(authority) \/ Addresses(authority) \/ Settings(authority)
  /\ UNCHANGED exec

TokenProgramStep ==
  /\ \/ \E authority \in Keys, from, to \in TokenAccounts, amount \in Amounts :
          {from, to} \intersect Locked = {} /\ SplTransfer(authority, from, to, amount)
     \/ \E account \in TokenAccounts :
          /\ account \notin Locked
          /\ \/ OpenAccount(account)
             \/ \E authority \in Keys : CloseAccount(authority, account)
  /\ UNCHANGED exec

ExecInit == Init /\ exec = Idle

ExecNext ==
  \/ \E call \in Calls : Begin(call)
  \/ Stage
  \/ OtherInstruction
  \/ TokenProgramStep

ExecSpec == ExecInit /\ [][ExecNext]_execVars

-----------------------------------------------------------------------------
(* Properties                                                              *)

\* Executed stage by stage beside the transfers of others, with the fee out
\* before the deposit, balances read before the fee moved and failures in the
\* middle, a call takes the effect BridgeProgram gives it in one step, or none
\* (send_to_liquidity, send_from_liquidity, add_liquidity, remove_liquidity).
StagesImplementProgram == Spec

\* What BridgeProgram asks of a call.  The accounts the call has locked, bridge_state
\* among them, are as it found them until it commits.
Accepts(call) ==
  /\ Initialized
  /\ Vault(call) = bridge_state.vault
  /\ \/ /\ call.method = "add_liquidity"
        /\ CanAddLiquidity(call.authority, call.account, call.amount)
     \/ /\ call.method = "remove_liquidity"
        /\ CanRemoveLiquidity(call.authority, call.account, call.amount)
     \/ /\ call.method = "send_from_liquidity"
        /\ CanSendFromLiquidity(call.authority, call.account.owner, call.account,
                                call.amount)
     \/ /\ call.method = "send_to_liquidity"
        /\ "fee_collector_ata" \in call.provided =>
             call.fee_collector = bridge_state.fee_collector
        /\ CanSendToLiquidity(call.authority, call.account, call.fee_source,
                              call.provided, call.amount)

\* A call fails half-way, after the fee or the count, only where BridgeProgram
\* refuses it outright: no order of constraints, require!s and token calls makes
\* the program refuse a payment its rules admit.
FailuresJustified == [][Abort => ~Accepts(exec.call)]_execVars

=============================================================================
