--------------------------- MODULE AdminCommands ---------------------------
(***************************************************************************)
(* From the administrator's command line to the bridge program             *)
(* (interactions/src).                                                     *)
(*                                                                         *)
(* A command passes four layers, each written by hand: clap names its      *)
(* positional arguments, an arm of main's match passes them to a process_  *)
(* function, that function builds an instruction (a method, its data, a    *)
(* list of accounts), and the program's entry point binds the accounts to  *)
(* the fields of an Accounts struct BY POSITION.                           *)
(***************************************************************************)
EXTENDS BridgeProgram, Sequences

CONSTANTS SystemProgram, TokenProgram, AssociatedTokenProgram  \* their addresses

\* The address of the whitelist entry of a key (find_program_address).
Entry(key) == [entry |-> key, bridge_state |-> BridgePda]

-----------------------------------------------------------------------------
(* Layer one: a command line is a name and the arguments that follow it.   *)

Arguments ==
  [initializeContract    |-> <<"relayer_pk", "fee_collector_pk", "fee_amount",
                               "minimum_deposit", "maximum_deposit",
                               "mint_of_token_whitelisted">>,
   updateRelayer         |-> <<"relayer_pk">>,
   updateWhitelistedMint |-> <<"mint_of_token_whitelisted">>,
   addLiquidity          |-> <<"amount", "mint_of_token_sent">>,
   removeLiquidity       |-> <<"amount", "mint_of_token_sent">>,
   setDepositLimits      |-> <<"minimum_deposit", "maximum_deposit">>,
   setFeeAmount          |-> <<"fee_amount">>,
   publicPause           |-> <<>>,
   publicUnpause         |-> <<>>,
   relayerPause          |-> <<>>,
   relayerUnpause        |-> <<>>,
   setWhitelistActive    |-> <<>>,
   setWhitelistInactive  |-> <<>>,
   addToWhitelist        |-> <<"entry_pk">>,
   removeFromWhitelist   |-> <<"entry_pk">>]

Argument(command, name) ==
  command.args[CHOOSE i \in DOMAIN command.args : Arguments[command.name][i] = name]

-----------------------------------------------------------------------------
(* Layer three: the instruction of each process_ function.                 *)

New(key) == [key |-> key, writable |-> TRUE]
NewReadonly(key) == [key |-> key, writable |-> FALSE]

Programs ==
  <<NewReadonly(SystemProgram), NewReadonly(TokenProgram),
    NewReadonly(AssociatedTokenProgram)>>

StateMetas(signer) ==
  <<New(BridgePda), NewReadonly(signer), NewReadonly(SystemProgram)>>

MintMetas(signer, mint) ==
  <<New(BridgePda), New(Ata(BridgePda, mint)), NewReadonly(mint),
    NewReadonly(signer)>> \o Programs

LiquidityMetas_Swapped(signer, mint) ==
  <<New(BridgePda), New(Ata(BridgePda, mint)), NewReadonly(mint),
    NewReadonly(signer), New(Ata(signer, mint))>> \o Programs

LiquidityMetas(signer, mint) ==
  <<New(BridgePda), New(Ata(BridgePda, mint)), NewReadonly(signer),
    NewReadonly(mint), New(Ata(signer, mint))>> \o Programs


EntryMetas(signer, key) ==
  <<New(Entry(key)), NewReadonly(signer), New(BridgePda),
    NewReadonly(SystemProgram)>>

NoData == [none |-> 0]

Instruction(method, data, accounts) ==
  [method |-> method, data |-> data, accounts |-> accounts]

process_initialize_contract(signer, relayer_pubkey, fee_collector, mint, minimum_deposit, maximum_deposit, fee_amount) ==
  Instruction("initialize_contract",
    [relayer_pubkey |-> relayer_pubkey, fee_collector |-> fee_collector,
     fee_amount |-> fee_amount, minimum_deposit |-> minimum_deposit,
     maximum_deposit |-> maximum_deposit],
    MintMetas(signer, mint))

process_update_relayer(signer, relayer_pubkey) ==
  Instruction("update_relayer", [relayer_pubkey |-> relayer_pubkey],
              StateMetas(signer))

process_update_whitelisted_mint(signer, mint) ==
  Instruction("update_whitelisted_mint", NoData, MintMetas(signer, mint))

process_add_liquidity(signer, amount, mint) ==
  Instruction("add_liquidity", [amount |-> amount], LiquidityMetas(signer, mint))

process_remove_liquidity(signer, amount, mint) ==
  Instruction("remove_liquidity", [amount |-> amount], LiquidityMetas(signer, mint))

process_set_deposit_limits_Swapped(signer, minimum_deposit, maximum_deposit) ==
  Instruction("set_deposit_limits",
    [minimum_deposit |-> maximum_deposit, maximum_deposit |-> minimum_deposit],
    StateMetas(signer))

process_set_deposit_limits(signer, minimum_deposit, maximum_deposit) ==
  Instruction("set_deposit_limits",
    [minimum_deposit |-> minimum_deposit, maximum_deposit |-> maximum_deposit],
    StateMetas(signer))

process_set_fee_amount(signer, fee_amount) ==
  Instruction("set_fee_amount", [fee_amount |-> fee_amount], StateMetas(signer))

process_public_pause_contract(signer) ==
  Instruction("public_pause", NoData, StateMetas(signer))

process_public_unpause_contract(signer) ==
  Instruction("public_unpause", NoData, StateMetas(signer))

process_relayer_pause(signer) ==
  Instruction("relayer_pause", NoData, StateMetas(signer))

process_relayer_unpause(signer) ==
  Instruction("relayer_unpause", NoData, StateMetas(signer))

process_set_whitelist_active(signer) ==
  Instruction("set_whitelist_active", NoData, StateMetas(signer))

process_set_whitelist_inactive(signer) ==
  Instruction("set_whitelist_inactive", NoData, StateMetas(signer))

process_add_to_whitelist(signer, entry_pk) ==
  Instruction("add_to_whitelist", [address |-> entry_pk], EntryMetas(signer, entry_pk))

process_remove_from_whitelist(signer, entry_pk) ==
  Instruction("remove_from_whitelist", [address |-> entry_pk],
              EntryMetas(signer, entry_pk))

-----------------------------------------------------------------------------
(* Layer two: the arms of main's match.                                    *)

SwitchArm(signer, name) ==
  CASE name = "publicPause"          -> process_public_pause_contract(signer)
    [] name = "publicUnpause"        -> process_public_unpause_contract(signer)
    [] name = "relayerPause"         -> process_relayer_pause(signer)
    [] name = "relayerUnpause"       -> process_relayer_unpause(signer)
    [] name = "setWhitelistActive"   -> process_set_whitelist_active(signer)
    [] name = "setWhitelistInactive" -> process_set_whitelist_inactive(signer)

Arm(signer, command) ==
  LET a(name) == Argument(command, name) IN
  CASE command.name = "initializeContract" ->
         process_initialize_contract(signer, a("relayer_pk"), a("fee_collector_pk"),
           a("mint_of_token_whitelisted"), a("minimum_deposit"),
           a("maximum_deposit"), a("fee_amount"))
    [] command.name = "updateRelayer" ->
         process_update_relayer(signer, a("relayer_pk"))
    [] command.name = "updateWhitelistedMint" ->
         process_update_whitelisted_mint(signer, a("mint_of_token_whitelisted"))
    [] command.name = "addLiquidity" ->
         process_add_liquidity(signer, a("amount"), a("mint_of_token_sent"))
    [] command.name = "removeLiquidity" ->
         process_remove_liquidity(signer, a("amount"), a("mint_of_token_sent"))
    [] command.name = "setDepositLimits" ->
         process_set_deposit_limits(signer, a("minimum_deposit"), a("maximum_deposit"))
    [] command.name = "setFeeAmount" ->
         process_set_fee_amount(signer, a("fee_amount"))
    [] command.name = "addToWhitelist" ->
         process_add_to_whitelist(signer, a("entry_pk"))
    [] command.name = "removeFromWhitelist" ->
         process_remove_from_whitelist(signer, a("entry_pk"))
    [] OTHER -> SwitchArm(signer, command.name)

-----------------------------------------------------------------------------
(* Layer four: the Accounts structs, and the entry points behind them.     *)

Mutable(field) == [name |-> field, mut |-> TRUE]
Immutable(field) == [name |-> field, mut |-> FALSE]

ProgramFields ==
  <<Immutable("system_program"), Immutable("token_program"),
    Immutable("associated_token_program")>>

\* UpdateRelayer, UpdateLimitsOrFee, RelayerState, PublicState, WhitelistState
StateFields ==
  <<Mutable("bridge_state"), Mutable("authority"), Immutable("system_program")>>

\* InitializeContract, UpdateWhitelistedMint
MintFields ==
  <<Mutable("bridge_state"), Mutable("vault"),
    Immutable("mint_of_token_whitelisted"), Mutable("authority")>> \o ProgramFields

AddLiquidityFields ==
  <<Mutable("bridge_state"), Mutable("vault"), Mutable("authority"),
    Immutable("mint_of_token_sent"), Mutable("authority_token_account")>>
  \o ProgramFields

RemoveLiquidityFields ==
  <<Mutable("bridge_state"), Mutable("vault"), Mutable("authority"),
    Mutable("mint_of_token_sent"), Mutable("authority_token_account")>>
  \o ProgramFields

\* AddToWhitelist, RemoveFromWhitelist
EntryFields ==
  <<Mutable("whitelist_entry"), Mutable("authority"), Mutable("bridge_state"),
    Immutable("system_program")>>

\* The address an instruction gives to a field.
Bound(fields, accounts, name) ==
  accounts[CHOOSE i \in DOMAIN fields : fields[i].name = name].key

\* Message::new makes an account writable when one of its metas is, and the fee
\* payer always.
Writable(accounts, signer, key) ==
  key = signer \/ \E i \in DOMAIN accounts : accounts[i] = New(key)

\* What Anchor checks of every account: addresses of programs and of
\* bridge_state, the signature, `mut'.
Fits(fields, accounts, signer) ==
  /\ Len(fields) <= Len(accounts)
  /\ \A i \in DOMAIN fields :
       LET key == accounts[i].key IN
       /\ fields[i].mut => Writable(accounts, signer, key)
       /\ fields[i].name = "bridge_state" => key = BridgePda
       /\ fields[i].name = "authority" => key = signer
       /\ fields[i].name = "system_program" => key = SystemProgram
       /\ fields[i].name = "token_program" => key = TokenProgram
       /\ fields[i].name = "associated_token_program" =>
            key = AssociatedTokenProgram

OnRelayer(signer, ix) ==
  /\ Fits(StateFields, ix.accounts, signer)
  /\ ix.method = "update_relayer"
  /\ UpdateRelayer(signer, ix.data.relayer_pubkey)

\* set_deposit_limits to set_whitelist_inactive
OnState(signer, ix) ==
  /\ Fits(StateFields, ix.accounts, signer)
  /\ \/ /\ ix.method = "set_deposit_limits"
        /\ SetDepositLimits(signer,
             <<ix.data.minimum_deposit, ix.data.maximum_deposit>>)
     \/ ix.method = "set_fee_amount" /\ SetFeeAmount(signer, ix.data.fee_amount)
     \/ ix.method = "relayer_pause" /\ SetRelayerState(signer, Inactive)
     \/ ix.method = "relayer_unpause" /\ SetRelayerState(signer, Active)
     \/ ix.method = "public_pause" /\ SetPublicState(signer, Inactive)
     \/ ix.method = "public_unpause" /\ SetPublicState(signer, Active)
     \/ ix.method = "set_whitelist_active" /\ SetWhitelistState(signer, Active)
     \/ ix.method = "set_whitelist_inactive" /\ SetWhitelistState(signer, Inactive)

\* The vault is the associated account of the bridge for the mint.
MintAccountsFit(signer, accounts) ==
  /\ Fits(MintFields, accounts, signer)
  /\ Bound(MintFields, accounts, "vault") =
       Ata(BridgePda, Bound(MintFields, accounts, "mint_of_token_whitelisted"))

MintPassed(ix) == Bound(MintFields, ix.accounts, "mint_of_token_whitelisted")

OnInitialize(signer, ix) ==
  /\ MintAccountsFit(signer, ix.accounts)
  /\ ix.method = "initialize_contract"
  /\ InitializeContract(signer, MintPassed(ix), ix.data.relayer_pubkey,
       ix.data.fee_collector, ix.data.fee_amount,
       <<ix.data.minimum_deposit, ix.data.maximum_deposit>>)

OnMint(signer, ix) ==
  /\ MintAccountsFit(signer, ix.accounts)
  /\ ix.method = "update_whitelisted_mint"
  /\ UpdateWhitelistedMint(signer, MintPassed(ix))

\* has_one=vault, associated_token::mint and the constraint on the mint.
LiquidityFits(fields, signer, accounts) ==
  /\ Initialized
  /\ Fits(fields, accounts, signer)
  /\ Bound(fields, accounts, "mint_of_token_sent") =
       bridge_state.mint_of_token_whitelisted
  /\ Bound(fields, accounts, "vault") = bridge_state.vault

OnLiquidity(signer, ix) ==
  \/ /\ ix.method = "add_liquidity"
     /\ LiquidityFits(AddLiquidityFields, signer, ix.accounts)
     /\ AddLiquidity(signer,
          Bound(AddLiquidityFields, ix.accounts, "authority_token_account"),
          ix.data.amount)
  \/ /\ ix.method = "remove_liquidity"
     /\ LiquidityFits(RemoveLiquidityFields, signer, ix.accounts)
     /\ RemoveLiquidity(signer,
          Bound(RemoveLiquidityFields, ix.accounts, "authority_token_account"),
          ix.data.amount)

\* The entry is at the address derived from the key in the data (seeds).
EntryAccountsFit(signer, ix) ==
  /\ Fits(EntryFields, ix.accounts, signer)
  /\ Bound(EntryFields, ix.accounts, "whitelist_entry") = Entry(ix.data.address)

OnWhitelist(signer, ix) ==
  /\ EntryAccountsFit(signer, ix)
  /\ \/ ix.method = "add_to_whitelist" /\ AddToWhitelist(signer, ix.data.address)
     \/ /\ ix.method = "remove_from_whitelist"
        /\ RemoveFromWhitelist(signer, ix.data.address)

\* Anchor calls the entry point of the method.
Dispatch(signer, ix) ==
  \/ OnInitialize(signer, ix) \/ OnMint(signer, ix) \/ OnRelayer(signer, ix)
  \/ OnState(signer, ix) \/ OnLiquidity(signer, ix) \/ OnWhitelist(signer, ix)

\* What the program does with the transaction of a command, when it accepts it.
Execute(signer, command) == Dispatch(signer, Arm(signer, command))

\* The methods whose only condition is address=ADMIN_PUBKEY.
AdminMethods ==
  {"update_relayer", "set_deposit_limits", "set_fee_amount", "relayer_pause",
   "relayer_unpause", "set_whitelist_active", "set_whitelist_inactive"}

\* The program accepts an instruction when the accounts fit the struct of its
\* method and the conditions of its operation hold.
AcceptsInstruction(signer, ix) ==
  LET account(fields) == Bound(fields, ix.accounts, "authority_token_account") IN
  \/ /\ ix.method \in AdminMethods
     /\ Fits(StateFields, ix.accounts, signer)
     /\ ByAdmin(signer)
  \/ /\ ix.method \in {"public_pause", "public_unpause"}
     /\ Fits(StateFields, ix.accounts, signer)
     /\ CanSetPublicState(signer)
  \/ /\ MintAccountsFit(signer, ix.accounts)
     /\ \/ ix.method = "initialize_contract" /\ CanInitializeContract(signer)
        \/ ix.method = "update_whitelisted_mint" /\ ByAdmin(signer)
  \/ /\ ix.method = "add_liquidity"
     /\ LiquidityFits(AddLiquidityFields, signer, ix.accounts)
     /\ CanAddLiquidity(signer, account(AddLiquidityFields), ix.data.amount)
  \/ /\ ix.method = "remove_liquidity"
     /\ LiquidityFits(RemoveLiquidityFields, signer, ix.accounts)
     /\ CanRemoveLiquidity(signer, account(RemoveLiquidityFields), ix.data.amount)
  \/ /\ EntryAccountsFit(signer, ix)
     /\ \/ /\ ix.method = "add_to_whitelist"
           /\ CanAddToWhitelist(signer, ix.data.address)
        \/ /\ ix.method = "remove_from_whitelist"
           /\ CanRemoveFromWhitelist(signer, ix.data.address)

Accepts(signer, command) == AcceptsInstruction(signer, Arm(signer, command))

-----------------------------------------------------------------------------
(* What the commands say they do (README.md:245-269).                      *)

\* The operation of the program a command line stands for, its arguments read
\* in the order they are typed.
Typed(signer, name, arg) ==
  \/ /\ name = "initializeContract"
     /\ InitializeContract(signer, arg[6], arg[1], arg[2], arg[3], <<arg[4], arg[5]>>)
  \/ name = "updateRelayer" /\ UpdateRelayer(signer, arg[1])
  \/ name = "updateWhitelistedMint" /\ UpdateWhitelistedMint(signer, arg[1])
  \/ /\ name = "addLiquidity" /\ Initialized
     /\ arg[2] = bridge_state.mint_of_token_whitelisted
     /\ AddLiquidity(signer, Ata(signer, arg[2]), arg[1])
  \/ /\ name = "removeLiquidity" /\ Initialized
     /\ arg[2] = bridge_state.mint_of_token_whitelisted
     /\ RemoveLiquidity(signer, Ata(signer, arg[2]), arg[1])
  \/ name = "setDepositLimits" /\ SetDepositLimits(signer, <<arg[1], arg[2]>>)
  \/ name = "setFeeAmount" /\ SetFeeAmount(signer, arg[1])
  \/ name = "publicPause" /\ SetPublicState(signer, Inactive)
  \/ name = "publicUnpause" /\ SetPublicState(signer, Active)
  \/ name = "relayerPause" /\ SetRelayerState(signer, Inactive)
  \/ name = "relayerUnpause" /\ SetRelayerState(signer, Active)
  \/ name = "setWhitelistActive" /\ SetWhitelistState(signer, Active)
  \/ name = "setWhitelistInactive" /\ SetWhitelistState(signer, Inactive)
  \/ name = "addToWhitelist" /\ AddToWhitelist(signer, arg[1])
  \/ name = "removeFromWhitelist" /\ RemoveFromWhitelist(signer, arg[1])

\* What BridgeProgram asks of that operation, from a client that passes the
\* accounts it asks for.
Admits(signer, name, arg) ==
  \/ name = "initializeContract" /\ CanInitializeContract(signer)
  \/ /\ name \in {"updateRelayer", "updateWhitelistedMint", "setDepositLimits",
                  "setFeeAmount", "relayerPause", "relayerUnpause",
                  "setWhitelistActive", "setWhitelistInactive"}
     /\ ByAdmin(signer)
  \/ name \in {"publicPause", "publicUnpause"} /\ CanSetPublicState(signer)
  \/ /\ name = "addLiquidity" /\ Initialized
     /\ arg[2] = bridge_state.mint_of_token_whitelisted
     /\ CanAddLiquidity(signer, Ata(signer, arg[2]), arg[1])
  \/ /\ name = "removeLiquidity" /\ Initialized
     /\ arg[2] = bridge_state.mint_of_token_whitelisted
     /\ CanRemoveLiquidity(signer, Ata(signer, arg[2]), arg[1])
  \/ name = "addToWhitelist" /\ CanAddToWhitelist(signer, arg[1])
  \/ name = "removeFromWhitelist" /\ CanRemoveFromWhitelist(signer, arg[1])

=============================================================================
