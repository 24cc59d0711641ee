------------------------ MODULE AdminCommandsProofs ------------------------
(***************************************************************************)
(* A command the program accepts is the operation its name says, on the    *)
(* arguments in the order they are typed, whatever the arguments are; and  *)
(* every command but removeLiquidity is accepted where that operation is.  *)
(***************************************************************************)
EXTENDS AdminCommands, TLAPS

\* A command line that clap accepts.
WellFormed(command) ==
  /\ command.name \in DOMAIN Arguments
  /\ DOMAIN command.args = DOMAIN Arguments[command.name]

-----------------------------------------------------------------------------
(* Positions                                                               *)

\* An argument is found at the only position that has its name.
LEMMA ArgumentAt ==
  ASSUME NEW command, NEW i \in DOMAIN command.args, NEW name,
         Arguments[command.name][i] = name,
         \A j \in DOMAIN command.args : Arguments[command.name][j] = name => j = i
  PROVE  Argument(command, name) = command.args[i]
  BY DEF Argument

\* An account is bound to the only field at its position.
LEMMA BoundAt ==
  ASSUME NEW fields, NEW accounts, NEW i \in DOMAIN fields, NEW name,
         fields[i].name = name,
         \A j \in DOMAIN fields : fields[j].name = name => j = i
  PROVE  Bound(fields, accounts, name) = accounts[i].key
  BY DEF Bound

LEMMA AmountAndMint ==
  ASSUME NEW command, WellFormed(command),
         command.name \in {"addLiquidity", "removeLiquidity"}
  PROVE  /\ Argument(command, "amount") = command.args[1]
         /\ Argument(command, "mint_of_token_sent") = command.args[2]
<1>1. Arguments[command.name] = <<"amount", "mint_of_token_sent">>
  BY DEF Arguments
<1>2. DOMAIN command.args = {1, 2}
  BY <1>1 DEF WellFormed
<1> QED
  BY <1>1, <1>2, ArgumentAt

LEMMA OneArgument ==
  ASSUME NEW command, NEW name, WellFormed(command),
         Arguments[command.name] = <<name>>
  PROVE  Argument(command, name) = command.args[1]
<1>1. DOMAIN command.args = {1}
  BY DEF WellFormed
<1> QED
  BY <1>1, ArgumentAt

LEMMA LimitArguments ==
  ASSUME NEW command, WellFormed(command), command.name = "setDepositLimits"
  PROVE  /\ Argument(command, "minimum_deposit") = command.args[1]
         /\ Argument(command, "maximum_deposit") = command.args[2]
<1>1. Arguments[command.name] = <<"minimum_deposit", "maximum_deposit">>
  BY DEF Arguments
<1>2. DOMAIN command.args = {1, 2}
  BY <1>1 DEF WellFormed
<1> QED
  BY <1>1, <1>2, ArgumentAt

LEMMA InitializeArguments ==
  ASSUME NEW command, WellFormed(command), command.name = "initializeContract"
  PROVE  /\ Argument(command, "relayer_pk") = command.args[1]
         /\ Argument(command, "fee_collector_pk") = command.args[2]
         /\ Argument(command, "fee_amount") = command.args[3]
         /\ Argument(command, "minimum_deposit") = command.args[4]
         /\ Argument(command, "maximum_deposit") = command.args[5]
         /\ Argument(command, "mint_of_token_whitelisted") = command.args[6]
<1>1. Arguments[command.name] =
        <<"relayer_pk", "fee_collector_pk", "fee_amount", "minimum_deposit",
          "maximum_deposit", "mint_of_token_whitelisted">>
  BY DEF Arguments
<1>2. DOMAIN command.args = {1, 2, 3, 4, 5, 6}
  BY <1>1 DEF WellFormed
<1> QED
  BY <1>1, <1>2, ArgumentAt

\* The fields of the structs that initialize_contract, update_whitelisted_mint,
\* add_liquidity and remove_liquidity read an address from.
LEMMA MintBound ==
  ASSUME NEW signer, NEW mint
  PROVE  /\ Bound(MintFields, MintMetas(signer, mint), "mint_of_token_whitelisted") = mint
         /\ Bound(MintFields, MintMetas(signer, mint), "vault") = Ata(BridgePda, mint)
<1>1. DOMAIN MintFields = 1..7 /\ 1..7 = {1, 2, 3, 4, 5, 6, 7}
  BY DEF MintFields, ProgramFields
<1>2. \A j \in {1, 2, 3, 4, 5, 6, 7} :
        /\ MintFields[j].name = "mint_of_token_whitelisted" <=> j = 3
        /\ MintFields[j].name = "vault" <=> j = 2
  BY DEF MintFields, ProgramFields, Mutable, Immutable
<1>3. /\ MintMetas(signer, mint)[3].key = mint
      /\ MintMetas(signer, mint)[2].key = Ata(BridgePda, mint)
  BY DEF MintMetas, Programs, New, NewReadonly
<1> QED
  BY <1>1, <1>2, <1>3, BoundAt

LEMMA LiquidityBound ==
  ASSUME NEW signer, NEW mint,
         NEW fields \in {AddLiquidityFields, RemoveLiquidityFields}
  PROVE  /\ Bound(fields, LiquidityMetas(signer, mint), "vault") =
              Ata(BridgePda, mint)
         /\ Bound(fields, LiquidityMetas(signer, mint), "mint_of_token_sent") = mint
         /\ Bound(fields, LiquidityMetas(signer, mint), "authority_token_account") =
              Ata(signer, mint)
<1> DEFINE metas == LiquidityMetas(signer, mint)
<1>1. DOMAIN fields = 1..8 /\ 1..8 = {1, 2, 3, 4, 5, 6, 7, 8}
  BY DEF AddLiquidityFields, RemoveLiquidityFields, ProgramFields
<1>2. \A j \in {1, 2, 3, 4, 5, 6, 7, 8} :
        /\ fields[j].name = "vault" <=> j = 2
        /\ fields[j].name = "mint_of_token_sent" <=> j = 4
        /\ fields[j].name = "authority_token_account" <=> j = 5
  BY DEF AddLiquidityFields, RemoveLiquidityFields, ProgramFields, Mutable, Immutable
<1>3. /\ metas[2].key = Ata(BridgePda, mint)
      /\ metas[4].key = mint
      /\ metas[5].key = Ata(signer, mint)
  BY DEF LiquidityMetas, Programs, New, NewReadonly
<1> HIDE DEF metas
<1>4. Bound(fields, metas, "vault") = Ata(BridgePda, mint)
  BY <1>1, <1>2, <1>3, BoundAt
<1>5. Bound(fields, metas, "mint_of_token_sent") = mint
  BY <1>1, <1>2, <1>3, BoundAt
<1>6. Bound(fields, metas, "authority_token_account") = Ata(signer, mint)
  BY <1>1, <1>2, <1>3, BoundAt
<1> QED
  BY <1>4, <1>5, <1>6 DEF metas

LEMMA EntryBound ==
  ASSUME NEW signer, NEW key
  PROVE  Bound(EntryFields, EntryMetas(signer, key), "whitelist_entry") = Entry(key)
<1>1. DOMAIN EntryFields = {1, 2, 3, 4}
  BY DEF EntryFields
<1>2. \A j \in {1, 2, 3, 4} : EntryFields[j].name = "whitelist_entry" <=> j = 1
  BY DEF EntryFields, Mutable, Immutable
<1>3. EntryMetas(signer, key)[1].key = Entry(key)
  BY DEF EntryMetas, New, NewReadonly
<1> QED
  BY <1>1, <1>2, <1>3, BoundAt

-----------------------------------------------------------------------------
(* From the instruction to the operation                                   *)

\* What the program does with an instruction, by its method.
LEMMA ByMethod ==
  ASSUME NEW signer, NEW ix,
         Dispatch(signer, ix)
  PROVE  /\ ix.method = "update_relayer" =>
              UpdateRelayer(signer, ix.data.relayer_pubkey)
         /\ ix.method = "set_deposit_limits" =>
              SetDepositLimits(signer,
                <<ix.data.minimum_deposit, ix.data.maximum_deposit>>)
         /\ ix.method = "set_fee_amount" => SetFeeAmount(signer, ix.data.fee_amount)
         /\ ix.method = "relayer_pause" => SetRelayerState(signer, Inactive)
         /\ ix.method = "relayer_unpause" => SetRelayerState(signer, Active)
         /\ ix.method = "public_pause" => SetPublicState(signer, Inactive)
         /\ ix.method = "public_unpause" => SetPublicState(signer, Active)
         /\ ix.method = "set_whitelist_active" => SetWhitelistState(signer, Active)
         /\ ix.method = "set_whitelist_inactive" =>
              SetWhitelistState(signer, Inactive)
         /\ ix.method = "initialize_contract" =>
              InitializeContract(signer,
                Bound(MintFields, ix.accounts, "mint_of_token_whitelisted"),
                ix.data.relayer_pubkey, ix.data.fee_collector, ix.data.fee_amount,
                <<ix.data.minimum_deposit, ix.data.maximum_deposit>>)
         /\ ix.method = "update_whitelisted_mint" =>
              UpdateWhitelistedMint(signer,
                Bound(MintFields, ix.accounts, "mint_of_token_whitelisted"))
         /\ ix.method = "add_to_whitelist" => AddToWhitelist(signer, ix.data.address)
         /\ ix.method = "remove_from_whitelist" =>
              RemoveFromWhitelist(signer, ix.data.address)
  BY DEF Dispatch, OnInitialize, OnMint, MintPassed, OnRelayer, OnState, OnLiquidity,
     OnWhitelist

LEMMA LiquidityByMethod ==
  ASSUME NEW signer, NEW ix,
         Dispatch(signer, ix)
  PROVE  /\ ix.method = "add_liquidity" =>
              /\ LiquidityFits(AddLiquidityFields, signer, ix.accounts)
              /\ AddLiquidity(signer,
                   Bound(AddLiquidityFields, ix.accounts, "authority_token_account"),
                   ix.data.amount)
         /\ ix.method = "remove_liquidity" =>
              /\ LiquidityFits(RemoveLiquidityFields, signer, ix.accounts)
              /\ RemoveLiquidity(signer,
                   Bound(RemoveLiquidityFields, ix.accounts,
                         "authority_token_account"),
                   ix.data.amount)
  BY DEF Dispatch, OnInitialize, OnMint, MintPassed, OnRelayer, OnState, OnLiquidity,
     OnWhitelist

-----------------------------------------------------------------------------
(* From the command line to the instruction                                *)

\* An instruction has what it is built from.
LEMMA InstructionParts ==
  ASSUME NEW method, NEW data, NEW accounts
  PROVE  /\ Instruction(method, data, accounts).method = method
         /\ Instruction(method, data, accounts).data = data
         /\ Instruction(method, data, accounts).accounts = accounts
  BY DEF Instruction

SwitchNames ==
  {"publicPause", "publicUnpause", "relayerPause", "relayerUnpause",
   "setWhitelistActive", "setWhitelistInactive"}

LEMMA SwitchInstruction ==
  ASSUME NEW signer, NEW command, command.name \in SwitchNames
  PROVE  /\ Arm(signer, command).method =
              CASE command.name = "publicPause"          -> "public_pause"
                [] command.name = "publicUnpause"        -> "public_unpause"
                [] command.name = "relayerPause"         -> "relayer_pause"
                [] command.name = "relayerUnpause"       -> "relayer_unpause"
                [] command.name = "setWhitelistActive"   -> "set_whitelist_active"
                [] command.name = "setWhitelistInactive" -> "set_whitelist_inactive"
         /\ Arm(signer, command).accounts = StateMetas(signer)
<1>1. Arm(signer, command) = SwitchArm(signer, command.name)
  BY DEF Arm, SwitchNames
<1> QED
  BY <1>1, InstructionParts DEF SwitchNames, SwitchArm, process_public_pause_contract,
     process_public_unpause_contract, process_relayer_pause,
     process_relayer_unpause, process_set_whitelist_active,
     process_set_whitelist_inactive

LEMMA RelayerInstruction ==
  ASSUME NEW signer, NEW command, WellFormed(command), command.name = "updateRelayer"
  PROVE  /\ Arm(signer, command).method = "update_relayer"
         /\ Arm(signer, command).data.relayer_pubkey = command.args[1]
         /\ Arm(signer, command).accounts = StateMetas(signer)
<1>1. Argument(command, "relayer_pk") = command.args[1]
  BY OneArgument DEF Arguments
<1> QED
  BY <1>1, InstructionParts DEF Arm, process_update_relayer

LEMMA FeeInstruction ==
  ASSUME NEW signer, NEW command, WellFormed(command), command.name = "setFeeAmount"
  PROVE  /\ Arm(signer, command).method = "set_fee_amount"
         /\ Arm(signer, command).data.fee_amount = command.args[1]
         /\ Arm(signer, command).accounts = StateMetas(signer)
<1>1. Argument(command, "fee_amount") = command.args[1]
  BY OneArgument DEF Arguments
<1> QED
  BY <1>1, InstructionParts DEF Arm, process_set_fee_amount

LEMMA EntryInstruction ==
  ASSUME NEW signer, NEW command, WellFormed(command),
         command.name \in {"addToWhitelist", "removeFromWhitelist"}
  PROVE  /\ Arm(signer, command).method =
              IF command.name = "addToWhitelist"
              THEN "add_to_whitelist" ELSE "remove_from_whitelist"
         /\ Arm(signer, command).data.address = command.args[1]
         /\ Arm(signer, command).accounts = EntryMetas(signer, command.args[1])
<1>1. Argument(command, "entry_pk") = command.args[1]
  BY OneArgument DEF Arguments
<1> QED
  BY <1>1, InstructionParts
     DEF Arm, process_add_to_whitelist, process_remove_from_whitelist

LEMMA LimitsInstruction ==
  ASSUME NEW signer, NEW command, WellFormed(command),
         command.name = "setDepositLimits"
  PROVE  /\ Arm(signer, command).method = "set_deposit_limits"
         /\ Arm(signer, command).data.minimum_deposit = command.args[1]
         /\ Arm(signer, command).data.maximum_deposit = command.args[2]
         /\ Arm(signer, command).accounts = StateMetas(signer)
<1>1. Arm(signer, command) =
        process_set_deposit_limits(signer, command.args[1], command.args[2])
  BY LimitArguments DEF Arm
<1> QED
  BY <1>1, InstructionParts DEF process_set_deposit_limits

LEMMA InitializeInstruction ==
  ASSUME NEW signer, NEW command, WellFormed(command),
         command.name = "initializeContract"
  PROVE  LET ix == Arm(signer, command)
             arg == command.args IN
         /\ ix.method = "initialize_contract"
         /\ ix.data.relayer_pubkey = arg[1]
         /\ ix.data.fee_collector = arg[2]
         /\ ix.data.fee_amount = arg[3]
         /\ ix.data.minimum_deposit = arg[4]
         /\ ix.data.maximum_deposit = arg[5]
         /\ ix.accounts = MintMetas(signer, arg[6])
<1>1. Arm(signer, command) =
        process_initialize_contract(signer, command.args[1], command.args[2],
          command.args[6], command.args[4], command.args[5], command.args[3])
  BY InitializeArguments DEF Arm
<1> QED
  BY <1>1, InstructionParts DEF process_initialize_contract

LEMMA MintInstruction ==
  ASSUME NEW signer, NEW command, WellFormed(command),
         command.name = "updateWhitelistedMint"
  PROVE  /\ Arm(signer, command).method = "update_whitelisted_mint"
         /\ Arm(signer, command).accounts = MintMetas(signer, command.args[1])
<1>1. Argument(command, "mint_of_token_whitelisted") = command.args[1]
  BY OneArgument DEF Arguments
<1> QED
  BY <1>1, InstructionParts DEF Arm, process_update_whitelisted_mint

LEMMA LiquidityInstruction ==
  ASSUME NEW signer, NEW command, WellFormed(command),
         command.name \in {"addLiquidity", "removeLiquidity"}
  PROVE  /\ Arm(signer, command).method =
              IF command.name = "addLiquidity"
              THEN "add_liquidity" ELSE "remove_liquidity"
         /\ Arm(signer, command).data.amount = command.args[1]
         /\ Arm(signer, command).accounts = LiquidityMetas(signer, command.args[2])
<1>1. Arm(signer, command) =
        IF command.name = "addLiquidity"
        THEN process_add_liquidity(signer, command.args[1], command.args[2])
        ELSE process_remove_liquidity(signer, command.args[1], command.args[2])
  BY AmountAndMint DEF Arm
<1> QED
  BY <1>1, InstructionParts DEF process_add_liquidity, process_remove_liquidity

-----------------------------------------------------------------------------
(* A command the program accepts                                           *)

LEMMA StateIsTyped ==
  ASSUME NEW signer, NEW command, WellFormed(command), Execute(signer, command),
         command.name \in SwitchNames \union
           {"updateRelayer", "setFeeAmount", "addToWhitelist",
            "removeFromWhitelist", "setDepositLimits"}
  PROVE  Typed(signer, command.name, command.args)
<1> DEFINE ix == Arm(signer, command)
           arg == command.args
<1>1. Dispatch(signer, ix)
  BY DEF Execute
<1>2. command.name \in SwitchNames =>
        /\ ix.method =
             CASE command.name = "publicPause"          -> "public_pause"
               [] command.name = "publicUnpause"        -> "public_unpause"
               [] command.name = "relayerPause"         -> "relayer_pause"
               [] command.name = "relayerUnpause"       -> "relayer_unpause"
               [] command.name = "setWhitelistActive"   -> "set_whitelist_active"
               [] command.name = "setWhitelistInactive" -> "set_whitelist_inactive"
  BY SwitchInstruction
<1>3. command.name = "updateRelayer" =>
        /\ ix.method = "update_relayer"
        /\ ix.data.relayer_pubkey = arg[1]
  BY RelayerInstruction
<1>4. command.name = "setFeeAmount" =>
        /\ ix.method = "set_fee_amount"
        /\ ix.data.fee_amount = arg[1]
  BY FeeInstruction
<1>5. command.name \in {"addToWhitelist", "removeFromWhitelist"} =>
        /\ ix.method = IF command.name = "addToWhitelist"
                       THEN "add_to_whitelist" ELSE "remove_from_whitelist"
        /\ ix.data.address = arg[1]
  BY EntryInstruction
<1>6. command.name = "setDepositLimits" =>
        /\ ix.method = "set_deposit_limits"
        /\ ix.data.minimum_deposit = arg[1]
        /\ ix.data.maximum_deposit = arg[2]
  BY LimitsInstruction
<1> HIDE DEF ix
<1>7. CASE command.name \in SwitchNames
  BY <1>1, <1>2, <1>7, ByMethod DEF Typed, SwitchNames
<1>8. CASE command.name = "updateRelayer"
  BY <1>1, <1>3, <1>8, ByMethod DEF Typed
<1>9. CASE command.name = "setFeeAmount"
  BY <1>1, <1>4, <1>9, ByMethod DEF Typed
<1>10. CASE command.name \in {"addToWhitelist", "removeFromWhitelist"}
  BY <1>1, <1>5, <1>10, ByMethod DEF Typed
<1>11. CASE command.name = "setDepositLimits"
  BY <1>1, <1>6, <1>11, ByMethod DEF Typed
<1> QED
  BY <1>7, <1>8, <1>9, <1>10, <1>11

LEMMA MintIsTyped ==
  ASSUME NEW signer, NEW command, WellFormed(command), Execute(signer, command),
         command.name \in {"initializeContract", "updateWhitelistedMint"}
  PROVE  Typed(signer, command.name, command.args)
<1> DEFINE ix == Arm(signer, command)
           arg == command.args
<1>1. Dispatch(signer, ix)
  BY DEF Execute
<1>2. command.name = "initializeContract" =>
        /\ ix.method = "initialize_contract"
        /\ ix.data.relayer_pubkey = arg[1]
        /\ ix.data.fee_collector = arg[2]
        /\ ix.data.fee_amount = arg[3]
        /\ ix.data.minimum_deposit = arg[4]
        /\ ix.data.maximum_deposit = arg[5]
        /\ Bound(MintFields, ix.accounts, "mint_of_token_whitelisted") = arg[6]
  BY InitializeInstruction, MintBound
<1>3. command.name = "updateWhitelistedMint" =>
        /\ ix.method = "update_whitelisted_mint"
        /\ Bound(MintFields, ix.accounts, "mint_of_token_whitelisted") = arg[1]
  BY MintInstruction, MintBound
<1> HIDE DEF ix
<1>4. CASE command.name = "initializeContract"
  BY <1>1, <1>2, <1>4, ByMethod DEF Typed
<1>5. CASE command.name = "updateWhitelistedMint"
  BY <1>1, <1>3, <1>5, ByMethod DEF Typed
<1> QED
  BY <1>4, <1>5

LEMMA LiquidityIsTyped ==
  ASSUME NEW signer, NEW command, WellFormed(command), Execute(signer, command),
         command.name \in {"addLiquidity", "removeLiquidity"}
  PROVE  Typed(signer, command.name, command.args)
<1> DEFINE ix == Arm(signer, command)
           arg == command.args
<1>1. Dispatch(signer, ix)
  BY DEF Execute
<1>2. /\ ix.method = IF command.name = "addLiquidity"
                       THEN "add_liquidity" ELSE "remove_liquidity"
      /\ ix.data.amount = arg[1]
      /\ ix.accounts = LiquidityMetas(signer, arg[2])
  BY LiquidityInstruction
<1> HIDE DEF ix
<1>3. \A fields \in {AddLiquidityFields, RemoveLiquidityFields} :
        /\ LiquidityFits(fields, signer, ix.accounts) =>
             Initialized /\ arg[2] = bridge_state.mint_of_token_whitelisted
        /\ Bound(fields, ix.accounts, "authority_token_account") =
             Ata(signer, arg[2])
  BY <1>2, LiquidityBound DEF LiquidityFits
<1>4. CASE command.name = "addLiquidity"
  BY <1>1, <1>2, <1>3, <1>4, LiquidityByMethod DEF Typed
<1>5. CASE command.name = "removeLiquidity"
  BY <1>1, <1>2, <1>3, <1>5, LiquidityByMethod DEF Typed
<1> QED
  BY <1>4, <1>5

LEMMA CommandNames ==
  ASSUME NEW command, WellFormed(command)
  PROVE  command.name \in SwitchNames \union
           {"initializeContract", "updateRelayer", "updateWhitelistedMint",
            "addLiquidity", "removeLiquidity", "setDepositLimits", "setFeeAmount",
            "addToWhitelist", "removeFromWhitelist"}
  BY DEF WellFormed, Arguments, SwitchNames

\* A well-formed command the program accepts is the operation its name says, on
\* the arguments in the order they are typed (clap's positions, main's arms,
\* the process_ functions and the program's Accounts structs together).
THEOREM ExecuteIsTyped ==
  ASSUME NEW signer, NEW command, WellFormed(command), Execute(signer, command)
  PROVE  Typed(signer, command.name, command.args)
  BY CommandNames, StateIsTyped, MintIsTyped, LiquidityIsTyped

-----------------------------------------------------------------------------
(* The accounts the tool lists satisfy the structs                         *)

\* What Anchor checks of the account of one field.
FieldFits(field, accounts, signer, key) ==
  /\ field.mut => Writable(accounts, signer, key)
  /\ field.name = "bridge_state" => key = BridgePda
  /\ field.name = "authority" => key = signer
  /\ field.name = "system_program" => key = SystemProgram
  /\ field.name = "token_program" => key = TokenProgram
  /\ field.name = "associated_token_program" => key = AssociatedTokenProgram

LEMMA FitsByField ==
  ASSUME NEW fields, NEW accounts, NEW signer, Len(fields) <= Len(accounts),
         \A i \in DOMAIN fields :
           FieldFits(fields[i], accounts, signer, accounts[i].key)
  PROVE  Fits(fields, accounts, signer)
  BY DEF Fits, FieldFits

LEMMA AuthorityFits ==
  ASSUME NEW accounts, NEW signer
  PROVE  FieldFits(Mutable("authority"), accounts, signer, signer)
  BY DEF FieldFits, Mutable, Writable

\* A `mut' account the tool lists as writable.
LEMMA ListedFits ==
  ASSUME NEW accounts, NEW signer, NEW key, NEW i \in DOMAIN accounts,
         accounts[i] = New(key)
  PROVE  /\ FieldFits(Mutable("vault"), accounts, signer, key)
         /\ FieldFits(Mutable("authority_token_account"), accounts, signer, key)
         /\ FieldFits(Mutable("whitelist_entry"), accounts, signer, key)
         /\ key = BridgePda =>
              FieldFits(Mutable("bridge_state"), accounts, signer, key)
<1>1. Writable(accounts, signer, key)
  BY DEF Writable
<1> QED
  BY <1>1 DEF FieldFits, Mutable

LEMMA ProgramFits ==
  ASSUME NEW accounts, NEW signer
  PROVE  /\ FieldFits(Immutable("system_program"), accounts, signer, SystemProgram)
         /\ FieldFits(Immutable("token_program"), accounts, signer, TokenProgram)
         /\ FieldFits(Immutable("associated_token_program"), accounts, signer,
                      AssociatedTokenProgram)
  BY DEF FieldFits, Immutable

LEMMA MintFieldFits ==
  ASSUME NEW accounts, NEW signer, NEW mint
  PROVE  /\ FieldFits(Immutable("mint_of_token_whitelisted"), accounts, signer, mint)
         /\ FieldFits(Immutable("mint_of_token_sent"), accounts, signer, mint)
  BY DEF FieldFits, Immutable

LEMMA StateFits ==
  ASSUME NEW signer
  PROVE  Fits(StateFields, StateMetas(signer), signer)
<1> DEFINE fields == StateFields
           metas == StateMetas(signer)
<1>1. /\ DOMAIN fields = 1..3 /\ DOMAIN metas = 1..3
      /\ Len(fields) = 3 /\ Len(metas) = 3
  BY DEF StateFields, StateMetas
<1>2. 1..3 = {1, 2, 3}
  OBVIOUS
<1>3. /\ fields[1] = Mutable("bridge_state")
      /\ fields[2] = Mutable("authority")
      /\ fields[3] = Immutable("system_program")
  BY DEF StateFields
<1>4. /\ metas[1] = New(BridgePda)
      /\ metas[2] = NewReadonly(signer)
      /\ metas[3] = NewReadonly(SystemProgram)
  BY DEF StateMetas
<1>5. \A k : New(k).key = k /\ NewReadonly(k).key = k
  BY DEF New, NewReadonly
<1> HIDE DEF fields, metas
<1>6. FieldFits(fields[1], metas, signer, metas[1].key)
  BY <1>1, <1>2, <1>3, <1>4, <1>5, ListedFits
<1>7. FieldFits(fields[2], metas, signer, metas[2].key)
  BY <1>3, <1>4, <1>5, AuthorityFits
<1>8. FieldFits(fields[3], metas, signer, metas[3].key)
  BY <1>3, <1>4, <1>5, ProgramFits
<1>9. Fits(fields, metas, signer)
  BY <1>1, <1>2, <1>6, <1>7, <1>8, FitsByField
<1> QED
  BY <1>9 DEF fields, metas

LEMMA MintFits ==
  ASSUME NEW signer, NEW mint
  PROVE  Fits(MintFields, MintMetas(signer, mint), signer)
<1> DEFINE fields == MintFields
           metas == MintMetas(signer, mint)
<1>1. /\ DOMAIN fields = 1..7 /\ DOMAIN metas = 1..7
      /\ Len(fields) = 7 /\ Len(metas) = 7
  BY DEF MintFields, ProgramFields, MintMetas, Programs
<1>2. 1..7 = {1, 2, 3, 4, 5, 6, 7}
  OBVIOUS
<1>3. /\ fields[1] = Mutable("bridge_state")
      /\ fields[2] = Mutable("vault")
      /\ fields[3] = Immutable("mint_of_token_whitelisted")
      /\ fields[4] = Mutable("authority")
      /\ fields[5] = Immutable("system_program")
      /\ fields[6] = Immutable("token_program")
      /\ fields[7] = Immutable("associated_token_program")
  BY DEF MintFields, ProgramFields
<1>4. /\ metas[1] = New(BridgePda)
      /\ metas[2] = New(Ata(BridgePda, mint))
      /\ metas[3] = NewReadonly(mint)
      /\ metas[4] = NewReadonly(signer)
      /\ metas[5] = NewReadonly(SystemProgram)
      /\ metas[6] = NewReadonly(TokenProgram)
      /\ metas[7] = NewReadonly(AssociatedTokenProgram)
  BY DEF MintMetas, Programs
<1>5. \A k : New(k).key = k /\ NewReadonly(k).key = k
  BY DEF New, NewReadonly
<1> HIDE DEF fields, metas
<1>6. FieldFits(fields[1], metas, signer, metas[1].key)
  BY <1>1, <1>2, <1>3, <1>4, <1>5, ListedFits
<1>7. FieldFits(fields[2], metas, signer, metas[2].key)
  BY <1>1, <1>2, <1>3, <1>4, <1>5, ListedFits
<1>8. FieldFits(fields[3], metas, signer, metas[3].key)
  BY <1>3, <1>4, <1>5, MintFieldFits
<1>9. FieldFits(fields[4], metas, signer, metas[4].key)
  BY <1>3, <1>4, <1>5, AuthorityFits
<1>10. FieldFits(fields[5], metas, signer, metas[5].key)
  BY <1>3, <1>4, <1>5, ProgramFits
<1>11. FieldFits(fields[6], metas, signer, metas[6].key)
  BY <1>3, <1>4, <1>5, ProgramFits
<1>12. FieldFits(fields[7], metas, signer, metas[7].key)
  BY <1>3, <1>4, <1>5, ProgramFits
<1>13. Fits(fields, metas, signer)
  BY <1>1, <1>2, <1>6, <1>7, <1>8, <1>9, <1>10, <1>11, <1>12, FitsByField
<1> QED
  BY <1>13 DEF fields, metas

LEMMA AddLiquidityFits ==
  ASSUME NEW signer, NEW mint
  PROVE  Fits(AddLiquidityFields, LiquidityMetas(signer, mint), signer)
<1> DEFINE fields == AddLiquidityFields
           metas == LiquidityMetas(signer, mint)
<1>1. /\ DOMAIN fields = 1..8 /\ DOMAIN metas = 1..8
      /\ Len(fields) = 8 /\ Len(metas) = 8
  BY DEF AddLiquidityFields, ProgramFields, LiquidityMetas, Programs
<1>2. 1..8 = {1, 2, 3, 4, 5, 6, 7, 8}
  OBVIOUS
<1>3. /\ fields[1] = Mutable("bridge_state")
      /\ fields[2] = Mutable("vault")
      /\ fields[3] = Mutable("authority")
      /\ fields[4] = Immutable("mint_of_token_sent")
      /\ fields[5] = Mutable("authority_token_account")
      /\ fields[6] = Immutable("system_program")
      /\ fields[7] = Immutable("token_program")
      /\ fields[8] = Immutable("associated_token_program")
  BY DEF AddLiquidityFields, ProgramFields
<1>4. /\ metas[1] = New(BridgePda)
      /\ metas[2] = New(Ata(BridgePda, mint))
      /\ metas[3] = NewReadonly(signer)
      /\ metas[4] = NewReadonly(mint)
      /\ metas[5] = New(Ata(signer, mint))
      /\ metas[6] = NewReadonly(SystemProgram)
      /\ metas[7] = NewReadonly(TokenProgram)
      /\ metas[8] = NewReadonly(AssociatedTokenProgram)
  BY DEF LiquidityMetas, Programs
<1>5. \A k : New(k).key = k /\ NewReadonly(k).key = k
  BY DEF New, NewReadonly
<1> HIDE DEF fields, metas
<1>6. FieldFits(fields[1], metas, signer, metas[1].key)
  BY <1>1, <1>2, <1>3, <1>4, <1>5, ListedFits
<1>7. FieldFits(fields[2], metas, signer, metas[2].key)
  BY <1>1, <1>2, <1>3, <1>4, <1>5, ListedFits
<1>8. FieldFits(fields[3], metas, signer, metas[3].key)
  BY <1>3, <1>4, <1>5, AuthorityFits
<1>9. FieldFits(fields[4], metas, signer, metas[4].key)
  BY <1>3, <1>4, <1>5, MintFieldFits
<1>10. FieldFits(fields[5], metas, signer, metas[5].key)
  BY <1>1, <1>2, <1>3, <1>4, <1>5, ListedFits
<1>11. FieldFits(fields[6], metas, signer, metas[6].key)
  BY <1>3, <1>4, <1>5, ProgramFits
<1>12. FieldFits(fields[7], metas, signer, metas[7].key)
  BY <1>3, <1>4, <1>5, ProgramFits
<1>13. FieldFits(fields[8], metas, signer, metas[8].key)
  BY <1>3, <1>4, <1>5, ProgramFits
<1>14. Fits(fields, metas, signer)
  BY <1>1, <1>2, <1>6, <1>7, <1>8, <1>9, <1>10, <1>11, <1>12, <1>13, FitsByField
<1> QED
  BY <1>14 DEF fields, metas

LEMMA EntryFits ==
  ASSUME NEW signer, NEW key
  PROVE  Fits(EntryFields, EntryMetas(signer, key), signer)
<1> DEFINE fields == EntryFields
           metas == EntryMetas(signer, key)
<1>1. /\ DOMAIN fields = 1..4 /\ DOMAIN metas = 1..4
      /\ Len(fields) = 4 /\ Len(metas) = 4
  BY DEF EntryFields, EntryMetas
<1>2. 1..4 = {1, 2, 3, 4}
  OBVIOUS
<1>3. /\ fields[1] = Mutable("whitelist_entry")
      /\ fields[2] = Mutable("authority")
      /\ fields[3] = Mutable("bridge_state")
      /\ fields[4] = Immutable("system_program")
  BY DEF EntryFields
<1>4. /\ metas[1] = New(Entry(key))
      /\ metas[2] = NewReadonly(signer)
      /\ metas[3] = New(BridgePda)
      /\ metas[4] = NewReadonly(SystemProgram)
  BY DEF EntryMetas
<1>5. \A k : New(k).key = k /\ NewReadonly(k).key = k
  BY DEF New, NewReadonly
<1> HIDE DEF fields, metas
<1>6. FieldFits(fields[1], metas, signer, metas[1].key)
  BY <1>1, <1>2, <1>3, <1>4, <1>5, ListedFits
<1>7. FieldFits(fields[2], metas, signer, metas[2].key)
  BY <1>3, <1>4, <1>5, AuthorityFits
<1>8. FieldFits(fields[3], metas, signer, metas[3].key)
  BY <1>1, <1>2, <1>3, <1>4, <1>5, ListedFits
<1>9. FieldFits(fields[4], metas, signer, metas[4].key)
  BY <1>3, <1>4, <1>5, ProgramFits
<1>10. Fits(fields, metas, signer)
  BY <1>1, <1>2, <1>6, <1>7, <1>8, <1>9, FitsByField
<1> QED
  BY <1>10 DEF fields, metas

-----------------------------------------------------------------------------
(* An operation the program accepts                                        *)

LEMMA StateIsExecuted ==
  ASSUME NEW signer, NEW command, WellFormed(command),
         Typed(signer, command.name, command.args),
         command.name \in SwitchNames \union
           {"updateRelayer", "setFeeAmount", "setDepositLimits"}
  PROVE  Execute(signer, command)
<1> DEFINE ix == Arm(signer, command)
           arg == command.args
<1>1. command.name \in SwitchNames =>
        /\ ix.accounts = StateMetas(signer)
        /\ ix.method =
             CASE command.name = "publicPause"          -> "public_pause"
               [] command.name = "publicUnpause"        -> "public_unpause"
               [] command.name = "relayerPause"         -> "relayer_pause"
               [] command.name = "relayerUnpause"       -> "relayer_unpause"
               [] command.name = "setWhitelistActive"   -> "set_whitelist_active"
               [] command.name = "setWhitelistInactive" -> "set_whitelist_inactive"
  BY SwitchInstruction
<1>2. command.name = "updateRelayer" =>
        /\ ix.accounts = StateMetas(signer)
        /\ ix.method = "update_relayer"
        /\ ix.data.relayer_pubkey = arg[1]
  BY RelayerInstruction
<1>3. command.name = "setFeeAmount" =>
        /\ ix.accounts = StateMetas(signer)
        /\ ix.method = "set_fee_amount"
        /\ ix.data.fee_amount = arg[1]
  BY FeeInstruction
<1>4. command.name = "setDepositLimits" =>
        /\ ix.accounts = StateMetas(signer)
        /\ ix.method = "set_deposit_limits"
        /\ ix.data.minimum_deposit = arg[1]
        /\ ix.data.maximum_deposit = arg[2]
  BY LimitsInstruction
<1>5. OnRelayer(signer, ix) \/ OnState(signer, ix) => Execute(signer, command)
  BY DEF Execute, Dispatch
<1> HIDE DEF ix
<1>6. CASE command.name \in SwitchNames
  BY <1>1, <1>5, <1>6, StateFits DEF Typed, OnState, SwitchNames
<1>7. CASE command.name = "updateRelayer"
  BY <1>2, <1>5, <1>7, StateFits DEF Typed, OnRelayer
<1>8. CASE command.name = "setFeeAmount"
  BY <1>3, <1>5, <1>8, StateFits DEF Typed, OnState
<1>9. CASE command.name = "setDepositLimits"
  BY <1>4, <1>5, <1>9, StateFits DEF Typed, OnState
<1> QED
  BY <1>6, <1>7, <1>8, <1>9

LEMMA MintIsExecuted ==
  ASSUME NEW signer, NEW command, WellFormed(command),
         Typed(signer, command.name, command.args),
         command.name \in {"initializeContract", "updateWhitelistedMint"}
  PROVE  Execute(signer, command)
<1> DEFINE ix == Arm(signer, command)
           arg == command.args
<1>1. command.name = "initializeContract" =>
        /\ ix.accounts = MintMetas(signer, arg[6])
        /\ ix.method = "initialize_contract"
        /\ ix.data.relayer_pubkey = arg[1]
        /\ ix.data.fee_collector = arg[2]
        /\ ix.data.fee_amount = arg[3]
        /\ ix.data.minimum_deposit = arg[4]
        /\ ix.data.maximum_deposit = arg[5]
  BY InitializeInstruction
<1>2. command.name = "updateWhitelistedMint" =>
        /\ ix.accounts = MintMetas(signer, arg[1])
        /\ ix.method = "update_whitelisted_mint"
  BY MintInstruction
<1>3. OnInitialize(signer, ix) \/ OnMint(signer, ix) => Execute(signer, command)
  BY DEF Execute, Dispatch
<1> HIDE DEF ix
<1>4. CASE command.name = "initializeContract"
  BY <1>1, <1>3, <1>4, MintFits, MintBound
     DEF Typed, OnInitialize, MintPassed, MintAccountsFit
<1>5. CASE command.name = "updateWhitelistedMint"
  BY <1>2, <1>3, <1>5, MintFits, MintBound
     DEF Typed, OnMint, MintPassed, MintAccountsFit
<1> QED
  BY <1>4, <1>5

LEMMA EntryIsExecuted ==
  ASSUME NEW signer, NEW command, WellFormed(command),
         Typed(signer, command.name, command.args),
         command.name \in {"addToWhitelist", "removeFromWhitelist"}
  PROVE  Execute(signer, command)
<1> DEFINE ix == Arm(signer, command)
           arg == command.args
<1>1. command.name \in {"addToWhitelist", "removeFromWhitelist"} =>
        /\ ix.accounts = EntryMetas(signer, arg[1])
        /\ ix.method = IF command.name = "addToWhitelist"
                       THEN "add_to_whitelist" ELSE "remove_from_whitelist"
        /\ ix.data.address = arg[1]
  BY EntryInstruction
<1>2. OnWhitelist(signer, ix) => Execute(signer, command)
  BY DEF Execute, Dispatch
<1> HIDE DEF ix
<1>3. CASE command.name \in {"addToWhitelist", "removeFromWhitelist"}
  BY <1>1, <1>2, <1>3, EntryFits, EntryBound DEF Typed, OnWhitelist, EntryAccountsFit
<1> QED
  BY <1>3

LEMMA AdditionIsExecuted ==
  ASSUME NEW signer, NEW command, WellFormed(command),
         Typed(signer, command.name, command.args),
         command.name = "addLiquidity"
  PROVE  Execute(signer, command)
<1> DEFINE ix == Arm(signer, command)
           arg == command.args
<1>1. /\ ix.method = "add_liquidity"
      /\ ix.data.amount = arg[1]
      /\ ix.accounts = LiquidityMetas(signer, arg[2])
  BY LiquidityInstruction
<1>2. OnLiquidity(signer, ix) => Execute(signer, command)
  BY DEF Execute, Dispatch
<1> HIDE DEF ix
<1>3. /\ Initialized
      /\ arg[2] = bridge_state.mint_of_token_whitelisted
      /\ AddLiquidity(signer, Ata(signer, arg[2]), arg[1])
  BY DEF Typed
<1>4. bridge_state.vault = Ata(BridgePda, arg[2])
  BY <1>3 DEF AddLiquidity, CanAddLiquidity, VaultServes
<1>5. /\ Bound(AddLiquidityFields, ix.accounts, "vault") = bridge_state.vault
      /\ Bound(AddLiquidityFields, ix.accounts, "mint_of_token_sent") = arg[2]
      /\ Bound(AddLiquidityFields, ix.accounts, "authority_token_account") =
           Ata(signer, arg[2])
  BY <1>1, <1>4, LiquidityBound
<1>6. LiquidityFits(AddLiquidityFields, signer, ix.accounts)
  BY <1>1, <1>3, <1>5, AddLiquidityFits DEF LiquidityFits
<1> QED
  BY <1>1, <1>2, <1>3, <1>5, <1>6 DEF OnLiquidity

\* The converse of ExecuteIsTyped: for every command but removeLiquidity, what
\* the program does for a client that passes the accounts it asks for, it does
\* for the tool.  The metas of the process_ functions satisfy the addresses,
\* the signer and every `mut' of the Accounts structs.
THEOREM TypedIsExecuted ==
  ASSUME NEW signer, NEW command, WellFormed(command),
         command.name # "removeLiquidity",
         Typed(signer, command.name, command.args)
  PROVE  Execute(signer, command)
  BY CommandNames, StateIsExecuted, MintIsExecuted, EntryIsExecuted,
     AdditionIsExecuted

-----------------------------------------------------------------------------
(* What the program accepts                                                *)

LEMMA StateAcceptance ==
  ASSUME NEW signer, NEW command, WellFormed(command),
         command.name \in SwitchNames \union
           {"updateRelayer", "setFeeAmount", "setDepositLimits"}
  PROVE  Accepts(signer, command) <=> Admits(signer, command.name, command.args)
<1> DEFINE ix == Arm(signer, command)
<1>1. command.name \in SwitchNames =>
        /\ ix.accounts = StateMetas(signer)
        /\ ix.method =
             CASE command.name = "publicPause"          -> "public_pause"
               [] command.name = "publicUnpause"        -> "public_unpause"
               [] command.name = "relayerPause"         -> "relayer_pause"
               [] command.name = "relayerUnpause"       -> "relayer_unpause"
               [] command.name = "setWhitelistActive"   -> "set_whitelist_active"
               [] command.name = "setWhitelistInactive" -> "set_whitelist_inactive"
  BY SwitchInstruction
<1>2. command.name = "updateRelayer" =>
        ix.accounts = StateMetas(signer) /\ ix.method = "update_relayer"
  BY RelayerInstruction
<1>3. command.name = "setFeeAmount" =>
        ix.accounts = StateMetas(signer) /\ ix.method = "set_fee_amount"
  BY FeeInstruction
<1>4. command.name = "setDepositLimits" =>
        ix.accounts = StateMetas(signer) /\ ix.method = "set_deposit_limits"
  BY LimitsInstruction
<1>5. Accepts(signer, command) <=> AcceptsInstruction(signer, ix)
  BY DEF Accepts
<1> HIDE DEF ix
<1>6. Fits(StateFields, ix.accounts, signer)
  BY <1>1, <1>2, <1>3, <1>4, StateFits
<1>7. CASE command.name \in {"publicPause", "publicUnpause"}
  <2>1. ix.method \in {"public_pause", "public_unpause"}
    BY <1>1, <1>7 DEF SwitchNames
  <2>2. AcceptsInstruction(signer, ix) <=> CanSetPublicState(signer)
    BY <1>6, <2>1 DEF AcceptsInstruction, AdminMethods
  <2> QED
    BY <1>5, <1>7, <2>2 DEF Admits
<1>8. CASE command.name \notin {"publicPause", "publicUnpause"}
  <2>1. ix.method \in AdminMethods
    BY <1>1, <1>2, <1>3, <1>4, <1>8 DEF SwitchNames, AdminMethods
  <2>2. AcceptsInstruction(signer, ix) <=> ByAdmin(signer)
    BY <1>6, <2>1 DEF AcceptsInstruction, AdminMethods
  <2> QED
    BY <1>5, <1>8, <2>2 DEF Admits, SwitchNames
<1> QED
  BY <1>7, <1>8

LEMMA MintAcceptance ==
  ASSUME NEW signer, NEW command, WellFormed(command),
         command.name \in {"initializeContract", "updateWhitelistedMint"}
  PROVE  Accepts(signer, command) <=> Admits(signer, command.name, command.args)
<1> DEFINE ix == Arm(signer, command)
           arg == command.args
<1>1. command.name = "initializeContract" =>
        ix.accounts = MintMetas(signer, arg[6]) /\ ix.method = "initialize_contract"
  BY InitializeInstruction
<1>2. command.name = "updateWhitelistedMint" =>
        /\ ix.accounts = MintMetas(signer, arg[1])
        /\ ix.method = "update_whitelisted_mint"
  BY MintInstruction
<1>3. Accepts(signer, command) <=> AcceptsInstruction(signer, ix)
  BY DEF Accepts
<1> HIDE DEF ix
<1>4. MintAccountsFit(signer, ix.accounts)
  BY <1>1, <1>2, MintFits, MintBound DEF MintAccountsFit
<1>5. AcceptsInstruction(signer, ix) <=>
        IF command.name = "initializeContract"
        THEN CanInitializeContract(signer) ELSE ByAdmin(signer)
  BY <1>1, <1>2, <1>4 DEF AcceptsInstruction, AdminMethods
<1> QED
  BY <1>3, <1>5 DEF Admits

LEMMA EntryAcceptance ==
  ASSUME NEW signer, NEW command, WellFormed(command),
         command.name \in {"addToWhitelist", "removeFromWhitelist"}
  PROVE  Accepts(signer, command) <=> Admits(signer, command.name, command.args)
<1> DEFINE ix == Arm(signer, command)
           arg == command.args
<1>1. /\ ix.accounts = EntryMetas(signer, arg[1])
      /\ ix.method = IF command.name = "addToWhitelist"
                     THEN "add_to_whitelist" ELSE "remove_from_whitelist"
      /\ ix.data.address = arg[1]
  BY EntryInstruction
<1>2. Accepts(signer, command) <=> AcceptsInstruction(signer, ix)
  BY DEF Accepts
<1> HIDE DEF ix
<1>3. EntryAccountsFit(signer, ix)
  BY <1>1, EntryFits, EntryBound DEF EntryAccountsFit
<1>4. AcceptsInstruction(signer, ix) <=>
        IF command.name = "addToWhitelist"
        THEN CanAddToWhitelist(signer, arg[1])
        ELSE CanRemoveFromWhitelist(signer, arg[1])
  BY <1>1, <1>3 DEF AcceptsInstruction, AdminMethods
<1> QED
  BY <1>2, <1>4 DEF Admits

LEMMA AdditionAcceptance ==
  ASSUME NEW signer, NEW command, WellFormed(command),
         command.name = "addLiquidity"
  PROVE  Accepts(signer, command) <=> Admits(signer, command.name, command.args)
<1> DEFINE ix == Arm(signer, command)
           arg == command.args
           mint == arg[2]
<1>1. /\ ix.method = "add_liquidity"
      /\ ix.data.amount = arg[1]
      /\ ix.accounts = LiquidityMetas(signer, mint)
  BY LiquidityInstruction
<1>2. Accepts(signer, command) <=> AcceptsInstruction(signer, ix)
  BY DEF Accepts
<1> HIDE DEF ix
<1>3. /\ Bound(AddLiquidityFields, ix.accounts, "vault") = Ata(BridgePda, mint)
      /\ Bound(AddLiquidityFields, ix.accounts, "mint_of_token_sent") = mint
      /\ Bound(AddLiquidityFields, ix.accounts, "authority_token_account") =
           Ata(signer, mint)
  BY <1>1, LiquidityBound
<1>4. LiquidityFits(AddLiquidityFields, signer, ix.accounts) <=>
        /\ Initialized
        /\ mint = bridge_state.mint_of_token_whitelisted
        /\ Ata(BridgePda, mint) = bridge_state.vault
  BY <1>1, <1>3, AddLiquidityFits DEF LiquidityFits
<1>5. AcceptsInstruction(signer, ix) <=>
        /\ LiquidityFits(AddLiquidityFields, signer, ix.accounts)
        /\ CanAddLiquidity(signer, Ata(signer, mint), arg[1])
  BY <1>1, <1>3 DEF AcceptsInstruction, AdminMethods
<1>6. CanAddLiquidity(signer, Ata(signer, mint), arg[1]) =>
        bridge_state.vault = Ata(BridgePda, bridge_state.mint_of_token_whitelisted)
  BY DEF CanAddLiquidity, VaultServes
<1> QED
  BY <1>2, <1>4, <1>5, <1>6 DEF Admits

\* The program accepts a command of the tool exactly where it admits the operation
\* typed: for every command but removeLiquidity, in every state, for every
\* signer and all arguments, no layer of the tool or of the program's structs
\* refuses what the operation's rules admit, or lets through what they refuse.
THEOREM AcceptedAsAdmitted ==
  ASSUME NEW signer, NEW command, WellFormed(command),
         command.name # "removeLiquidity"
  PROVE  Accepts(signer, command) <=> Admits(signer, command.name, command.args)
  BY CommandNames, StateAcceptance, MintAcceptance, EntryAcceptance,
     AdditionAcceptance

\* What the program executes it accepts: a transaction that can be applied is
\* never recorded as refused.
LEMMA ExecutedIsAccepted ==
  ASSUME NEW signer, NEW command, Execute(signer, command)
  PROVE  Accepts(signer, command)
<1> DEFINE ix == Arm(signer, command)
<1>1. Dispatch(signer, ix)
  BY DEF Execute
<1>2. AcceptsInstruction(signer, ix) => Accepts(signer, command)
  BY DEF Accepts
<1> HIDE DEF ix
<1>3. CASE OnRelayer(signer, ix) \/ OnState(signer, ix)
  BY <1>2, <1>3 DEF OnRelayer, OnState, AcceptsInstruction, AdminMethods, UpdateRelayer,
     SetDepositLimits, SetFeeAmount, SetRelayerState, SetPublicState,
     SetWhitelistState
<1>4. CASE OnInitialize(signer, ix) \/ OnMint(signer, ix)
  BY <1>2, <1>4 DEF OnInitialize, OnMint, AcceptsInstruction, InitializeContract,
     UpdateWhitelistedMint
<1>5. CASE OnLiquidity(signer, ix)
  BY <1>2, <1>5 DEF OnLiquidity, AcceptsInstruction, AddLiquidity, RemoveLiquidity
<1>6. CASE OnWhitelist(signer, ix)
  BY <1>2, <1>6 DEF OnWhitelist, AcceptsInstruction, AddToWhitelist,
     RemoveFromWhitelist
<1> QED
  BY <1>1, <1>3, <1>4, <1>5, <1>6 DEF Dispatch

\* RemoveLiquidity declares mint_of_token_sent `mut'; the tool lists the mint
\* read-only.  No removal by the tool is ever accepted, in any state and by any
\* signer, unless the mint's address is also that of the signer, of bridge_state
\* or of one of the two token accounts.
THEOREM RemovalRefused ==
  ASSUME NEW signer, NEW command, WellFormed(command),
         command.name = "removeLiquidity",
         command.args[2] \notin
           {signer, BridgePda, Ata(BridgePda, command.args[2]),
            Ata(signer, command.args[2])}
  PROVE  ~Accepts(signer, command) /\ ~Execute(signer, command)
<1> DEFINE ix == Arm(signer, command)
           mint == command.args[2]
           metas == LiquidityMetas(signer, mint)
<1>1. ix.method = "remove_liquidity" /\ ix.accounts = metas
  BY LiquidityInstruction
<1>2. Accepts(signer, command) => LiquidityFits(RemoveLiquidityFields, signer, metas)
  <2>1. Accepts(signer, command) <=> AcceptsInstruction(signer, ix)
    BY DEF Accepts
  <2> HIDE DEF ix, metas
  <2> QED
    BY <1>1, <2>1 DEF AcceptsInstruction, AdminMethods
<1>3. /\ 4 \in DOMAIN RemoveLiquidityFields
      /\ RemoveLiquidityFields[4].mut
  BY DEF RemoveLiquidityFields, ProgramFields, Mutable
<1>4. metas[4].key = mint
  BY DEF LiquidityMetas, Programs, NewReadonly
<1>5. ~Writable(metas, signer, mint)
  <2> SUFFICES ASSUME NEW i \in DOMAIN metas, metas[i] = New(mint)
               PROVE  FALSE
    BY DEF Writable
  <2>1. /\ metas[i].writable
        /\ metas[i].key = mint
    BY DEF New
  <2>2. i \in {1, 2, 3, 4, 5, 6, 7, 8}
    <3>1. DOMAIN metas = 1..8 /\ 1..8 = {1, 2, 3, 4, 5, 6, 7, 8}
      BY DEF LiquidityMetas, Programs
    <3> QED
      BY <3>1
  <2>3. /\ \A j \in {3, 4, 6, 7, 8} : metas[j].writable = FALSE
        /\ metas[1].key = BridgePda
        /\ metas[2].key = Ata(BridgePda, mint)
        /\ metas[5].key = Ata(signer, mint)
    BY DEF LiquidityMetas, Programs, New, NewReadonly
  <2> HIDE DEF metas
  <2> QED
    BY <2>1, <2>2, <2>3
<1>6. Fits(RemoveLiquidityFields, metas, signer) => Writable(metas, signer, mint)
  <2> HIDE DEF metas
  <2> QED
    BY <1>3, <1>4 DEF Fits
<1> QED
  BY <1>2, <1>5, <1>6, ExecutedIsAccepted DEF LiquidityFits

=============================================================================
