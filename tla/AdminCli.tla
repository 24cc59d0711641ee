------------------------------ MODULE AdminCli -----------------------------
(***************************************************************************)
(* The administrator's command line tool and its transactions, composed    *)
(* with the bridge program.                                                *)
(*                                                                         *)
(* Every process_ function of admin_endpoints.rs goes the same way: build  *)
(* the instruction, await the latest blockhash, sign, await the acceptance *)
(* of the transaction by an RPC node (with skip_preflight: the node does   *)
(* not ask what the program would say), return the signature; main prints  *)
(* it or exits.  Nothing waits for the transaction to land.                *)
(*                                                                         *)
(* The cluster (external) may lose a transaction, delay it, take the       *)
(* transactions in any order, or never hear of one; it takes none twice,   *)
(* and none whose blockhash is older than Lifetime blocks.  A transaction  *)
(* is its signer, command and blockhash: two runs that sign the same three *)
(* have signed the same transaction.                                       *)
(***************************************************************************)
EXTENDS AdminCommands

CONSTANTS
  Runs,             \* executions of the tool
  Signers,          \* keys the tool is run with (--keypair)
  Commands,         \* bound: the command lines
  Lifetime,         \* blocks after which a blockhash expires (150)
  ConfirmationLag,  \* how far the latest confirmed block may be behind
  MaxHeight         \* bound: no blockhash is handed out above this height

ASSUME CommandsAssumption ==
  /\ Signers \subseteq Keys
  /\ \A c \in Commands :
       /\ c.name \in DOMAIN Arguments
       /\ DOMAIN c.args = DOMAIN Arguments[c.name]

\* Bound: the arguments of the command lines are those BridgeProgram chooses from.
ASSUME ArgumentsAssumption ==
  \A c \in Commands :
    /\ c.name = "initializeContract" =>
         /\ c.args[1] \in RelayerChoices
         /\ c.args[2] \in CollectorChoices
         /\ c.args[3] \in FeeChoices
         /\ <<c.args[4], c.args[5]>> \in LimitChoices
         /\ c.args[6] \in Mints
    /\ c.name = "updateRelayer" => c.args[1] \in RelayerChoices
    /\ c.name = "updateWhitelistedMint" => c.args[1] \in Mints
    /\ c.name \in {"addLiquidity", "removeLiquidity"} => c.args[1] \in Amounts
    /\ c.name = "setDepositLimits" => <<c.args[1], c.args[2]>> \in LimitChoices
    /\ c.name = "setFeeAmount" => c.args[1] \in FeeChoices
    /\ c.name \in {"addToWhitelist", "removeFromWhitelist"} =>
         c.args[1] \in WhitelistChoices

ASSUME ClusterAssumption ==
  /\ IsFiniteSet(Runs)
  /\ Lifetime \in Nat /\ ConfirmationLag \in Nat /\ MaxHeight \in Nat

VARIABLES
  height,    \* of the chain
  runs,      \* where each run is, and what it was asked and has signed
  network,   \* transactions some node or leader still holds
  applied,   \* transactions that landed and that the program accepted
  refused    \* transactions that landed and failed

tool == <<height, runs, network, applied, refused>>
adminVars == <<vars, tool>>

\* A transaction is [signer, command, blockhash].
Transaction(r) ==
  [signer |-> runs[r].signer, command |-> runs[r].command,
   blockhash |-> runs[r].blockhash]

Landed == applied \union refused

Expired(blockhash) == height > blockhash + Lifetime

-----------------------------------------------------------------------------
(* A run of the tool                                                       *)

Idle == [pc |-> "idle"]

Invoke(r, signer, command) ==
  /\ runs[r] = Idle
  /\ runs' = [runs EXCEPT ![r] =
       [pc |-> "started", signer |-> signer, command |-> command, blockhash |-> 0]]
  /\ UNCHANGED <<height, network, applied, refused>>

Goto(r, pc) == runs' = [runs EXCEPT ![r].pc = pc]

get_latest_blockhash(r) ==
  /\ runs[r].pc = "started"
  /\ height <= MaxHeight
  /\ \E h \in 1..height :
       /\ height - h <= ConfirmationLag
       /\ runs' = [runs EXCEPT ![r].pc = "fetched", ![r].blockhash = h]
  /\ UNCHANGED <<height, network, applied, refused>>

try_sign(r) ==
  /\ runs[r].pc = "fetched"
  /\ Goto(r, "signed")
  /\ UNCHANGED <<height, network, applied, refused>>

\* The node answers with the signature, which main prints.
send_transaction(r) ==
  /\ runs[r].pc = "signed"
  /\ Goto(r, "printed")
  /\ network' = network \union {Transaction(r)}
  /\ UNCHANGED <<height, applied, refused>>

FailBeforeSend_Waits(r) ==
  /\ runs[r].pc \in {"started", "fetched"}
  /\ UNCHANGED tool

\* No blockhash, or no signature (the wallet refuses, the user interrupts).
FailBeforeSend(r) ==
  /\ runs[r].pc \in {"started", "fetched"}
  /\ Goto(r, "failed")
  /\ UNCHANGED <<height, network, applied, refused>>

\* The answer to the send is an error or a timeout: the node may have passed
\* the transaction on all the same.  main exits.
FailInSend_Retry(r) ==
  /\ runs[r].pc = "signed"
  /\ Goto(r, "started")
  /\ network' \in {network, network \union {Transaction(r)}}
  /\ UNCHANGED <<height, applied, refused>>

FailInSend(r) ==
  /\ runs[r].pc = "signed"
  /\ Goto(r, "unsure")
  /\ network' \in {network, network \union {Transaction(r)}}
  /\ UNCHANGED <<height, applied, refused>>

Proceed(r) ==
  \/ get_latest_blockhash(r)
  \/ try_sign(r)
  \/ send_transaction(r)
  \/ FailBeforeSend(r)
  \/ FailInSend(r)

-----------------------------------------------------------------------------
(* The cluster                                                             *)

NextBlock ==
  /\ height <= MaxHeight + Lifetime
  /\ height' = height + 1
  /\ UNCHANGED <<runs, network, applied, refused>>

Lose(tx) ==
  /\ network' = network \ {tx}
  /\ UNCHANGED <<height, runs, applied, refused>>

CanLand(tx) ==
  /\ tx \in network
  /\ tx \notin Landed
  /\ ~Expired(tx.blockhash)

LandApplied(tx) ==
  /\ CanLand(tx)
  /\ Execute(tx.signer, tx.command)
  /\ applied' = applied \union {tx}
  /\ UNCHANGED <<height, runs, network, refused>>

Rejects(tx) == ~Accepts(tx.signer, tx.command)

\* A transaction that fails is recorded too: it will not be taken again.
LandRefused(tx) ==
  /\ CanLand(tx)
  /\ Rejects(tx)
  /\ refused' = refused \union {tx}
  /\ UNCHANGED <<vars, height, runs, network, applied>>

-----------------------------------------------------------------------------
(* Other clients: of the relayer, the users, and the administrator         *)

\* Assumed of the administrator: what the tool has a command for, no other
\* client of the administrator calls.  It has none for update_fee_collector, nor
\* for the two directions of the bridge, nor for the token program.
Elsewhere ==
  \/ \E authority \in Keys \ {Admin} :
       Addresses(authority) \/ Settings(authority) \/ Liquidity(authority)
  \/ \E key \in CollectorChoices : UpdateFeeCollector(Admin, key)
  \/ \E authority \in Keys : Bridging(authority) \/ TokenTransfers(authority)
  \/ \E account \in TokenAccounts :
       \/ OpenAccount(account)
       \/ \E authority \in Keys : CloseAccount(authority, account)

AdminInit ==
  /\ Init
  /\ height = 1
  /\ runs = [r \in Runs |-> Idle]
  /\ network = {}
  /\ applied = {}
  /\ refused = {}

ToolStep ==
  \E r \in Runs :
    \/ Proceed(r)
    \/ \E signer \in Signers, command \in Commands : Invoke(r, signer, command)

ClusterStep == NextBlock \/ \E tx \in network : Lose(tx)

AdminNext ==
  \/ (ToolStep \/ ClusterStep) /\ UNCHANGED vars
  \/ \E tx \in network : LandApplied(tx) \/ LandRefused(tx)
  \/ Elsewhere /\ UNCHANGED tool

AdminSpec == AdminInit /\ [][AdminNext]_adminVars

\* The calls a run awaits return, with an answer or an error; the chain goes
\* on producing blocks.  Nobody has to run the tool, and no transaction has to
\* land.
FairSpec ==
  /\ AdminSpec
  /\ \A r \in Runs : WF_adminVars(Proceed(r) /\ UNCHANGED vars)
  /\ WF_adminVars(NextBlock /\ UNCHANGED vars)

-----------------------------------------------------------------------------
(* The fate of a run                                                       *)

Signed(r) == runs[r].pc \in {"signed", "printed", "unsure"}

fate ==
  [r \in Runs |->
     IF runs[r].pc = "idle" THEN "unused"
     ELSE IF runs[r].pc = "failed" THEN "void"
     ELSE IF Signed(r) /\ Transaction(r) \in applied THEN "applied"
     ELSE IF Signed(r) /\ Transaction(r) \in refused THEN "refused"
     ELSE IF Signed(r) /\ Expired(runs[r].blockhash) THEN "void"
     ELSE "open"]

Log == INSTANCE CommandLog WITH effects <- Cardinality(applied)

-----------------------------------------------------------------------------
(* Properties                                                              *)

\* Each run of the tool takes effect at most once and has one final fate: when
\* the send fails although the transaction goes through, when two runs sign
\* the same blockhash, when the blockhash expires before the signature or the
\* landing (the process_ functions, which sign once and never retry).
ImplementsCommandLog == Log!Spec

Adds(command) ==
  \/ /\ command.name = "addLiquidity"
     /\ Argument(command, "amount") = Deposit
  \/ command.name = "updateWhitelistedMint"

\* While the program takes no deposits of the public, the ledger grows by what
\* one open run of addLiquidity typed, and that run turns from open to applied;
\* else update_whitelisted_mint counted the vault again.  A run seen to have
\* failed or expired, or applied before, adds nothing afterwards, so the operator
\* who waits for it and runs the command again does not add twice.
PausedLedgerGrowsByRun ==
  [][ /\ Initialized
      /\ bridge_state.public_state = Inactive
      /\ Deposit > 0
      => \E r \in Runs :
           fate[r] = "open" /\ fate'[r] = "applied" /\ Adds(runs[r].command) ]_adminVars

\* A command that takes effect is the operation its name says, on the arguments
\* in the order they are typed: clap's positions, main's arms, the instruction
\* data and the order of the account metas agree with the program's structs.
CommandsDoAsTyped ==
  [][\A tx \in applied' \ applied :
       Typed(tx.signer, tx.command.name, tx.command.args)]_adminVars

\* What the program would accept from a client that passes the accounts it asks
\* for, it accepts from the tool.
AcceptedAsTyped(names) ==
  \A tx \in network :
    /\ CanLand(tx)
    /\ tx.command.name \in names
    /\ Admits(tx.signer, tx.command.name, tx.command.args)
    => Accepts(tx.signer, tx.command)

\* The accounts the tool lists satisfy the program, for every command but
\* removeLiquidity (the vec! of metas in each process_ function against the
\* `mut', address and signer constraints of the program's Accounts structs).
CommandsAccepted == AcceptedAsTyped(DOMAIN Arguments \ {"removeLiquidity"})

Configured(state) ==
  [state EXCEPT !.vault_amount = 0, !.public_state = Inactive,
                !.fee_collector = BridgePda]

Reconfigured ==
  \/ whitelist' # whitelist
  \/ /\ bridge_state' # bridge_state
     /\ Initialized => Configured(bridge_state') # Configured(bridge_state)

LiveCommand ==
  \E r \in Runs :
    /\ Signed(r)
    /\ runs[r].signer = Admin
    /\ Transaction(r) \notin Landed
    /\ ~Expired(runs[r].blockhash)

\* Once every command the administrator ever signed has landed or expired, the
\* configuration is final until the tool is run again: no pause of the relayer is
\* undone, no relayer, mint, limit, fee or whitelist entry changes, whatever
\* order the transactions landed in and whatever the relayer and the users do.
\* (Left out are the public state, which the relayer may change, and the fee
\* collector, which no command changes: Elsewhere says who calls what.)
SettledConfigurationStays == [][Reconfigured => LiveCommand]_adminVars

\* The relayer may undo a public pause at any time, and the administrator can only
\* end that by update_relayer: once the recorded relayer is the administrator's
\* own key or one nobody signs for, the public state changes only while a
\* transaction of the administrator can still land, transactions the old relayer
\* signed before it was replaced included (contract_states.rs, PublicState).
SettledPublicStateStays ==
  [][ /\ Initialized
      /\ bridge_state'.public_state # bridge_state.public_state
      => LiveCommand \/ bridge_state.relayer_pubkey \in Keys \ {Admin} ]_adminVars

\* A run of the tool ends, and what it sent lands or can no longer land.
RunsSettle ==
  \A r \in Runs :
    runs[r].pc # "idle" ~>
      /\ runs[r].pc \in {"printed", "failed", "unsure"}
      /\ fate[r] \in {"applied", "refused", "void"}

-----------------------------------------------------------------------------
(* What the repository says of the tool                                    *)

\* "removeLiquidity   Send a remove liquidity transaction" (README.md:259), and
\* the administrator can remove liquidity (README.md:20): the program accepts
\* the transaction of the tool when it would accept the operation.
RemovalsAccepted == AcceptedAsTyped({"removeLiquidity"})

=============================================================================
