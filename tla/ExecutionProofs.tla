-------------------------- MODULE ExecutionProofs --------------------------
(***************************************************************************)
(* A call executed stage by stage implements the step BridgeProgram makes  *)
(* of it.                                                                  *)
(*                                                                         *)
(* The transactions of others change the accounts a call has not locked,   *)
(* so its working copy is not the state with some changes.  It is a state  *)
(* that agrees with the real one on the locked accounts, with some changes:*)
(* the invariant says there are balances t and open accounts o, the same   *)
(* as the real ones on the locks, from which the copy was made.            *)
(***************************************************************************)
EXTENDS Execution, BridgeProgramProofs, TLAPS

Deposits == {"add_liquidity", "send_to_liquidity"}

PaysFeeOf(call) == call.method = "send_to_liquidity" /\ HasFee

Fees(call, t) ==
  IF PaysFeeOf(call)
  THEN Transfer(t, call.fee_source, FeeAta, bridge_state.fee_amount)
  ELSE t

CountOf(call) ==
  IF call.method \in Deposits
  THEN bridge_state.vault_amount + call.amount
  ELSE bridge_state.vault_amount - call.amount

CreatedOf(call) ==
  IF call.method = "send_to_liquidity" THEN Created(call.provided) ELSE {}

\* The working copy at a stage.
Copy(stage, call, t, o) ==
  [stage |-> stage,
   call |-> call,
   bridge_state |-> IF stage \in {"move", "exit"}
                    THEN [bridge_state EXCEPT !.vault_amount = CountOf(call)]
                    ELSE bridge_state,
   tokens |-> IF stage \in {"accounts", "entry", "fee"} THEN t
              ELSE IF stage \in {"count", "move"} THEN Fees(call, t)
              ELSE Transfer(Fees(call, t), From(call), To(call), call.amount),
   opened |-> IF stage = "accounts" THEN o ELSE o \union CreatedOf(call)]

-----------------------------------------------------------------------------
(* What the stages passed have checked                                     *)

Holds(account, owner, o) ==
  /\ account \in o
  /\ account.owner = owner
  /\ account.mint = bridge_state.mint_of_token_whitelisted

FeeSourceHolds(call, t, o) ==
  /\ call.fee_source \in o
  /\ call.fee_source.owner = call.authority
  /\ call.fee_source.mint = NativeMint
  /\ bridge_state.fee_amount <= t[call.fee_source]

AccountsHold(call, t, o) ==
  /\ Initialized
  /\ bridge_state.vault = Vault(call)
  /\ bridge_state.mint_of_token_whitelisted = call.mint
  /\ call.method \in {"add_liquidity", "remove_liquidity"} =>
       call.authority = Admin /\ Holds(call.account, call.authority, o)
  /\ call.method = "send_from_liquidity" =>
       /\ call.authority = bridge_state.relayer_pubkey
       /\ Holds(call.account, call.account.owner, o)
  /\ call.method = "send_to_liquidity" =>
       /\ Holds(call.account, call.authority, o)
       /\ call.amount <= t[call.account]
       /\ "authority_fee_token_account" \in call.provided => FeeSourceHolds(call, t, o)
       /\ "fee_collector_ata" \in call.provided =>
            /\ call.fee_collector = bridge_state.fee_collector
            /\ call.fee_collector \in Keys

EntryHolds(call) ==
  /\ call.method = "send_from_liquidity" => RelayerActive
  /\ call.method = "send_to_liquidity" =>
       /\ DepositAccepted(call.authority, call.amount)
       /\ HasFee => call.provided = FeeAccounts

FeeHolds(call, t) ==
  PaysFeeOf(call) => CanTransfer(t, call.fee_source, FeeAta, bridge_state.fee_amount)

MoveHolds(call, t) == CanTransfer(Fees(call, t), From(call), To(call), call.amount)

Checked(stage, call, t, o) ==
  /\ stage # "accounts" => AccountsHold(call, t, o)
  /\ stage \in {"fee", "count", "move", "exit"} => EntryHolds(call)
  /\ stage \in {"count", "move", "exit"} => FeeHolds(call, t)
  /\ stage \in {"move", "exit"} => CountOf(call) \in U64
  /\ stage = "exit" => MoveHolds(call, t)

StageNames == {"accounts", "entry", "fee", "count", "move", "exit"}

Agree(call, t, o) ==
  \A a \in Locks(call) : t[a] = tokens[a] /\ (a \in o <=> a \in opened)

InProgress(stage, call, t, o) ==
  /\ exec = Copy(stage, call, t, o)
  /\ Checked(stage, call, t, o)
  /\ Agree(call, t, o)

ExecInv ==
  \/ exec = Idle
  \/ \E stage \in StageNames, call \in Calls, t \in [TokenAccounts -> U64],
        o \in SUBSET TokenAccounts :
       InProgress(stage, call, t, o)

-----------------------------------------------------------------------------
(* Calls and their accounts                                                *)

LEMMA CallType ==
  ASSUME NEW call \in Calls
  PROVE  /\ call.method \in {"add_liquidity", "remove_liquidity",
                             "send_from_liquidity", "send_to_liquidity"}
         /\ call.authority \in Keys
         /\ call.account \in TokenAccounts
         /\ call.amount \in Amounts
         /\ call.amount \in U64
         /\ call.method = "send_to_liquidity" =>
              /\ call.provided \in SUBSET FeeAccounts
              /\ call.fee_source \in TokenAccounts
              /\ call.fee_collector \in CollectorChoices
         /\ call.method # "send_to_liquidity" => call.provided = {}
         /\ call.mint \in Mints
<1>1. call \in Call
  BY CallsAssumption
<1> QED
  BY <1>1, AmountsAssumption DEF Call

LEMMA LocksOf ==
  ASSUME NEW call \in Calls
  PROVE  /\ Vault(call) \in Locks(call)
         /\ call.account \in Locks(call)
         /\ From(call) \in Locks(call) /\ To(call) \in Locks(call)
         /\ "authority_fee_token_account" \in call.provided =>
              call.fee_source \in Locks(call)
         /\ "fee_collector_ata" \in call.provided =>
              Ata(call.fee_collector, NativeMint) \in Locks(call)
  BY DEF Locks, FeeAccountsOf, From, To

LEMMA LocksTyped ==
  ASSUME NEW call \in Calls
  PROVE  Locks(call) \subseteq TokenAccounts
<1>1. Vault(call) \in TokenAccounts
  BY CallType, AccountsAssumption DEF Vault
<1>2. "fee_collector_ata" \in call.provided =>
        Ata(call.fee_collector, NativeMint) \in TokenAccounts
  <2> SUFFICES ASSUME "fee_collector_ata" \in call.provided
               PROVE  Ata(call.fee_collector, NativeMint) \in TokenAccounts
    OBVIOUS
  <2>1. call.fee_collector \in CollectorChoices
    BY CallType
  <2>2. call.fee_collector \in Keys \/ call.fee_collector = BridgePda
    BY <2>1, KeysAssumption DEF Pubkeys
  <2> QED
    BY <2>1, <2>2, AccountsAssumption, MintsAssumption
<1>3. "authority_fee_token_account" \in call.provided =>
        call.fee_source \in TokenAccounts
  BY CallType
<1> QED
  BY <1>1, <1>2, <1>3, CallType DEF Locks, FeeAccountsOf

\* The copy is not mistaken for the idle state, and has the fields it is made of.
LEMMA CopyParts ==
  ASSUME NEW stage, NEW call, NEW t, NEW o, exec = Copy(stage, call, t, o)
  PROVE  /\ exec.stage = stage
         /\ exec.call = call
         /\ exec.bridge_state = Copy(stage, call, t, o).bridge_state
         /\ exec.tokens = Copy(stage, call, t, o).tokens
         /\ exec.opened = Copy(stage, call, t, o).opened
  BY DEF Copy

-----------------------------------------------------------------------------
(* The stages keep the invariant                                           *)

LEMMA SameCopy ==
  ASSUME UNCHANGED <<bridge_state, whitelist>>,
         NEW stage, NEW call, NEW t, NEW o
  PROVE  /\ Copy(stage, call, t, o)' = Copy(stage, call, t, o)
         /\ Checked(stage, call, t, o)' <=> Checked(stage, call, t, o)
<1>1. /\ PaysFeeOf(call)' <=> PaysFeeOf(call)
      /\ HasFee' <=> HasFee
      /\ FeeAta' = FeeAta
  BY DEF PaysFeeOf, HasFee, FeeAta
<1>2. /\ Fees(call, t)' = Fees(call, t)
      /\ CountOf(call)' = CountOf(call)
      /\ CreatedOf(call)' = CreatedOf(call)
  BY <1>1 DEF Fees, CountOf, CreatedOf, Created
<1>3. Copy(stage, call, t, o)' = Copy(stage, call, t, o)
  BY <1>2 DEF Copy
<1>4. AccountsHold(call, t, o)' <=> AccountsHold(call, t, o)
  BY DEF AccountsHold, Holds, FeeSourceHolds, Initialized
<1>5. EntryHolds(call)' <=> EntryHolds(call)
  BY <1>1 DEF EntryHolds, RelayerActive, DepositAccepted
<1>6. /\ FeeHolds(call, t)' <=> FeeHolds(call, t)
      /\ MoveHolds(call, t)' <=> MoveHolds(call, t)
  BY <1>1, <1>2 DEF FeeHolds, MoveHolds
<1> QED
  BY <1>2, <1>3, <1>4, <1>5, <1>6 DEF Checked

\* A stage that is passed makes the copy of the next one.
LEMMA StagePassed ==
  ASSUME NEW call \in Calls, NEW t \in [TokenAccounts -> U64],
         NEW o \in SUBSET TokenAccounts, NEW stage \in StageNames,
         Agree(call, t, o), UNCHANGED vars,
         exec' = Copy(stage, call, t, o), Checked(stage, call, t, o)
  PROVE  ExecInv'
<1>1. Agree(call, t, o)'
  BY DEF Agree, vars
<1>2. /\ Copy(stage, call, t, o)' = Copy(stage, call, t, o)
      /\ Checked(stage, call, t, o)'
  BY SameCopy DEF vars
<1>3. InProgress(stage, call, t, o)'
  BY <1>1, <1>2 DEF InProgress
<1> QED
  BY <1>3 DEF ExecInv

LEMMA BeginStep ==
  ASSUME TypeOK, NEW call \in Calls, Begin(call)
  PROVE  ExecInv'
<1>1. exec' = Copy("accounts", call, tokens, opened)
  BY DEF Begin, Copy
<1>2. /\ tokens \in [TokenAccounts -> U64] /\ opened \in SUBSET TokenAccounts
      /\ Agree(call, tokens, opened)
      /\ Checked("accounts", call, tokens, opened)
  BY DEF TypeOK, Agree, Checked
<1>3. \E t \in [TokenAccounts -> U64], o \in SUBSET TokenAccounts :
        /\ exec' = Copy("accounts", call, t, o)
        /\ Agree(call, t, o) /\ Checked("accounts", call, t, o)
  BY <1>1, <1>2
<1> QED
  BY <1>3, StagePassed DEF Begin, StageNames

\* What the working copy shows of bridge_state before the amount is counted.
LEMMA WorkFacts ==
  ASSUME exec.bridge_state = bridge_state
  PROVE  /\ Work!Initialized <=> Initialized
         /\ Work!HasFee <=> HasFee
         /\ Work!FeeAta = FeeAta
         /\ Work!RelayerActive <=> RelayerActive
         /\ \A authority, amount :
              Work!DepositAccepted(authority, amount) <=>
                DepositAccepted(authority, amount)
         /\ \A account, owner :
              Work!HeldBy(account, owner) <=> Holds(account, owner, exec.opened)
         /\ \A provided : Work!Created(provided) = Created(provided)
<1>1. /\ Work!Initialized <=> Initialized
      /\ Work!HasFee <=> HasFee
      /\ Work!FeeAta = FeeAta
      /\ Work!RelayerActive <=> RelayerActive
  BY DEF Work!Initialized, Work!HasFee, Work!FeeAta, Work!RelayerActive,
     Work!Ata, Work!Active, Initialized, HasFee, FeeAta, RelayerActive, Ata, Active
<1>2. \A authority, amount :
        Work!DepositAccepted(authority, amount) <=> DepositAccepted(authority, amount)
  BY DEF Work!DepositAccepted, Work!check_amount, Work!Active, DepositAccepted,
     check_amount, Active
<1>3. \A account, owner :
        Work!HeldBy(account, owner) <=> Holds(account, owner, exec.opened)
  BY DEF Work!HeldBy, Holds
<1>4. \A provided : Work!Created(provided) = Created(provided)
  BY <1>1 DEF Work!Created, Created
<1> QED
  BY <1>1, <1>2, <1>3, <1>4

LEMMA ReadStep ==
  ASSUME NEW call \in Calls, NEW t \in [TokenAccounts -> U64],
         NEW o \in SUBSET TokenAccounts, NEW stage \in StageNames,
         InProgress(stage, call, t, o), ReadAccounts
  PROVE  ExecInv'
<1>1. /\ stage = "accounts" /\ exec.call = call /\ exec.bridge_state = bridge_state
      /\ exec.tokens = t /\ exec.opened = o
  BY DEF InProgress, Copy, ReadAccounts, At
<1>2. CreatedFor(call) = CreatedOf(call)
  BY <1>1, WorkFacts DEF CreatedFor, CreatedOf
<1>3. exec' = Copy("entry", call, t, o)
  BY <1>1, <1>2 DEF ReadAccounts, InProgress, Copy
<1>4. AccountsHold(call, t, o)
  BY <1>1, WorkFacts, CallType DEF ReadAccounts, AccountsOk, AccountsHold, VaultOk,
     Vault, CollectorOk, EnoughInAccount, Work!FeeSourceOk, FeeSourceHolds
<1>5. Checked("entry", call, t, o)
  BY <1>4 DEF Checked
<1> QED
  BY <1>3, <1>5, StagePassed DEF InProgress, ReadAccounts, StageNames

LEMMA EntryStep ==
  ASSUME NEW call \in Calls, NEW t \in [TokenAccounts -> U64],
         NEW o \in SUBSET TokenAccounts, NEW stage \in StageNames,
         InProgress(stage, call, t, o), EnterHandler
  PROVE  ExecInv'
<1>1. stage = "entry" /\ exec.call = call /\ exec.bridge_state = bridge_state
  BY DEF InProgress, Copy, EnterHandler, At
<1>2. exec' = Copy("fee", call, t, o)
  BY <1>1 DEF EnterHandler, Go, InProgress, Copy
<1>3. EntryHolds(call)
  BY <1>1, WorkFacts, CallType DEF EnterHandler, EntryOk, EntryHolds
<1>4. Checked("fee", call, t, o)
  BY <1>1, <1>3 DEF Checked, InProgress
<1> QED
  BY <1>2, <1>4, StagePassed DEF InProgress, EnterHandler, Go, StageNames

LEMMA FeeStep ==
  ASSUME NEW call \in Calls, NEW t \in [TokenAccounts -> U64],
         NEW o \in SUBSET TokenAccounts, NEW stage \in StageNames,
         InProgress(stage, call, t, o), MoveFee
  PROVE  ExecInv'
<1>1. /\ stage = "fee" /\ exec.call = call /\ exec.bridge_state = bridge_state
      /\ exec.tokens = t
  BY DEF InProgress, Copy, MoveFee, At
<1>2. PaysFee(call) <=> PaysFeeOf(call)
  BY <1>1, WorkFacts DEF PaysFee, PaysFeeOf
<1>3. exec' = Copy("count", call, t, o)
  BY <1>1, <1>2, WorkFacts DEF MoveFee, InProgress, Copy, Fees
<1>4. FeeHolds(call, t)
  BY <1>1, <1>2, WorkFacts DEF MoveFee, FeeOk, FeeHolds
<1>5. Checked("count", call, t, o)
  BY <1>1, <1>4 DEF Checked, InProgress
<1> QED
  BY <1>3, <1>5, StagePassed DEF InProgress, MoveFee, StageNames

LEMMA CountStep ==
  ASSUME NEW call \in Calls, NEW t \in [TokenAccounts -> U64],
         NEW o \in SUBSET TokenAccounts, NEW stage \in StageNames,
         InProgress(stage, call, t, o), CountAmount
  PROVE  ExecInv'
<1>1. stage = "count" /\ exec.call = call /\ exec.bridge_state = bridge_state
  BY DEF InProgress, Copy, CountAmount, At
<1>2. Counted(call) = CountOf(call)
  BY <1>1 DEF Counted, CountOf, Deposits
<1>3. exec' = Copy("move", call, t, o)
  BY <1>1, <1>2 DEF CountAmount, InProgress, Copy
<1>4. Checked("move", call, t, o)
  BY <1>1, <1>2 DEF Checked, InProgress, CountAmount
<1> QED
  BY <1>3, <1>4, StagePassed DEF InProgress, CountAmount, StageNames

LEMMA MoveStep ==
  ASSUME NEW call \in Calls, NEW t \in [TokenAccounts -> U64],
         NEW o \in SUBSET TokenAccounts, NEW stage \in StageNames,
         InProgress(stage, call, t, o), MoveTokens
  PROVE  ExecInv'
<1>1. stage = "move" /\ exec.call = call /\ exec.tokens = Fees(call, t)
  BY DEF InProgress, Copy, MoveTokens, At
<1>2. exec' = Copy("exit", call, t, o)
  BY <1>1 DEF MoveTokens, InProgress, Copy
<1>3. Checked("exit", call, t, o)
  BY <1>1 DEF Checked, InProgress, MoveTokens, MoveOk, MoveHolds
<1> QED
  BY <1>2, <1>3, StagePassed DEF InProgress, MoveTokens, StageNames

-----------------------------------------------------------------------------
(* The commit is one step of the program                                   *)

Same(accounts, t, u) == \A a \in TokenAccounts \intersect accounts : t[a] = u[a]

\* A transfer between two of some accounts does the same to balances that agree
\* on these accounts, and nothing to the others.
LEMMA TransferAgrees ==
  ASSUME NEW L, NEW t \in [TokenAccounts -> U64], NEW u \in [TokenAccounts -> U64],
         NEW from \in TokenAccounts, NEW to \in TokenAccounts, NEW amount \in U64,
         from \in L, to \in L,
         Same(L, t, u), CanTransfer(t, from, to, amount)
  PROVE  /\ CanTransfer(u, from, to, amount)
         /\ Transfer(t, from, to, amount) \in [TokenAccounts -> U64]
         /\ Transfer(u, from, to, amount) \in [TokenAccounts -> U64]
         /\ Same(L, Transfer(t, from, to, amount), Transfer(u, from, to, amount))
         /\ Same(TokenAccounts \ L, Transfer(u, from, to, amount), u)
<1>1. CanTransfer(u, from, to, amount)
  BY DEF CanTransfer, Same
<1>2. /\ Transfer(t, from, to, amount) \in [TokenAccounts -> U64]
      /\ Transfer(u, from, to, amount) \in [TokenAccounts -> U64]
  BY <1>1, TransferType
<1>3. ASSUME NEW a \in TokenAccounts
      PROVE  /\ Transfer(t, from, to, amount)[a] =
                  IF from = to THEN t[a]
                  ELSE IF a = from THEN t[a] - amount
                  ELSE IF a = to THEN t[a] + amount ELSE t[a]
             /\ Transfer(u, from, to, amount)[a] =
                  IF from = to THEN u[a]
                  ELSE IF a = from THEN u[a] - amount
                  ELSE IF a = to THEN u[a] + amount ELSE u[a]
  BY TransferBalance
<1> QED
  BY <1>1, <1>2, <1>3 DEF Same

\* The accounts a call moves tokens between.
LEMMA MoveAccounts ==
  ASSUME TypeOK, NEW call \in Calls, NEW t, NEW o, AccountsHold(call, t, o)
  PROVE  /\ Vault(call) \in TokenAccounts
         /\ From(call) \in TokenAccounts /\ To(call) \in TokenAccounts
         /\ VaultServes
         /\ bridge_state.vault = Vault(call)
<1>1. bridge_state.vault = Vault(call) /\ VaultServes
  BY DEF AccountsHold, VaultServes, Vault
<1>2. Vault(call) \in TokenAccounts
  BY <1>1 DEF AccountsHold, TypeOK
<1> QED
  BY <1>1, <1>2, CallType DEF From, To

\* The collector's account, where a call pays a fee or creates it.
LEMMA CollectorAccount ==
  ASSUME NEW call \in Calls, NEW t, NEW o, AccountsHold(call, t, o),
         call.method = "send_to_liquidity", "fee_collector_ata" \in call.provided
  PROVE  FeeAta \in TokenAccounts /\ FeeAta \in Locks(call)
<1>1. /\ call.fee_collector = bridge_state.fee_collector
      /\ call.fee_collector \in CollectorChoices \intersect Keys
  BY CallType DEF AccountsHold
<1> QED
  BY <1>1, LocksOf, AccountsAssumption DEF FeeAta

\* The fee leaves copies that agree on the locks in agreement.
LEMMA FeesAgree ==
  ASSUME TypeOK, NEW call \in Calls, NEW t \in [TokenAccounts -> U64], NEW o,
         AccountsHold(call, t, o), EntryHolds(call), FeeHolds(call, t),
         Agree(call, t, o)
  PROVE  /\ PaysFeeOf(call) =>
              CanTransfer(tokens, call.fee_source, FeeAta, bridge_state.fee_amount)
         /\ Fees(call, t) \in [TokenAccounts -> U64]
         /\ Fees(call, tokens) \in [TokenAccounts -> U64]
         /\ Same(Locks(call), Fees(call, t), Fees(call, tokens))
         /\ Same(TokenAccounts \ Locks(call), Fees(call, tokens), tokens)
<1>1. tokens \in [TokenAccounts -> U64]
  BY DEF TypeOK
<1>2. CASE ~PaysFeeOf(call)
  BY <1>1, <1>2 DEF Fees, Agree, Same
<1>3. CASE PaysFeeOf(call)
  <2>1. /\ call.method = "send_to_liquidity" /\ call.provided = FeeAccounts
        /\ CanTransfer(t, call.fee_source, FeeAta, bridge_state.fee_amount)
    BY <1>3 DEF PaysFeeOf, EntryHolds, FeeHolds
  <2>2. /\ FeeAta \in TokenAccounts /\ FeeAta \in Locks(call)
        /\ call.fee_source \in TokenAccounts /\ call.fee_source \in Locks(call)
    BY <2>1, CollectorAccount, CallType, LocksOf DEF FeeAccounts
  <2>3. bridge_state.fee_amount \in U64
    BY DEF AccountsHold, TypeOK, Initialized, BridgeState
  <2>4. Same(Locks(call), t, tokens)
    BY DEF Agree, Same
  <2> DEFINE Paid(b) == Transfer(b, call.fee_source, FeeAta, bridge_state.fee_amount)
  <2>5. Fees(call, t) = Paid(t) /\ Fees(call, tokens) = Paid(tokens)
    BY <1>3 DEF Fees
  <2>6. /\ CanTransfer(tokens, call.fee_source, FeeAta, bridge_state.fee_amount)
        /\ Paid(t) \in [TokenAccounts -> U64]
        /\ Paid(tokens) \in [TokenAccounts -> U64]
        /\ Same(Locks(call), Paid(t), Paid(tokens))
        /\ Same(TokenAccounts \ Locks(call), Paid(tokens), tokens)
    BY <1>1, <2>1, <2>2, <2>3, <2>4, TransferAgrees
  <2> QED
    BY <2>5, <2>6
<1> QED
  BY <1>2, <1>3

\* The accounts written back hold what one step would leave in them, and so do
\* the others, which neither touches.
LEMMA CommitTokens ==
  ASSUME TypeOK, NEW call \in Calls, NEW t \in [TokenAccounts -> U64],
         NEW o \in SUBSET TokenAccounts, InProgress("exit", call, t, o), Commit
  PROVE  /\ CanTransfer(Fees(call, tokens), From(call), To(call), call.amount)
         /\ tokens' = Transfer(Fees(call, tokens), From(call), To(call), call.amount)
<1> DEFINE f == Fees(call, t)
           g == Fees(call, tokens)
           L == Locks(call)
           from == From(call)
           to == To(call)
           amount == call.amount
           m == Transfer(f, from, to, amount)
           n == Transfer(g, from, to, amount)
<1>1. /\ AccountsHold(call, t, o) /\ EntryHolds(call) /\ FeeHolds(call, t)
      /\ MoveHolds(call, t) /\ Agree(call, t, o)
  BY DEF InProgress, Checked
<1>2. /\ f \in [TokenAccounts -> U64] /\ g \in [TokenAccounts -> U64]
      /\ Same(L, f, g)
      /\ Same(TokenAccounts \ L, g, tokens)
  BY <1>1, FeesAgree
<1>3. /\ from \in TokenAccounts /\ to \in TokenAccounts
      /\ from \in L /\ to \in L /\ amount \in U64
  BY <1>1, MoveAccounts, LocksOf, CallType
<1>4. CanTransfer(f, from, to, amount)
  BY <1>1 DEF MoveHolds
<1>5. /\ CanTransfer(g, from, to, amount)
      /\ n \in [TokenAccounts -> U64]
      /\ Same(L, m, n)
      /\ Same(TokenAccounts \ L, n, g)
  <2> HIDE DEF f, g, L, from, to, amount
  <2> QED
    BY <1>2, <1>3, <1>4, TransferAgrees
<1>6. exec.tokens = m /\ exec.call = call
  BY DEF InProgress, Copy
<1>7. tokens' = [a \in TokenAccounts |-> IF a \in L THEN m[a] ELSE tokens[a]]
  BY <1>6 DEF Commit
<1>8. tokens' = n
  <2> HIDE DEF g, L, m, n
  <2> QED
    BY <1>2, <1>5, <1>7 DEF Same
<1> QED
  BY <1>5, <1>8

LEMMA CommitState ==
  ASSUME NEW call \in Calls, NEW t, NEW o, InProgress("exit", call, t, o), Commit
  PROVE  /\ bridge_state' = [bridge_state EXCEPT !.vault_amount = CountOf(call)]
         /\ opened' = opened \union CreatedOf(call)
<1>1. /\ exec.bridge_state = [bridge_state EXCEPT !.vault_amount = CountOf(call)]
      /\ exec.opened = o \union CreatedOf(call)
      /\ exec.call = call
  BY DEF InProgress, Copy
<1>2. CreatedOf(call) \subseteq Locks(call)
  BY CollectorAccount DEF CreatedOf, Created, InProgress, Checked
<1>3. opened' = (opened \ Locks(call))
                  \union ((o \union CreatedOf(call)) \intersect Locks(call))
  BY <1>1 DEF Commit
<1>4. \A a \in Locks(call) : a \in o <=> a \in opened
  BY DEF InProgress, Agree
<1> QED
  BY <1>1, <1>2, <1>3, <1>4 DEF Commit

\* The commit of a call is the program's step for it.
LEMMA CommitStep ==
  ASSUME TypeOK, NEW call \in Calls, NEW t \in [TokenAccounts -> U64],
         NEW o \in SUBSET TokenAccounts, InProgress("exit", call, t, o), Commit
  PROVE  Movement(call.authority)
<1> DEFINE method == call.method
           authority == call.authority
           account == call.account
           amount == call.amount
<1>1. /\ AccountsHold(call, t, o) /\ EntryHolds(call) /\ FeeHolds(call, t)
      /\ CountOf(call) \in U64 /\ Agree(call, t, o)
  BY DEF InProgress, Checked
<1>2. /\ Initialized /\ VaultServes /\ bridge_state.vault = Vault(call)
      /\ bridge_state.vault_amount \in U64
  BY <1>1, MoveAccounts DEF AccountsHold, TypeOK, Initialized, BridgeState
<1>3. /\ bridge_state' = [bridge_state EXCEPT !.vault_amount = CountOf(call)]
      /\ opened' = opened \union CreatedOf(call)
      /\ whitelist' = whitelist
  BY CommitState DEF Commit
<1>4. /\ CanTransfer(Fees(call, tokens), From(call), To(call), amount)
      /\ tokens' = Transfer(Fees(call, tokens), From(call), To(call), amount)
  BY CommitTokens
<1>5. /\ authority \in Keys /\ account \in TokenAccounts
      /\ amount \in Amounts /\ amount \in U64
      /\ account \in Locks(call) /\ account.owner \in Pubkeys
  BY CallType, LocksOf, AccountsAssumption
<1>6. /\ method \in Deposits =>
           CanCredit(amount) /\ bridge_state' = Credited(amount)
      /\ method \notin Deposits =>
           CanDebit(amount) /\ bridge_state' = Debited(amount)
  BY <1>1, <1>2, <1>3, <1>5, AmountsAssumption
     DEF CountOf, CanCredit, Credited, CanDebit, Debited, U64
<1>7. \A owner : Holds(account, owner, o) => HeldBy(account, owner)
  BY <1>1, <1>5 DEF Holds, HeldBy, Agree
<1>8. method # "send_to_liquidity" =>
        Fees(call, tokens) = tokens /\ opened' = opened
  BY <1>3 DEF Fees, PaysFeeOf, CreatedOf
<1>9. CASE method = "add_liquidity"
  <2>1. AddLiquidity(authority, account, amount)
    BY <1>1, <1>2, <1>3, <1>4, <1>6, <1>7, <1>8, <1>9
       DEF AddLiquidity, CanAddLiquidity, ByAdmin, AccountsHold, Deposits, From, To
  <2> QED
    BY <1>5, <2>1 DEF Movement, Liquidity
<1>10. CASE method = "remove_liquidity"
  <2>1. RemoveLiquidity(authority, account, amount)
    BY <1>1, <1>2, <1>3, <1>4, <1>6, <1>7, <1>8, <1>10
       DEF RemoveLiquidity, CanRemoveLiquidity, ByAdmin, AccountsHold, Deposits,
           From, To
  <2> QED
    BY <1>5, <2>1 DEF Movement, Liquidity
<1>11. CASE method = "send_from_liquidity"
  <2>1. SendFromLiquidity(authority, account.owner, account, amount)
    BY <1>1, <1>2, <1>3, <1>4, <1>6, <1>7, <1>8, <1>11
       DEF SendFromLiquidity, CanSendFromLiquidity, AccountsHold, EntryHolds,
           Deposits, From, To
  <2> QED
    BY <1>5, <2>1 DEF Movement, Bridging
<1>12. CASE method = "send_to_liquidity"
  <2>1. /\ Fees(call, tokens) = AfterFee(call.fee_source)
        /\ opened' = opened \union Created(call.provided)
        /\ HasFee <=> PaysFeeOf(call)
    BY <1>3, <1>12 DEF Fees, PaysFeeOf, AfterFee, CreatedOf
  <2>2. /\ HeldBy(account, authority)
        /\ amount <= tokens[account]
    BY <1>1, <1>5, <1>7, <1>12 DEF AccountsHold, Agree
  <2>3. "authority_fee_token_account" \in call.provided =>
          FeeSourceOk(authority, call.fee_source)
    BY <1>1, <1>12, LocksOf DEF AccountsHold, FeeSourceHolds, FeeSourceOk, Agree
  <2>4. /\ "fee_collector_ata" \in call.provided =>
             bridge_state.fee_collector \in Keys
        /\ DepositAccepted(authority, amount)
        /\ HasFee => call.provided = FeeAccounts
    BY <1>1, <1>12 DEF AccountsHold, EntryHolds
  <2>5. HasFee => CanTransfer(tokens, call.fee_source, FeeAta, bridge_state.fee_amount)
    BY <1>1, <2>1, FeesAgree
  <2>6. SendToLiquidity(authority, account, call.fee_source, call.provided, amount)
    BY <1>2, <1>3, <1>4, <1>6, <1>12, <2>1, <2>2, <2>3, <2>4, <2>5
       DEF SendToLiquidity, CanSendToLiquidity, Deposits, From, To
  <2>7. call.fee_source \in TokenAccounts /\ call.provided \in SUBSET FeeAccounts
    BY <1>12, CallType
  <2> QED
    BY <1>5, <2>6, <2>7 DEF Movement, Bridging
<1> QED
  BY <1>9, <1>10, <1>11, <1>12, CallType

-----------------------------------------------------------------------------
(* The refinement                                                          *)

\* The transactions of others keep the accounts a call has locked.
LEMMA TokenStep ==
  ASSUME TypeOK, ExecInv, TokenProgramStep
  PROVE  ExecInv' /\ Next
<1>1. exec' = exec /\ UNCHANGED <<bridge_state, whitelist>>
  BY DEF TokenProgramStep, SplTransfer, OpenAccount, CloseAccount
<1>2. Next
  BY DEF TokenProgramStep, Next, TokenTransfers
<1>3. CASE exec = Idle
  BY <1>1, <1>2, <1>3 DEF ExecInv, Idle
<1>4. ASSUME NEW stage \in StageNames, NEW call \in Calls,
             NEW t \in [TokenAccounts -> U64], NEW o \in SUBSET TokenAccounts,
             InProgress(stage, call, t, o)
      PROVE  ExecInv'
  <2>1. exec # Idle /\ exec.call = call
    BY <1>4 DEF InProgress, Copy, Idle, StageNames
  <2>2. Locked = Locks(call)
    BY <2>1 DEF Locked
  <2>3. \A a \in TokenAccounts \intersect Locks(call) :
          tokens'[a] = tokens[a] /\ (a \in opened' <=> a \in opened)
    <3>1. ASSUME NEW authority \in Keys, NEW from \in TokenAccounts,
                 NEW to \in TokenAccounts, NEW amount \in Amounts,
                 {from, to} \intersect Locked = {},
                 SplTransfer(authority, from, to, amount)
          PROVE  /\ \A a \in TokenAccounts \intersect Locks(call) :
                      tokens'[a] = tokens[a]
                 /\ opened' = opened
      BY <2>2, <3>1, TransferBalance, AmountsAssumption DEF SplTransfer, TypeOK
    <3>2. ASSUME NEW account \in TokenAccounts, account \notin Locked,
                 \/ OpenAccount(account)
                 \/ \E authority \in Keys : CloseAccount(authority, account)
          PROVE  /\ tokens' = tokens
                 /\ \A a \in Locks(call) : a \in opened' <=> a \in opened
      BY <2>2, <3>2 DEF OpenAccount, CloseAccount
    <3> QED
      BY <3>1, <3>2 DEF TokenProgramStep
  <2>4. Locks(call) \subseteq TokenAccounts
    BY <1>4, LocksTyped
  <2>5. Agree(call, t, o)'
    BY <1>4, <2>3, <2>4 DEF InProgress, Agree
  <2>6. InProgress(stage, call, t, o)'
    BY <1>1, <1>4, <2>5, SameCopy DEF InProgress
  <2> QED
    BY <2>6 DEF ExecInv
<1> QED
  BY <1>2, <1>3, <1>4 DEF ExecInv

LEMMA ExecStep ==
  ASSUME TypeOK, ExecInv, [ExecNext]_execVars
  PROVE  ExecInv' /\ [Next]_vars
<1>1. ASSUME NEW call \in Calls, Begin(call)
      PROVE  ExecInv' /\ [Next]_vars
  BY <1>1, BeginStep DEF Begin
<1>2. CASE Abort
  BY <1>2 DEF Abort, ExecInv, Idle
<1>3. CASE ReadAccounts \/ EnterHandler \/ MoveFee \/ CountAmount \/ MoveTokens
  <2>1. exec # Idle /\ UNCHANGED vars
    BY <1>3 DEF Idle, ReadAccounts, EnterHandler, MoveFee, CountAmount, MoveTokens,
       At, Go
  <2> QED
    BY <1>3, <2>1, ReadStep, EntryStep, FeeStep, CountStep, MoveStep DEF ExecInv
<1>4. CASE Commit
  <2>1. ExecInv'
    BY <1>4 DEF Commit, ExecInv, Idle
  <2>2. PICK stage \in StageNames, call \in Calls, t \in [TokenAccounts -> U64],
             o \in SUBSET TokenAccounts :
          InProgress(stage, call, t, o)
    BY <1>4 DEF Commit, At, Idle, ExecInv
  <2>3. stage = "exit"
    BY <1>4, <2>2 DEF Commit, At, InProgress, Copy
  <2>4. Movement(call.authority) /\ call.authority \in Keys
    BY <1>4, <2>2, <2>3, CommitStep, CallType
  <2> QED
    BY <2>1, <2>4 DEF Next, Movement
<1>5. CASE OtherInstruction
  BY <1>5 DEF OtherInstruction, Next, ExecInv, Idle
<1>6. CASE TokenProgramStep
  BY <1>6, TokenStep
<1>7. CASE UNCHANGED execVars
  <2>1. exec' = exec /\ UNCHANGED vars
    BY <1>7 DEF execVars
  <2>2. ASSUME NEW stage \in StageNames, NEW call \in Calls,
               NEW t \in [TokenAccounts -> U64], NEW o \in SUBSET TokenAccounts,
               InProgress(stage, call, t, o)
        PROVE  ExecInv'
    BY <2>1, <2>2, StagePassed DEF InProgress
  <2> QED
    BY <2>1, <2>2 DEF ExecInv, Idle
<1> QED
  BY <1>1, <1>2, <1>3, <1>4, <1>5, <1>6, <1>7 DEF ExecNext, Stage

\* Executed stage by stage on a working copy, beside the transfers of others and
\* with failures in the middle, a call takes the effect BridgeProgram gives it
\* in one step, or none: the theorems about BridgeProgram hold of the execution.
THEOREM StagesImplement == ExecSpec => StagesImplementProgram
<1>1. ExecInit => TypeOK /\ ExecInv
  BY InitTypeOK DEF ExecInit, ExecInv
<1>2. TypeOK /\ ExecInv /\ [ExecNext]_execVars =>
        /\ (TypeOK /\ ExecInv)'
        /\ [Next]_vars
  BY ExecStep, NextStep
<1>3. ExecInit => Init
  BY DEF ExecInit
<1> QED
  BY <1>1, <1>2, <1>3, PTL DEF ExecSpec, StagesImplementProgram, Spec

-----------------------------------------------------------------------------
(* Only a refused call fails                                               *)

\* The working copy agrees with the state on what the guards of BridgeProgram
\* look at: the locks cover every account they name.
LEMMA AcceptedHolds ==
  ASSUME TypeOK, NEW call \in Calls, NEW t \in [TokenAccounts -> U64],
         NEW o \in SUBSET TokenAccounts, Agree(call, t, o), Accepts(call)
  PROVE  /\ AccountsHold(call, t, o)
         /\ EntryHolds(call)
         /\ FeeHolds(call, t)
         /\ CountOf(call) \in U64
         /\ call.method \in Deposits =>
              CanTransfer(Fees(call, tokens), call.account, bridge_state.vault, call.amount)
         /\ call.method \notin Deposits =>
              CanTransfer(tokens, bridge_state.vault, call.account, call.amount)
<1>1. /\ Initialized /\ VaultServes /\ Vault(call) = bridge_state.vault
      /\ bridge_state.vault_amount \in U64
  BY DEF Accepts, CanAddLiquidity, CanRemoveLiquidity, CanSendFromLiquidity,
     CanSendToLiquidity, TypeOK, Initialized, BridgeState
<1>2. bridge_state.mint_of_token_whitelisted = call.mint
  BY <1>1 DEF VaultServes, Vault, Ata
<1>3. call.account \in Locks(call) /\ call.amount \in U64
  BY LocksOf, CallType
<1>4. \A owner : HeldBy(call.account, owner) => Holds(call.account, owner, o)
  BY <1>3 DEF HeldBy, Holds, Agree
<1>5. /\ call.method \in Deposits => CanCredit(call.amount)
      /\ call.method \notin Deposits => CanDebit(call.amount)
  BY DEF Accepts, CanAddLiquidity, CanRemoveLiquidity, CanSendFromLiquidity,
     CanSendToLiquidity, Deposits
<1>6. CountOf(call) \in U64
  BY <1>1, <1>3, <1>5, AmountsAssumption DEF CountOf, CanCredit, CanDebit, U64
<1>7. CASE call.method \in {"add_liquidity", "remove_liquidity", "send_from_liquidity"}
  <2>1. /\ ~PaysFeeOf(call)
        /\ Fees(call, tokens) = tokens
    BY <1>7 DEF PaysFeeOf, Fees
  <2>2. AccountsHold(call, t, o) /\ EntryHolds(call)
    BY <1>1, <1>2, <1>4, <1>7
       DEF Accepts, CanAddLiquidity, CanRemoveLiquidity, CanSendFromLiquidity,
           ByAdmin, AccountsHold, EntryHolds
  <2> QED
    BY <1>1, <1>6, <1>7, <2>1, <2>2
       DEF Accepts, CanAddLiquidity, CanRemoveLiquidity, CanSendFromLiquidity,
           FeeHolds, Deposits
<1>8. CASE call.method = "send_to_liquidity"
  <2>1. /\ CanSendToLiquidity(call.authority, call.account, call.fee_source,
                              call.provided, call.amount)
        /\ "fee_collector_ata" \in call.provided =>
             call.fee_collector = bridge_state.fee_collector
    BY <1>8 DEF Accepts
  <2>2. call.amount <= t[call.account]
    BY <1>3, <2>1 DEF CanSendToLiquidity, Agree
  <2>3. "authority_fee_token_account" \in call.provided => FeeSourceHolds(call, t, o)
    BY <2>1, LocksOf DEF CanSendToLiquidity, FeeSourceOk, FeeSourceHolds, Agree
  <2>4. AccountsHold(call, t, o) /\ EntryHolds(call)
    BY <1>1, <1>2, <1>4, <1>8, <2>1, <2>2, <2>3
       DEF CanSendToLiquidity, AccountsHold, EntryHolds
  <2>5. FeeHolds(call, t)
    <3> SUFFICES ASSUME PaysFeeOf(call)
                 PROVE  CanTransfer(t, call.fee_source, FeeAta, bridge_state.fee_amount)
      BY DEF FeeHolds
    <3>1. /\ call.provided = FeeAccounts
          /\ CanTransfer(tokens, call.fee_source, FeeAta, bridge_state.fee_amount)
      BY <2>1 DEF PaysFeeOf, CanSendToLiquidity
    <3>2. FeeAta \in Locks(call) /\ call.fee_source \in Locks(call)
      BY <1>8, <2>4, <3>1, CollectorAccount, LocksOf DEF FeeAccounts
    <3> QED
      BY <3>1, <3>2 DEF CanTransfer, Agree
  <2>6. Fees(call, tokens) = AfterFee(call.fee_source)
    BY <1>8 DEF Fees, PaysFeeOf, AfterFee
  <2> QED
    BY <1>6, <1>8, <2>1, <2>4, <2>5, <2>6 DEF CanSendToLiquidity, Deposits
<1> QED
  BY <1>7, <1>8, CallType

\* At every stage, what the stage asks follows from what BridgeProgram asks.
LEMMA AcceptedProceeds ==
  ASSUME TypeOK, NEW stage \in StageNames, NEW call \in Calls,
         NEW t \in [TokenAccounts -> U64], NEW o \in SUBSET TokenAccounts,
         InProgress(stage, call, t, o), Accepts(call)
  PROVE  CanProceed
<1>1. Agree(call, t, o)
  BY DEF InProgress
<1>2. /\ AccountsHold(call, t, o) /\ EntryHolds(call) /\ FeeHolds(call, t)
      /\ CountOf(call) \in U64
  BY <1>1, AcceptedHolds
<1>3. /\ exec.stage = stage /\ exec.call = call
      /\ stage \notin {"move", "exit"} => exec.bridge_state = bridge_state
      /\ stage \in {"accounts", "entry", "fee"} => exec.tokens = t
      /\ stage = "accounts" => exec.opened = o
      /\ stage = "move" => exec.tokens = Fees(call, t)
  BY DEF InProgress, Copy, StageNames
<1>4. CASE stage = "accounts"
  <2>1. \A account, owner : Work!HeldBy(account, owner) <=> Holds(account, owner, o)
    BY <1>3, <1>4, WorkFacts
  <2>2. VaultOk(call)
    BY <1>2, <1>3, <1>4, WorkFacts DEF VaultOk, AccountsHold
  <2>3. call.method \in {"remove_liquidity", "send_from_liquidity"} =>
          EnoughInVault(call)
    <3>1. call.method \in {"remove_liquidity", "send_from_liquidity"} =>
            call.amount <= tokens[Vault(call)]
      BY DEF Accepts, CanRemoveLiquidity, CanSendFromLiquidity, CanTransfer
    <3>2. t[Vault(call)] = tokens[Vault(call)]
      BY <1>1, LocksOf DEF Agree
    <3>3. Vault(call) \in TokenAccounts /\ call.amount \in U64
      BY <1>2, MoveAccounts, CallType
    <3> QED
      BY <1>3, <1>4, <3>1, <3>2, <3>3, AmountsAssumption DEF EnoughInVault, U64
  <2>4. call.method \in Deposits => EnoughInAccount(call)
    <3>1. call.method \in Deposits => call.amount <= tokens[call.account]
      BY DEF Accepts, CanAddLiquidity, CanSendToLiquidity, CanTransfer, Deposits
    <3>2. t[call.account] = tokens[call.account]
      BY <1>1, LocksOf DEF Agree
    <3> QED
      BY <1>3, <1>4, <3>1, <3>2, CallType, AmountsAssumption DEF EnoughInAccount, U64
  <2>5. call.method = "send_to_liquidity" =>
          /\ "authority_fee_token_account" \in call.provided =>
               Work!FeeSourceOk(call.authority, call.fee_source)
          /\ CollectorOk(call)
    BY <1>2, <1>3, <1>4
       DEF AccountsHold, FeeSourceHolds, Work!FeeSourceOk, CollectorOk
  <2>6. AccountsOk(call)
    BY <1>2, <1>3, <1>4, <2>1, <2>2, <2>3, <2>4, <2>5, CallType
       DEF AccountsOk, AccountsHold, Deposits
  <2> QED
    BY <1>3, <1>4, <2>6 DEF CanProceed, At
<1>5. CASE stage = "entry"
  <2>1. EntryOk(call)
    BY <1>2, <1>3, <1>5, WorkFacts, CallType DEF EntryOk, EntryHolds
  <2> QED
    BY <1>3, <1>5, <2>1 DEF CanProceed, At
<1>6. CASE stage = "fee"
  <2>1. FeeOk(call)
    BY <1>2, <1>3, <1>6, WorkFacts DEF FeeOk, PaysFee, FeeHolds, PaysFeeOf
  <2> QED
    BY <1>3, <1>6, <2>1 DEF CanProceed, At
<1>7. CASE stage = "count"
  <2>1. Counted(call) = CountOf(call)
    BY <1>3, <1>7 DEF Counted, CountOf, Deposits
  <2> QED
    BY <1>2, <1>3, <1>7, <2>1 DEF CanProceed, At
<1>8. CASE stage = "move"
  <2>1. CanTransfer(Fees(call, tokens), From(call), To(call), call.amount)
    <3>1. /\ Vault(call) = bridge_state.vault
          /\ call.method \notin Deposits => Fees(call, tokens) = tokens
      BY DEF Accepts, Fees, PaysFeeOf, Deposits
    <3> QED
      BY <1>1, <3>1, AcceptedHolds DEF From, To, Deposits
  <2>2. Same(Locks(call), Fees(call, t), Fees(call, tokens))
    BY <1>1, <1>2, FeesAgree
  <2>3. /\ From(call) \in TokenAccounts \intersect Locks(call)
        /\ To(call) \in TokenAccounts \intersect Locks(call)
    BY <1>2, MoveAccounts, LocksOf
  <2>4. CanTransfer(Fees(call, t), From(call), To(call), call.amount)
    BY <2>1, <2>2, <2>3 DEF CanTransfer, Same
  <2>5. MoveOk(call)
    BY <1>3, <1>8, <2>4 DEF MoveOk
  <2> QED
    BY <1>3, <1>8, <2>5 DEF CanProceed, At
<1>9. CASE stage = "exit"
  BY <1>3, <1>9 DEF CanProceed, At
<1> QED
  BY <1>4, <1>5, <1>6, <1>7, <1>8, <1>9 DEF StageNames

\* No call that BridgeProgram accepts fails at any stage, whatever the token
\* transfers of others interleaved with it.
THEOREM FailuresAlwaysJustified == ExecSpec => FailuresJustified
<1>1. ExecInit => TypeOK /\ ExecInv
  BY InitTypeOK DEF ExecInit, ExecInv
<1>2. TypeOK /\ ExecInv /\ [ExecNext]_execVars => (TypeOK /\ ExecInv)'
  BY ExecStep, NextStep
<1>3. TypeOK /\ ExecInv => [Abort => ~Accepts(exec.call)]_execVars
  <2> SUFFICES ASSUME TypeOK, ExecInv, Abort, Accepts(exec.call), exec' # exec
               PROVE  FALSE
    BY DEF Abort, execVars
  <2>1. PICK stage \in StageNames, call \in Calls, t \in [TokenAccounts -> U64],
             o \in SUBSET TokenAccounts :
          InProgress(stage, call, t, o)
    BY DEF Abort, ExecInv
  <2>2. exec.call = call
    BY <2>1 DEF InProgress, Copy
  <2> QED
    BY <2>1, <2>2, AcceptedProceeds DEF Abort
<1> QED
  BY <1>1, <1>2, <1>3, PTL DEF ExecSpec, FailuresJustified

=============================================================================
