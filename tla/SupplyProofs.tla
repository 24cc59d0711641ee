---------------------------- MODULE SupplyProofs ----------------------------
(***************************************************************************)
(* Proofs about the supply of each mint: no step changes it, hence the     *)
(* ledger and what any account outside the vault holds always fit a u64    *)
(* together, and the administrator can withdraw all the ledger counts.     *)
(*                                                                         *)
(* The supply is the number of token units, a unit being a place in an     *)
(* account.  A transfer is then a bijection between the units before and   *)
(* after: the top `amount' places of the payer's account become the top    *)
(* places of the payee's.  No sum over the accounts, hence no induction,   *)
(* is needed.                                                              *)
(***************************************************************************)
EXTENDS BridgeProgramProofs, FiniteSetTheorems, FunctionTheorems

(* Units                                                                   *)

LEMMA UnitsFinite ==
  ASSUME NEW balance, NEW mint
  PROVE  /\ IsFiniteSet(Units(balance, mint))
         /\ Supply(balance, mint) \in Nat
<1>1. IsFiniteSet(TokenAccounts) /\ IsFiniteSet(1..MaxU64)
  BY FS_Interval, SupplyAssumption, AmountsAssumption
<1>2. IsFiniteSet(TokenAccounts \X (1..MaxU64))
  BY <1>1, FS_Product
<1>3. Units(balance, mint) \in SUBSET (TokenAccounts \X (1..MaxU64))
  BY DEF Units
<1> QED
  BY <1>2, <1>3, FS_Subset, FS_CardinalityType DEF Supply

LEMMA UnitsMember ==
  ASSUME NEW balance, NEW mint, NEW a, NEW i
  PROVE  <<a, i>> \in Units(balance, mint) <=>
           /\ a \in TokenAccounts
           /\ i \in 1..MaxU64
           /\ a.mint = mint
           /\ i <= balance[a]
  BY DEF Units

-----------------------------------------------------------------------------
(* A transfer moves units                                                  *)

\* Where the unit at place i of account a is once `amount' units have left the
\* top of `from' for the top of `to'.
Moved(balance, from, to, amount, unit) ==
  IF unit[1] = from /\ unit[2] > balance[from] - amount
  THEN <<to, balance[to] + (unit[2] - (balance[from] - amount))>>
  ELSE unit

LEMMA TransferMovesUnits ==
  ASSUME NEW balance \in [TokenAccounts -> U64],
         NEW from \in TokenAccounts, NEW to \in TokenAccounts,
         NEW amount \in U64,
         from # to, from.mint = to.mint,
         CanTransfer(balance, from, to, amount)
  PROVE  ExistsBijection(Units(balance, from.mint),
                         Units(Transfer(balance, from, to, amount), from.mint))
<1> DEFINE after == Transfer(balance, from, to, amount)
           S == Units(balance, from.mint)
           T == Units(after, from.mint)
           rest == balance[from] - amount
           f == [unit \in S |-> Moved(balance, from, to, amount, unit)]
<1>1. /\ MaxU64 \in Nat
      /\ balance[from] \in 0..MaxU64
      /\ balance[to] \in 0..MaxU64
      /\ amount \in 0..MaxU64
      /\ rest \in 0..MaxU64
      /\ balance[to] + amount <= MaxU64
  BY AmountsAssumption DEF CanTransfer, U64
<1>2. \A a \in TokenAccounts :
        after[a] = IF a = from THEN rest
                   ELSE IF a = to THEN balance[to] + amount
                   ELSE balance[a]
  BY TransferBalance
<1>3. ASSUME NEW unit \in S
      PROVE  /\ unit = <<unit[1], unit[2]>>
             /\ unit[1] \in TokenAccounts
             /\ unit[2] \in 1..balance[unit[1]]
             /\ unit[1].mint = from.mint
  <2>1. balance[unit[1]] \in U64
    BY <1>3 DEF Units
  <2> QED
    BY <1>1, <1>3, <2>1 DEF Units, U64
<1>4. ASSUME NEW a \in TokenAccounts, NEW i \in 1..after[a], a.mint = from.mint
      PROVE  <<a, i>> \in T
  <2>1. after[a] \in U64
    BY TransferType
  <2> QED
    BY <1>1, <1>4, <2>1, UnitsMember DEF U64
<1>5. ASSUME NEW a \in TokenAccounts, NEW i \in 1..balance[a], a.mint = from.mint
      PROVE  <<a, i>> \in S
  <2>1. balance[a] \in U64
    OBVIOUS
  <2> QED
    BY <1>1, <1>5, <2>1, UnitsMember DEF U64
<1>6. ASSUME NEW unit \in S
      PROVE  f[unit] = IF unit[1] = from /\ unit[2] > rest
                       THEN <<to, balance[to] + (unit[2] - rest)>>
                       ELSE unit
  BY <1>6 DEF Moved
<1>7. f \in [S -> T]
  <2> SUFFICES ASSUME NEW unit \in S
               PROVE  f[unit] \in T
    OBVIOUS
  <2>1. CASE unit[1] = from /\ unit[2] > rest
    <3>1. balance[to] + (unit[2] - rest) \in 1..after[to]
      BY <1>1, <1>2, <1>3, <2>1
    <3> QED
      BY <1>4, <1>6, <2>1, <3>1
  <2>2. CASE ~(unit[1] = from /\ unit[2] > rest)
    <3>1. unit[2] \in 1..after[unit[1]]
      <4>1. balance[unit[1]] \in 0..MaxU64
        BY <1>3 DEF U64
      <4> QED
        BY <1>1, <1>2, <1>3, <2>2, <4>1
    <3> QED
      BY <1>3, <1>4, <1>6, <2>2, <3>1
  <2> QED
    BY <2>1, <2>2
<1>8. ASSUME NEW x \in S, NEW y \in S, f[x] = f[y]
      PROVE  x = y
  <2>1. /\ x = <<x[1], x[2]>> /\ x[2] \in 1..balance[x[1]]
        /\ y = <<y[1], y[2]>> /\ y[2] \in 1..balance[y[1]]
        /\ x[2] \in Nat /\ y[2] \in Nat
    BY <1>3
  <2>2. CASE /\ x[1] = from /\ x[2] > rest
             /\ y[1] = from /\ y[2] > rest
    BY <1>1, <1>6, <1>8, <2>1, <2>2
  <2>3. CASE /\ ~(x[1] = from /\ x[2] > rest)
             /\ ~(y[1] = from /\ y[2] > rest)
    BY <1>6, <1>8, <2>3
  <2>4. CASE /\ x[1] = from /\ x[2] > rest
             /\ ~(y[1] = from /\ y[2] > rest)
    <3>1. y[1] = to /\ y[2] = balance[to] + (x[2] - rest)
      BY <1>6, <1>8, <2>4
    <3> QED
      BY <1>1, <2>1, <2>4, <3>1
  <2>5. CASE /\ ~(x[1] = from /\ x[2] > rest)
             /\ y[1] = from /\ y[2] > rest
    <3>1. x[1] = to /\ x[2] = balance[to] + (y[2] - rest)
      BY <1>6, <1>8, <2>5
    <3> QED
      BY <1>1, <2>1, <2>5, <3>1
  <2> QED
    BY <2>2, <2>3, <2>4, <2>5
<1>9. ASSUME NEW unit \in T
      PROVE  \E u \in S : f[u] = unit
  <2>1. /\ unit = <<unit[1], unit[2]>>
        /\ unit[1] \in TokenAccounts
        /\ unit[2] \in 1..after[unit[1]]
        /\ unit[1].mint = from.mint
    <3>1. after[unit[1]] \in U64
      BY <1>9, TransferType DEF Units
    <3> QED
      BY <1>1, <1>9, <3>1 DEF Units, U64
  <2>2. CASE unit[1] = to /\ unit[2] > balance[to]
    <3> DEFINE i == rest + (unit[2] - balance[to])
    <3>1. i \in 1..balance[from] /\ i > rest
      BY <1>1, <1>2, <2>1, <2>2
    <3>2. <<from, i>> \in S
      BY <1>5, <3>1
    <3>3. balance[to] + (i - rest) = unit[2]
      BY <1>1, <1>2, <2>1, <2>2
    <3>4. f[<<from, i>>] = <<to, balance[to] + (i - rest)>>
      BY <1>6, <3>1, <3>2
    <3> QED
      BY <2>1, <2>2, <3>2, <3>3, <3>4
  <2>3. CASE ~(unit[1] = to /\ unit[2] > balance[to])
    <3>1. /\ unit[2] \in 1..balance[unit[1]]
          /\ ~(unit[1] = from /\ unit[2] > rest)
      <4>1. balance[unit[1]] \in 0..MaxU64
        BY <2>1 DEF U64
      <4> QED
        BY <1>1, <1>2, <2>1, <2>3, <4>1
    <3>2. unit \in S
      BY <1>5, <2>1, <3>1
    <3> QED
      BY <1>6, <3>1, <3>2
  <2> QED
    BY <2>2, <2>3
<1>10. f \in Bijection(S, T)
  BY <1>7, <1>8, <1>9, Fun_IsBij DEF Surjection
<1> QED
  BY <1>10 DEF ExistsBijection

\* A transfer between two accounts of one mint keeps the supply of every mint.
LEMMA TransferKeepsSupply ==
  ASSUME NEW balance \in [TokenAccounts -> U64],
         NEW from \in TokenAccounts, NEW to \in TokenAccounts,
         NEW amount \in U64, from.mint = to.mint,
         CanTransfer(balance, from, to, amount), NEW mint
  PROVE  Supply(Transfer(balance, from, to, amount), mint) = Supply(balance, mint)
<1> DEFINE after == Transfer(balance, from, to, amount)
<1>1. CASE from = to
  BY <1>1 DEF Transfer
<1>2. CASE from # to /\ mint = from.mint
  BY <1>2, TransferMovesUnits, UnitsFinite, FS_Bijection DEF Supply
<1>3. CASE from # to /\ mint # from.mint
  <2>1. \A a \in TokenAccounts : a.mint = mint => after[a] = balance[a]
    BY <1>3, TransferBalance
  <2>2. Units(after, mint) = Units(balance, mint)
    BY <2>1 DEF Units
  <2> QED
    BY <2>2 DEF Supply
<1> QED
  BY <1>1, <1>2, <1>3

-----------------------------------------------------------------------------
(* No step changes the supply                                              *)

SupplyKept == \A m \in Mints : Supply(tokens', m) = Supply(tokens, m)

\* The four instructions that move tokens move them within a mint: the vault
\* that serves and the account HeldBy admits are of the whitelisted mint, the
\* fee's two accounts are of the native mint.
LEMMA VaultMint ==
  ASSUME TypeOK, Initialized, VaultServes
  PROVE  bridge_state.vault.mint = bridge_state.mint_of_token_whitelisted
  BY VaultTyped, VaultAccount DEF VaultServes, BridgeState

LEMMA LiquiditySupply ==
  ASSUME TypeOK, NEW account \in TokenAccounts, NEW amount \in U64,
         Initialized, VaultServes,
         account.mint = bridge_state.mint_of_token_whitelisted,
         \/ /\ CanTransfer(tokens, account, bridge_state.vault, amount)
            /\ tokens' = Transfer(tokens, account, bridge_state.vault, amount)
         \/ /\ CanTransfer(tokens, bridge_state.vault, account, amount)
            /\ tokens' = Transfer(tokens, bridge_state.vault, account, amount)
  PROVE  SupplyKept
<1>1. /\ tokens \in [TokenAccounts -> U64]
      /\ bridge_state.vault \in TokenAccounts
      /\ bridge_state.vault.mint = account.mint
  BY VaultTyped, VaultMint DEF TypeOK
<1> QED
  BY <1>1, TransferKeepsSupply DEF SupplyKept

LEMMA SendToLiquiditySupply ==
  ASSUME TypeOK, NEW authority \in Keys, NEW source \in TokenAccounts,
         NEW fee_source \in TokenAccounts, NEW provided \in SUBSET FeeAccounts,
         NEW amount \in Amounts,
         SendToLiquidity(authority, source, fee_source, provided, amount)
  PROVE  SupplyKept
<1>1. /\ Initialized /\ VaultServes
      /\ source.mint = bridge_state.mint_of_token_whitelisted
      /\ amount \in U64
  BY AmountsAssumption DEF SendToLiquidity, CanSendToLiquidity, HeldBy
<1>2. /\ tokens \in [TokenAccounts -> U64]
      /\ bridge_state.vault \in TokenAccounts
      /\ bridge_state.vault.mint = source.mint
  BY <1>1, VaultTyped, VaultMint DEF TypeOK
<1>3. /\ AfterFee(fee_source) \in [TokenAccounts -> U64]
      /\ \A m \in Mints : Supply(AfterFee(fee_source), m) = Supply(tokens, m)
  <2>1. CASE HasFee
    <3>1. /\ provided = FeeAccounts
          /\ fee_source.mint = NativeMint
          /\ bridge_state.fee_collector \in Keys
          /\ CanTransfer(tokens, fee_source, FeeAta, bridge_state.fee_amount)
      BY <2>1 DEF SendToLiquidity, CanSendToLiquidity, FeeAccounts, FeeSourceOk
    <3>2. /\ FeeAta \in TokenAccounts
          /\ FeeAta.mint = NativeMint
          /\ bridge_state.fee_amount \in U64
      BY <1>1, <3>1, VaultTyped, AccountsAssumption DEF FeeAta, Ata, BridgeState
    <3>3. AfterFee(fee_source) =
            Transfer(tokens, fee_source, FeeAta, bridge_state.fee_amount)
      BY <2>1 DEF AfterFee
    <3> QED
      BY <1>2, <3>1, <3>2, <3>3, TransferType, TransferKeepsSupply
  <2>2. CASE ~HasFee
    BY <1>2, <2>2 DEF AfterFee
  <2> QED
    BY <2>1, <2>2
<1>4. /\ CanTransfer(AfterFee(fee_source), source, bridge_state.vault, amount)
      /\ tokens' = Transfer(AfterFee(fee_source), source, bridge_state.vault, amount)
  BY DEF SendToLiquidity, CanSendToLiquidity
<1>5. ASSUME NEW m \in Mints
      PROVE  Supply(tokens', m) = Supply(AfterFee(fee_source), m)
  BY <1>1, <1>2, <1>3, <1>4, TransferKeepsSupply
<1> QED
  BY <1>3, <1>5 DEF SupplyKept

LEMMA MovementSupply ==
  ASSUME TypeOK, NEW authority \in Keys, Movement(authority)
  PROVE  SupplyKept
<1>1. PICK account \in TokenAccounts, amount \in Amounts :
        \/ AddLiquidity(authority, account, amount)
        \/ RemoveLiquidity(authority, account, amount)
        \/ \E receiver \in Pubkeys :
             SendFromLiquidity(authority, receiver, account, amount)
        \/ \E fee_source \in TokenAccounts, provided \in SUBSET FeeAccounts :
             SendToLiquidity(authority, account, fee_source, provided, amount)
        \/ \E to \in TokenAccounts : SplTransfer(authority, account, to, amount)
  BY DEF Movement, Liquidity, Bridging, TokenTransfers
<1>2. amount \in U64 /\ tokens \in [TokenAccounts -> U64]
  BY AmountsAssumption DEF TypeOK
<1>3. CASE AddLiquidity(authority, account, amount)
  BY <1>2, <1>3, LiquiditySupply DEF AddLiquidity, CanAddLiquidity, ByAdmin, HeldBy
<1>4. CASE RemoveLiquidity(authority, account, amount)
  BY <1>2, <1>4, LiquiditySupply DEF RemoveLiquidity, CanRemoveLiquidity, ByAdmin, HeldBy
<1>5. ASSUME NEW receiver \in Pubkeys,
             SendFromLiquidity(authority, receiver, account, amount)
      PROVE  SupplyKept
  BY <1>2, <1>5, LiquiditySupply DEF SendFromLiquidity, CanSendFromLiquidity, HeldBy
<1>6. ASSUME NEW fee_source \in TokenAccounts, NEW provided \in SUBSET FeeAccounts,
             SendToLiquidity(authority, account, fee_source, provided, amount)
      PROVE  SupplyKept
  BY <1>6, SendToLiquiditySupply
<1>7. ASSUME NEW to \in TokenAccounts, SplTransfer(authority, account, to, amount)
      PROVE  SupplyKept
  BY <1>2, <1>7, TransferKeepsSupply DEF SplTransfer, SupplyKept
<1> QED
  BY <1>1, <1>3, <1>4, <1>5, <1>6, <1>7

LEMMA SupplyStep ==
  ASSUME TypeOK, [Next]_vars
  PROVE  SupplyKept
<1>1. ASSUME NEW authority \in Keys, Movement(authority)
      PROVE  SupplyKept
  BY <1>1, MovementSupply
<1>2. ASSUME NEW authority \in Keys, Initialization(authority)
      PROVE  tokens' = tokens
  BY <1>2 DEF Initialization, InitializeContract
<1>3. ASSUME NEW authority \in Keys, Configuration(authority)
      PROVE  tokens' = tokens
  BY <1>3, ConfigurationStep
<1>4. ASSUME NEW authority \in Keys, NEW account \in TokenAccounts,
             OpenAccount(account) \/ CloseAccount(authority, account)
      PROVE  tokens' = tokens
  BY <1>4 DEF OpenAccount, CloseAccount
<1>5. \/ UNCHANGED vars
      \/ tokens' = tokens
      \/ \E account \in TokenAccounts : OpenAccount(account)
      \/ SupplyKept
  BY <1>1, <1>2, <1>3, <1>4 DEF Next, Configuration, Movement
<1>6. tokens' = tokens \/ SupplyKept
  BY <1>5 DEF vars, OpenAccount
<1> QED
  BY <1>6 DEF SupplyKept

\* Whatever instructions, fees, direct transfers and openings and closings of
\* accounts follow one another, the tokens of each mint stay as many as they
\* were at first.
THEOREM SupplyAlwaysConserved == Spec => []SupplyConserved
<1>1. Init => SupplyConserved
  BY DEF Init, SupplyConserved
<1>2. TypeOK /\ SupplyConserved /\ [Next]_vars => SupplyConserved'
  BY SupplyStep DEF SupplyConserved, SupplyKept
<1> QED
  BY TypeCorrect, <1>1, <1>2, PTL DEF Spec

-----------------------------------------------------------------------------
(* The ledger and an account of a depositor fit a u64 together             *)

\* The units of one account are as many as its balance.
LEMMA AccountUnits ==
  ASSUME NEW a, NEW n \in Nat
  PROVE  /\ IsFiniteSet({a} \X (1..n))
         /\ Cardinality({a} \X (1..n)) = n
<1>1. IsFiniteSet({a}) /\ Cardinality({a}) = 1
  BY FS_Singleton
<1>2. IsFiniteSet(1..n) /\ Cardinality(1..n) = n
  BY FS_Interval
<1>3. /\ IsFiniteSet({a} \X (1..n))
      /\ Cardinality({a} \X (1..n)) = Cardinality({a}) * Cardinality(1..n)
  BY <1>1, <1>2, FS_Product
<1>4. 1 * n = n
  OBVIOUS
<1> QED
  BY <1>1, <1>2, <1>3, <1>4

\* Two accounts of a mint hold no more than its supply.
LEMMA TwoAccountsWithinSupply ==
  ASSUME NEW balance \in [TokenAccounts -> U64], NEW mint,
         NEW a \in TokenAccounts, NEW b \in TokenAccounts,
         a # b, a.mint = mint, b.mint = mint
  PROVE  balance[a] + balance[b] <= Supply(balance, mint)
<1> DEFINE A == {a} \X (1..balance[a])
           B == {b} \X (1..balance[b])
<1>1. /\ balance[a] \in 0..MaxU64 /\ balance[b] \in 0..MaxU64
      /\ balance[a] \in Nat /\ balance[b] \in Nat /\ MaxU64 \in Nat
  BY AmountsAssumption DEF U64
<1>2. /\ IsFiniteSet(A) /\ Cardinality(A) = balance[a]
      /\ IsFiniteSet(B) /\ Cardinality(B) = balance[b]
  BY <1>1, AccountUnits
<1>3. A \intersect B = {}
  OBVIOUS
<1>4. Cardinality(A \union B) = balance[a] + balance[b]
  <2>1. Cardinality(A \intersect B) = 0
    BY <1>3, FS_EmptySet
  <2>2. Cardinality(A \union B) =
          Cardinality(A) + Cardinality(B) - Cardinality(A \intersect B)
    BY <1>2, FS_Union
  <2> QED
    BY <1>1, <1>2, <2>1, <2>2
<1>5. A \union B \in SUBSET Units(balance, mint)
  BY <1>1, UnitsMember
<1>6. Cardinality(A \union B) <= Supply(balance, mint)
  BY <1>5, UnitsFinite, FS_Subset DEF Supply
<1> QED
  BY <1>4, <1>6

\* CreditNeverOverflows follows from the ledger being backed and from the
\* supply; it is not inductive by itself.
LEMMA CreditFits ==
  ASSUME LedgerInv, SupplyConserved
  PROVE  CreditNeverOverflows
<1> SUFFICES ASSUME Initialized, NEW a \in TokenAccounts,
                    a.mint = bridge_state.mint_of_token_whitelisted,
                    a.owner # BridgePda
             PROVE  bridge_state.vault_amount + tokens[a] <= MaxU64
  BY DEF CreditNeverOverflows
<1> DEFINE mint == bridge_state.mint_of_token_whitelisted
           vault == Ata(BridgePda, mint)
<1>1. /\ mint \in Mints
      /\ bridge_state.vault_amount \in U64
      /\ tokens \in [TokenAccounts -> U64]
  BY VaultTyped DEF LedgerInv, TypeOK, BridgeState
<1>2. vault \in TokenAccounts /\ vault.mint = mint /\ vault # a
  BY <1>1, VaultAccount
<1>3. bridge_state.vault_amount <= tokens[vault]
  BY DEF LedgerInv, LedgerBacked
<1>4. tokens[vault] + tokens[a] <= Supply(tokens, mint)
  BY <1>1, <1>2, TwoAccountsWithinSupply
<1>5. Supply(tokens, mint) \in Nat /\ Supply(tokens, mint) <= MaxU64
  BY <1>1, UnitsFinite, SupplyAssumption DEF SupplyConserved
<1>6. /\ tokens[vault] \in Nat /\ tokens[a] \in Nat
      /\ bridge_state.vault_amount \in Nat /\ MaxU64 \in Nat
  BY <1>1, <1>2, AmountsAssumption DEF U64
<1> QED
  BY <1>3, <1>4, <1>5, <1>6

\* No add_liquidity and no send_to_liquidity is refused because the ledger
\* would overflow.
THEOREM CreditAlwaysFits == Spec => []CreditNeverOverflows
<1>1. Init => LedgerInv
  BY InitTypeOK DEF Init, LedgerInv, LedgerBacked, Initialized
<1>2. LedgerInv /\ [Next]_vars => LedgerInv'
  BY LedgerBackedStep, NextStep DEF LedgerInv
<1>3. LedgerInv /\ SupplyConserved => CreditNeverOverflows
  BY CreditFits
<1> QED
  BY SupplyAlwaysConserved, <1>1, <1>2, <1>3, PTL DEF Spec

\* Everything the ledger counts is in the vault that serves, and what the
\* administrator holds beside it leaves room for it.
LEMMA WithdrawalAdmitted ==
  ASSUME LedgerInv, CreditNeverOverflows
  PROVE  LedgerWithdrawable
<1> SUFFICES ASSUME Initialized, VaultServes, NEW a \in opened, HeldBy(a, Admin)
             PROVE  CanRemoveLiquidity(Admin, a, bridge_state.vault_amount)
  BY DEF LedgerWithdrawable
<1> DEFINE vault == bridge_state.vault
           amount == bridge_state.vault_amount
<1>1. /\ vault \in TokenAccounts /\ a \in TokenAccounts
      /\ amount \in U64
      /\ tokens \in [TokenAccounts -> U64]
  BY VaultTyped DEF LedgerInv, TypeOK, BridgeState
<1>2. amount <= tokens[vault]
  BY DEF LedgerInv, LedgerBacked, VaultServes
<1>3. amount + tokens[a] <= MaxU64
  BY <1>1, KeysAssumption DEF CreditNeverOverflows, HeldBy
<1>4. CanTransfer(tokens, vault, a, amount)
  BY <1>1, <1>2, <1>3, AmountsAssumption DEF CanTransfer, U64
<1>5. CanDebit(amount)
  BY <1>1, AmountsAssumption DEF CanDebit, U64
<1> QED
  BY <1>4, <1>5 DEF CanRemoveLiquidity, ByAdmin

\* The administrator can always take out all the liquidity the program counts,
\* whatever is paused, as long as the vault serves the whitelisted mint.
THEOREM LedgerAlwaysWithdrawable == Spec => []LedgerWithdrawable
<1>1. Init => LedgerInv
  BY InitTypeOK DEF Init, LedgerInv, LedgerBacked, Initialized
<1>2. LedgerInv /\ [Next]_vars => LedgerInv'
  BY LedgerBackedStep, NextStep DEF LedgerInv
<1>3. LedgerInv /\ CreditNeverOverflows => LedgerWithdrawable
  BY WithdrawalAdmitted
<1> QED
  BY CreditAlwaysFits, <1>1, <1>2, <1>3, PTL DEF Spec

=============================================================================
