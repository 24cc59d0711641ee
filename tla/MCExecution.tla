---------------------------- MODULE MCExecution ----------------------------
(***************************************************************************)
(* An instance of Execution.  The native mint is whitelisted or an empty   *)
(* one is; a user has two native accounts, so that the fee and the deposit *)
(* leave one account or two; the administrator collects the fees, and the  *)
(* user is the relayer.                                                    *)
(***************************************************************************)
EXTENDS Execution, FiniteSetsExt

CONSTANTS admin, user, pda, native, mintB

MCKeys == {admin, user}
MCMints == {native, mintB}
MCDecimals == [m \in MCMints |-> 0]

Second == [owner |-> user, mint |-> native, nonce |-> 1]

MCTokenAccounts ==
  {Ata(pda, native), Ata(pda, mintB), Ata(user, native), Second, Ata(admin, native)}
MCInitiallyOpen == {Ata(user, native), Second}
MCInitialTokens ==
  [a \in MCTokenAccounts |-> IF a = Ata(user, native) THEN 2 ELSE 0]
MCLimits == {<<0, 2>>}

LiquidityCall(method, authority, account) ==
  [method |-> method, authority |-> authority, mint |-> native,
   account |-> account, amount |-> 1, provided |-> {}]

DepositCall(provided, fee_source) ==
  [method |-> "send_to_liquidity", authority |-> user, mint |-> native,
   account |-> Ata(user, native), amount |-> 1, provided |-> provided,
   fee_source |-> fee_source, fee_collector |-> admin]

MCCalls ==
  {LiquidityCall("add_liquidity", admin, Ata(admin, native)),
   LiquidityCall("remove_liquidity", admin, Ata(admin, native)),
   LiquidityCall("send_from_liquidity", user, Ata(user, native)),
   LiquidityCall("send_from_liquidity", user, Ata(pda, native)),
   DepositCall({}, Second),
   DepositCall(FeeAccounts, Second),
   DepositCall(FeeAccounts, Ata(user, native))}

=============================================================================
