---------------------------- MODULE MCLiquidity ----------------------------
(***************************************************************************)
(* An instance of BridgeProgram about liquidity: two mints to switch       *)
(* between, direct transfers into the vault, an account of the bridge that *)
(* is not its vault, payouts to the bridge itself.  No fee; the supply of  *)
(* each mint is exactly MaxU64.                                            *)
(***************************************************************************)
EXTENDS BridgeProgram

CONSTANTS admin, relayer, user, pda, mintA, native

MCKeys == {admin, relayer, user}
MCMints == {mintA, native}
MCDecimals == [m \in MCMints |-> 0]

Stray == [owner |-> pda, mint |-> mintA, nonce |-> 1]

MCTokenAccounts ==
  {Ata(pda, mintA), Ata(pda, native), Stray,
   Ata(admin, mintA), Ata(admin, native), Ata(user, mintA)}

MCInitiallyOpen ==
  {Ata(admin, mintA), Ata(user, mintA), Ata(admin, native)}

MCInitialTokens ==
  [a \in MCTokenAccounts |->
     CASE a = Ata(admin, mintA)  -> 2
       [] a = Ata(user, mintA)   -> 2
       [] a = Ata(admin, native) -> 4
       [] OTHER                  -> 0]

MCLimits == {<<0, 4>>}

=============================================================================
