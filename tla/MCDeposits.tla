---------------------------- MODULE MCDeposits -----------------------------
(***************************************************************************)
(* An instance of BridgeProgram about deposits: a mint with one decimal    *)
(* (whole tokens are multiples of 10, and half tokens occur), fees in the  *)
(* native mint, which may itself be whitelisted, deposit limits, of which  *)
(* one pair admits nothing, a fee collector who deposits too and one that  *)
(* is not a system account.  Nobody can sign as relayer.                   *)
(***************************************************************************)
EXTENDS BridgeProgram, Functions, TLC

CONSTANTS admin, other, user, pda, mintA, native

MCKeys == {admin, user, other}
MCMints == {mintA, native}
MCDecimals == (mintA :> 1) @@ (native :> 0)

MCTokenAccounts ==
  {Ata(pda, mintA), Ata(user, mintA),
   Ata(pda, native), Ata(user, native), Ata(other, native)}

MCInitiallyOpen == {Ata(user, mintA), Ata(user, native)}

MCInitialTokens ==
  [a \in MCTokenAccounts |->
     CASE a = Ata(user, mintA)  -> 15
       [] a = Ata(user, native) -> 10
       [] OTHER                 -> 0]

MCLimits == {<<5, 10>>, <<10, 5>>}

=============================================================================
