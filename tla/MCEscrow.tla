----------------------------- MODULE MCEscrow ------------------------------
(***************************************************************************)
(* BridgeEscrow with the accounts, mints and balances of a small instance. *)
(* The bridge owns the vaults of two mints and one account more; the first *)
(* vault holds a token before initialize_contract runs.  A whole token of  *)
(* the native mint is more than a u64.                                     *)
(***************************************************************************)
EXTENDS BridgeEscrow

CONSTANTS admin, relayer, pda, mintA, native

MCKeys == {admin, relayer}
MCMints == {mintA, native}
MCDecimals == [m \in MCMints |-> IF m = native THEN 1 ELSE 0]

MCTokenAccounts ==
  {Ata(pda, mintA), Ata(pda, native), Ata(admin, mintA), Ata(relayer, native),
   Ata(admin, native), [owner |-> pda, mint |-> mintA, nonce |-> 1]}

MCInitiallyOpen == MCTokenAccounts \ {Ata(pda, native), Ata(relayer, native)}

MCInitialTokens ==
  [a \in MCTokenAccounts |->
     CASE a = Ata(pda, mintA)    -> 1
       [] a = Ata(admin, mintA)  -> 2
       [] a = Ata(admin, native) -> 2
       [] OTHER                  -> 0]

MCLimits == {<<1, 3>>}

=============================================================================
