---------------------------- MODULE BridgeEscrow ---------------------------
(***************************************************************************)
(* BridgeProgram implements Escrow.                                        *)
(*                                                                         *)
(* The escrow's account is the vault recorded in bridge_state by           *)
(* initialize_contract.  update_whitelisted_mint does not change that      *)
(* field, so the escrow serves while the whitelisted mint is the vault's   *)
(* own mint and is suspended while it is another: `vault_amount' then      *)
(* counts what is in another account.                                      *)
(***************************************************************************)
EXTENDS BridgeProgram

status ==
  IF ~Initialized THEN "absent"
  ELSE IF VaultServes THEN "serving" ELSE "suspended"

held == IF Initialized THEN tokens[bridge_state.vault] ELSE 0

ledger == IF status = "serving" THEN bridge_state.vault_amount ELSE 0

E == INSTANCE Escrow WITH Capacity <- MaxU64

\* Every behaviour of the program is one of the escrow: the 18 instructions
\* and the token transfers of anyone do to the vault and to `vault_amount'
\* only what an escrow may do (send_to_liquidity, add_liquidity,
\* send_from_liquidity, remove_liquidity, update_whitelisted_mint).
ImplementsEscrow == E!Spec

=============================================================================
