------------------------------ MODULE Escrow -------------------------------
(***************************************************************************)
(* What the bridge promises about the vault recorded in its state: an      *)
(* escrow with a ledger.                                                   *)
(*                                                                         *)
(* The escrow opens once, with an empty ledger.  While it serves, units    *)
(* enter the ledger with the tokens they stand for (Lock) and leave it     *)
(* with them (Release), or leave it alone when the escrow pays itself      *)
(* (Retire).  Tokens may arrive that the ledger does not count (Gift),     *)
(* until a Resync counts all that is held.  While the escrow is suspended  *)
(* nothing leaves it.  In no state is more in the ledger than is held.     *)
(***************************************************************************)
EXTENDS Integers

CONSTANT Capacity   \* the most that can be held

ASSUME CapacityAssumption == Capacity \in Nat

VARIABLES
  status,   \* "absent", "serving" or "suspended"
  held,     \* what is in the escrow's account
  ledger    \* what is counted as locked

vars == <<status, held, ledger>>

Quantity == 0..Capacity

Init == status = "absent" /\ held = 0 /\ ledger = 0

\* The account may hold tokens before the escrow opens.
Open ==
  /\ status = "absent"
  /\ status' = "serving"
  /\ held' \in Quantity
  /\ ledger' = 0

Lock(n) ==
  /\ status = "serving"
  /\ held + n <= Capacity
  /\ held' = held + n
  /\ ledger' = ledger + n
  /\ UNCHANGED status

\* The variant that tests the balance instead of the ledger.
Release_AllHeld(n) ==
  /\ status = "serving"
  /\ n <= held
  /\ held' = held - n
  /\ ledger' = ledger - n
  /\ UNCHANGED status

Release(n) ==
  /\ status = "serving"
  /\ n <= ledger
  /\ held' = held - n
  /\ ledger' = ledger - n
  /\ UNCHANGED status

Retire(n) ==
  /\ status = "serving"
  /\ n <= ledger
  /\ ledger' = ledger - n
  /\ UNCHANGED <<status, held>>

Gift(n) ==
  /\ status # "absent"
  /\ held + n <= Capacity
  /\ held' = held + n
  /\ UNCHANGED <<status, ledger>>

Suspend ==
  /\ status # "absent"
  /\ status' = "suspended"
  /\ ledger' = 0
  /\ UNCHANGED held

Resync ==
  /\ status # "absent"
  /\ status' = "serving"
  /\ ledger' = held
  /\ UNCHANGED held

Next ==
  \/ Open
  \/ \E n \in Quantity : Lock(n) \/ Release(n) \/ Retire(n) \/ Gift(n)
  \/ Suspend
  \/ Resync

Spec == Init /\ [][Next]_vars

-----------------------------------------------------------------------------
\* The ledger never counts more than is held, and nothing while the escrow is
\* not serving (BridgeState.vault_amount against the vault's balance).
Backed ==
  /\ status \in {"absent", "serving", "suspended"}
  /\ held \in Quantity
  /\ ledger \in 0..held
  /\ status # "serving" => ledger = 0

=============================================================================
