---------------------------- MODULE EscrowProofs ---------------------------
(***************************************************************************)
(* The escrow keeps its ledger backed, for every capacity.                 *)
(***************************************************************************)
EXTENDS Escrow, TLAPS

LEMMA BackedStep ==
  ASSUME Backed, [Next]_vars
  PROVE  Backed'
<1> USE CapacityAssumption DEF Backed, Quantity
<1>1. CASE Open
  BY <1>1 DEF Open
<1>2. ASSUME NEW n \in Quantity, Lock(n)
      PROVE  Backed'
  BY <1>2 DEF Lock
<1>3. ASSUME NEW n \in Quantity, Release(n)
      PROVE  Backed'
  BY <1>3 DEF Release
<1>4. ASSUME NEW n \in Quantity, Retire(n)
      PROVE  Backed'
  BY <1>4 DEF Retire
<1>5. ASSUME NEW n \in Quantity, Gift(n)
      PROVE  Backed'
  BY <1>5 DEF Gift
<1>6. CASE Suspend
  BY <1>6 DEF Suspend
<1>7. CASE Resync
  BY <1>7 DEF Resync
<1>8. CASE UNCHANGED vars
  BY <1>8 DEF vars
<1> QED
  BY <1>1, <1>2, <1>3, <1>4, <1>5, <1>6, <1>7, <1>8 DEF Next

\* What is counted as locked is held, in every state of the escrow.
THEOREM EscrowIsBacked == Spec => []Backed
<1>1. Init => Backed
  BY CapacityAssumption DEF Init, Backed, Quantity
<1>2. Backed /\ [Next]_vars => Backed'
  BY BackedStep
<1> QED
  BY <1>1, <1>2, PTL DEF Spec

=============================================================================
